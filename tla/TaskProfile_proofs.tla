--------------------------- MODULE TaskProfile_proofs ---------------------------
(***************************************************************************)
(* Theorems of module TaskProfile, for any number of call sites, calls and *)
(* ticks, any nesting of the wrappers and any sequence of MPI_Pcontrol.    *)
(*                                                                         *)
(* The inductive invariant follows the switch through the wrappers: only   *)
(* the outermost one saved what the program wants, the others, entered by  *)
(* the library, saved that profiling is off.  So a call is recorded where  *)
(* the program wants it recorded, and its time lies in time that counts.   *)
(***************************************************************************)
EXTENDS TaskProfile, SumTheorems, SequenceTheorems

-----------------------------------------------------------------------------
(* The inductive invariant. *)

Frame == [site : Site, start : Nat, enabledState : BOOLEAN]
Calls == Seq([dur : Nat, bytes : Nat])

Typed ==
  /\ use \in Use
  /\ now \in 0 .. MaxTime
  /\ enabled \in BOOLEAN /\ on \in BOOLEAN /\ finalized \in BOOLEAN
  /\ startTime \in 0 .. now /\ endTime \in 0 .. now
  /\ cumulativeTime \in Int /\ active \in Nat
  /\ ~use.viz => cumulativeTime \in Nat
  /\ DOMAIN stats \subseteq Site /\ IsFiniteSet(DOMAIN stats)
  /\ \A s \in DOMAIN stats : stats[s] \in RecordType
  /\ stack \in Seq(Frame)
  /\ printed \in [app : Int, mpi : Nat]
  /\ viz \in {"idle", "clock", "restart", "merge"}
  /\ history \in [Site -> Calls]

\* The switch is what the program left it at, or off inside of a wrapper, where the
\* outermost frame remembers it.
Switch ==
  /\ stack = << >> => (enabled <=> on)
  /\ stack # << >> => ~enabled /\ ~finalized /\ (stack[1].enabledState <=> on)
  /\ \A i \in 1 .. Len(stack) : /\ stack[i].start <= now
                                /\ i > 1 => ~stack[i].enabledState
  /\ finalized => ~on

\* The application time, as AppTimeExact has it.
Clock ==
  use.alternates /\ ~use.viz =>
    /\ Running => cumulativeTime + (now - startTime) = active
    /\ ~Running => cumulativeTime = active

\* The time recorded lies in the time profiling was wanted, and so does the time since the
\* outermost wrapper was entered, which will be.
Within ==
  /\ MpiTime <= active
  /\ stack # << >> /\ on => MpiTime + (now - stack[1].start) <= active
  /\ use.alternates /\ ~use.viz => printed.mpi <= printed.app

IInv == Typed /\ Switch /\ Clock /\ Within

-----------------------------------------------------------------------------
(* Records. *)

\* A record just created is one.
LEMMA NewTyped == NewRecord \in RecordType /\ NewRecord.time = 0
BY ProfileAssumption DEF NewRecord, RecordType, Kind

\* A record updated with a call is one, and its time has the call's in it.
LEMMA UpdatedTyped ==
  ASSUME NEW rec \in RecordType, NEW dur \in Nat, NEW size \in [Kind -> Nat]
  PROVE  Updated(rec, dur, size) \in RecordType /\ Updated(rec, dur, size).time = rec.time + dur
<1>1. /\ rec.count \in Nat /\ rec.time \in Nat /\ rec.timeSq \in Nat /\ rec.maxDur \in Nat
      /\ rec.minDur \in Nat /\ rec.arbitrary \in Nat
      /\ rec.sum \in [Kind -> Nat] /\ rec.max \in [Kind -> Nat] /\ rec.min \in [Kind -> Nat]
  BY DEF RecordType
<1>2. \A a, b \in Nat : a + b \in Nat /\ Larger(a, b) \in Nat /\ Smaller(a, b) \in Nat
  BY DEF Larger, Smaller
<1>3. dur * dur \in Nat
  OBVIOUS
<1>4. PICK sq \in Nat : sq = rec.timeSq + dur * dur
  BY <1>1, <1>3
<1>5. PICK arb \in Nat : arb = IF Threshold > -1 /\ size["sent"] >= Threshold
                               THEN rec.arbitrary + 1 ELSE rec.arbitrary
  BY <1>1
<1>6. PICK u, v, w : /\ u = [k \in Kind |-> rec.sum[k] + size[k]]
                     /\ v = [k \in Kind |-> Larger(rec.max[k], size[k])]
                     /\ w = [k \in Kind |-> Smaller(rec.min[k], size[k])]
  OBVIOUS
<1>7. u \in [Kind -> Nat] /\ v \in [Kind -> Nat] /\ w \in [Kind -> Nat]
  BY <1>1, <1>2, <1>6
<1>8. PICK c, t, ma, mi : /\ c = rec.count + 1 /\ t = rec.time + dur
                          /\ ma = Larger(rec.maxDur, dur) /\ mi = Smaller(rec.minDur, dur)
  OBVIOUS
<1>9. c \in Nat /\ t \in Nat /\ ma \in Nat /\ mi \in Nat
  BY <1>1, <1>2, <1>8
<1>10. Updated(rec, dur, size) = [count |-> c, time |-> t, timeSq |-> sq, maxDur |-> ma,
                                  minDur |-> mi, sum |-> u, max |-> v, min |-> w,
                                  arbitrary |-> arb]
  BY <1>4, <1>5, <1>6, <1>8 DEF Updated
<1>11. Updated(rec, dur, size) \in RecordType /\ Updated(rec, dur, size).time = t
  BY <1>4, <1>5, <1>7, <1>9, <1>10 DEF RecordType
<1>12. QED
  BY <1>8, <1>11

\* A record that is reset is one, with no time in it.
LEMMA ResetTyped ==
  ASSUME NEW rec \in RecordType
  PROVE  ResetRecord(rec) \in RecordType /\ ResetRecord(rec).time = 0
<1>1. rec.sum["rma"] \in Nat /\ rec.max["rma"] \in Nat /\ rec.min["rma"] \in Nat
  BY DEF RecordType, Kind
<1>2. PICK a, b, c \in Nat : a = rec.sum["rma"] /\ b = rec.max["rma"] /\ c = rec.min["rma"]
  BY <1>1
<1>3. PICK n : n = NewRecord
  OBVIOUS
<1>4. n \in RecordType /\ n.time = 0
  BY <1>3, NewTyped
<1>5. ResetRecord(rec) = [[[n EXCEPT !.sum["rma"] = a] EXCEPT !.max["rma"] = b]
                             EXCEPT !.min["rma"] = c]
  BY <1>2, <1>3 DEF ResetRecord
<1>6. [n EXCEPT !.sum["rma"] = a] \in RecordType /\ [n EXCEPT !.sum["rma"] = a].time = 0
  BY <1>4 DEF RecordType, Kind
<1>7. PICK m : m = [n EXCEPT !.sum["rma"] = a]
  OBVIOUS
<1>8. [m EXCEPT !.max["rma"] = b] \in RecordType /\ [m EXCEPT !.max["rma"] = b].time = 0
  BY <1>6, <1>7 DEF RecordType, Kind
<1>9. PICK o : o = [m EXCEPT !.max["rma"] = b]
  OBVIOUS
<1>10. [o EXCEPT !.min["rma"] = c] \in RecordType /\ [o EXCEPT !.min["rma"] = c].time = 0
  BY <1>8, <1>9 DEF RecordType, Kind
<1>11. QED
  BY <1>5, <1>7, <1>9, <1>10

\* The record of a site, kept or created.
LEMMA RecordOfTyped ==
  ASSUME Typed, NEW s \in Site
  PROVE  RecordOf(s) \in RecordType
BY NewTyped DEF RecordOf, Typed

\* The times of the records are numbers, and so is their sum.
LEMMA MpiTimeTyped ==
  ASSUME Typed
  PROVE  /\ \A s \in DOMAIN stats : stats[s].time \in Nat
         /\ MpiTime = SumFunctionOnSet([s \in DOMAIN stats |-> stats[s].time], DOMAIN stats)
         /\ MpiTime \in Nat
<1>1. \A s \in DOMAIN stats : stats[s].time \in Nat
  BY DEF Typed, RecordType
<1>2. MpiTime = SumFunctionOnSet([s \in DOMAIN stats |-> stats[s].time], DOMAIN stats)
  BY DEF MpiTime, SumFunction
<1>3. SumFunctionOnSet([s \in DOMAIN stats |-> stats[s].time], DOMAIN stats) \in Nat
  <2> DEFINE w == [s \in DOMAIN stats |-> stats[s].time]
  <2>1. \A s \in DOMAIN stats : w[s] \in Nat
    BY <1>1
  <2>2. IsFiniteSet(DOMAIN stats)
    BY DEF Typed
  <2> HIDE DEF w
  <2>3. SumFunctionOnSet(w, DOMAIN stats) \in Nat
    BY <2>1, <2>2, SumType
  <2>4. QED
    BY <2>3 DEF w
<1>4. QED
  BY <1>1, <1>2, <1>3

\* Numbers b are the numbers a with d more at k.
OneMore(b, a, S, k, d) ==
  /\ IsFiniteSet(S) /\ \A x \in S : a[x] \in Int
  /\ \A x \in S \ {k} : b[x] = a[x]
  /\ k \in S => b[k] = a[k] + d
  /\ k \notin S => b[k] = d

\* Their sum is d more as well.
LEMMA OneMoreSum ==
  ASSUME NEW S, NEW a, NEW b, NEW k, NEW d \in Nat, OneMore(b, a, S, k, d)
  PROVE  SumFunctionOnSet(b, S \cup {k}) = SumFunctionOnSet(a, S) + d
BY SumGrow DEF OneMore

\* A call recorded adds its time to the sum, and leaves the records of other sites.
LEMMA UpdateAdds ==
  ASSUME Typed, NEW s \in Site, NEW dur \in Nat, NEW size \in [Kind -> Nat],
         mpiPi_update_callsite_stats(s, dur, size)
  PROVE  /\ DOMAIN stats' \subseteq Site /\ IsFiniteSet(DOMAIN stats')
         /\ \A t \in DOMAIN stats' : stats'[t] \in RecordType
         /\ MpiTime' = MpiTime + dur
<1>1. PICK u : u = Updated(RecordOf(s), dur, size)
  OBVIOUS
<1>2. PICK r : r = RecordOf(s)
  OBVIOUS
<1>3. stats' = [t \in DOMAIN stats \cup {s} |-> IF t = s THEN u ELSE stats[t]]
  BY <1>1 DEF mpiPi_update_callsite_stats
<1>4. DOMAIN stats' = DOMAIN stats \cup {s}
  BY <1>3
<1>5. u \in RecordType /\ u.time = r.time + dur /\ r \in RecordType
  BY <1>1, <1>2, RecordOfTyped, UpdatedTyped
<1>6. /\ DOMAIN stats' \subseteq Site /\ IsFiniteSet(DOMAIN stats')
      /\ \A t \in DOMAIN stats' : stats'[t] \in RecordType
  BY <1>3, <1>4, <1>5, FS_AddElement DEF Typed
<1>7. s \notin DOMAIN stats => r.time = 0
  BY <1>2, NewTyped DEF RecordOf
<1>8. s \in DOMAIN stats => r = stats[s]
  BY <1>2 DEF RecordOf
<1> DEFINE D == DOMAIN stats
           w == [t \in D |-> stats[t].time]
           v == [t \in DOMAIN stats' |-> stats'[t].time]
<1>9. /\ \A x \in D : w[x] \in Int
      /\ \A x \in D \ {s} : v[x] = w[x]
      /\ s \in D => v[s] = w[s] + dur
      /\ s \notin D => v[s] = dur
      /\ IsFiniteSet(D)
  <2>1. \A x \in D : w[x] \in Int
    BY MpiTimeTyped
  <2>2. \A x \in D \ {s} : v[x] = w[x]
    BY <1>3, <1>4
  <2>3. v[s] = u.time
    BY <1>3, <1>4
  <2>4. s \in D => w[s] = r.time
    BY <1>8
  <2>5. IsFiniteSet(D)
    BY DEF Typed
  <2>6. r.time \in Nat
    BY <1>5 DEF RecordType
  <2> HIDE DEF w, v
  <2>7. QED
    BY <1>5, <1>7, <2>1, <2>2, <2>3, <2>4, <2>5, <2>6
<1>10. MpiTime = SumFunctionOnSet(w, D)
  BY MpiTimeTyped
<1>11. MpiTime' = SumFunctionOnSet(v, D \cup {s})
  BY <1>4 DEF MpiTime, SumFunction
<1> HIDE DEF D, w, v
<1>12. SumFunctionOnSet(v, D \cup {s}) = SumFunctionOnSet(w, D) + dur
  <2>1. PICK E, a, b : E = D /\ a = w /\ b = v
    OBVIOUS
  <2>2. /\ IsFiniteSet(E) /\ \A x \in E : a[x] \in Int
        /\ \A x \in E \ {s} : b[x] = a[x]
        /\ s \in E => b[s] = a[s] + dur
        /\ s \notin E => b[s] = dur
        /\ dur \in Int
    BY <1>9, <2>1
  <2>3. OneMore(b, a, E, s, dur)
    BY <2>2 DEF OneMore
  <2>4. SumFunctionOnSet(b, E \cup {s}) = SumFunctionOnSet(a, E) + dur
    BY <2>3, OneMoreSum
  <2>5. QED
    BY <2>1, <2>4
<1>13. QED
  BY <1>6, <1>10, <1>11, <1>12
-----------------------------------------------------------------------------
(* The steps. *)

\* The clock ticks in the call in flight as it does in the time that counts.
LEMMA TickHolds ==
  ASSUME IInv, Tick
  PROVE  IInv'
<1>1. /\ now < MaxTime /\ now' = now + 1
      /\ active' = IF on THEN active + 1 ELSE active
      /\ UNCHANGED <<use, enabled, startTime, endTime, cumulativeTime, stats, stack, printed,
                     finalized, viz, on, history>>
  BY DEF Tick, clockVars
<1>2. now \in 0 .. MaxTime /\ active \in Nat /\ startTime \in Nat /\ cumulativeTime \in Int
  BY ProfileAssumption DEF IInv, Typed
<1>3. Typed'
  <2>1. active' \in Nat
    BY <1>1, <1>2
  <2>2. now' \in 0 .. MaxTime /\ startTime \in 0 .. now' /\ endTime \in 0 .. now'
    <3>1. MaxTime \in Nat /\ now \in Nat /\ startTime \in 0 .. now /\ endTime \in 0 .. now
      BY <1>2, ProfileAssumption DEF IInv, Typed
    <3>2. QED
      BY <1>1, <3>1
  <2>3. QED
    BY <1>1, <2>1, <2>2 DEF IInv, Typed
<1>4. \A i \in 1 .. Len(stack) : stack[i].start \in Nat
  <2>1. \A i \in 1 .. Len(stack) : stack[i] \in Frame
    BY ElementOfSeq DEF IInv, Typed
  <2>2. QED
    BY <2>1 DEF Frame
<1>5. Switch'
  BY <1>1, <1>2, <1>4 DEF IInv, Switch
<1>6. finalized => ~on
  BY DEF IInv, Switch
<1>7. Clock'
  <2>1. CASE on
    BY <1>1, <1>2, <1>6, <2>1 DEF IInv, Clock, Running
  <2>2. CASE ~on
    BY <1>1, <1>2, <2>2 DEF IInv, Clock, Running
  <2>3. QED
    BY <2>1, <2>2 DEF IInv, Typed
<1>8. Within'
  <2>1. MpiTime' = MpiTime /\ MpiTime \in Nat
    BY <1>1, MpiTimeTyped DEF MpiTime, IInv
  <2>2. stack # << >> => stack[1].start \in Nat
    BY <1>4 DEF IInv, Typed
  <2>3. CASE on
    BY <1>1, <1>2, <2>1, <2>2, <2>3 DEF IInv, Within
  <2>4. CASE ~on
    BY <1>1, <1>2, <2>1, <2>2, <2>4 DEF IInv, Within
  <2>5. QED
    BY <2>3, <2>4 DEF IInv, Typed
<1>9. QED
  BY <1>3, <1>5, <1>7, <1>8 DEF IInv

\* A wrapper saves the switch and turns it off.
LEMMA EnterHolds ==
  ASSUME IInv, NEW s \in Site, WrapperEnter(s)
  PROVE  IInv'
<1>1. /\ enabled' = FALSE /\ ~finalized
      /\ UNCHANGED <<use, now, startTime, endTime, cumulativeTime, stats, printed, finalized,
                     viz, on, active, history>>
  BY DEF WrapperEnter, InsideLibrary, clockVars, ghostVars
<1>2. PICK t \in Nat : t = (IF enabled THEN now ELSE 0) /\ t <= now
  BY DEF IInv, Typed
<1>3. PICK f : f = [site |-> s, start |-> t, enabledState |-> enabled]
  OBVIOUS
<1>4. stack' = Append(stack, f)
  BY <1>2, <1>3 DEF WrapperEnter
<1>5. f \in Frame /\ f.start = t /\ (f.enabledState <=> enabled)
  BY <1>2, <1>3 DEF IInv, Typed, Frame
<1>6. stack \in Seq(Frame)
  BY DEF IInv, Typed
<1>7. /\ stack' \in Seq(Frame) /\ Len(stack') = Len(stack) + 1 /\ stack' # << >>
      /\ stack'[Len(stack) + 1] = f
      /\ \A i \in 1 .. Len(stack) : stack'[i] = stack[i]
  BY <1>4, <1>5, <1>6, AppendProperties
<1>8. stack = << >> => Len(stack) = 0
  BY <1>6
<1>9. stack # << >> => Len(stack) \in Nat /\ Len(stack) >= 1
  BY <1>6
<1>10. /\ stack = << >> => stack'[1] = f
       /\ stack # << >> => stack'[1] = stack[1]
  BY <1>7, <1>8, <1>9
<1>11. Typed'
  BY <1>1, <1>7 DEF IInv, Typed
<1>12. Switch'
  <2>1. stack'[1].enabledState <=> on
    <3>1. CASE stack = << >>
      <4>1. stack'[1].enabledState <=> enabled
        BY <1>5, <1>10, <3>1
      <4>2. enabled <=> on
        BY <3>1 DEF IInv, Switch
      <4>3. QED
        BY <4>1, <4>2
    <3>2. CASE stack # << >>
      <4>1. stack'[1] = stack[1]
        BY <1>10, <3>2
      <4>2. stack[1].enabledState <=> on
        BY <3>2 DEF IInv, Switch
      <4>3. QED
        BY <4>1, <4>2
    <3>3. QED
      BY <3>1, <3>2
  <2>2. ASSUME NEW i \in 1 .. Len(stack')
        PROVE  stack'[i].start <= now /\ (i > 1 => ~stack'[i].enabledState)
    <3>1. CASE i \in 1 .. Len(stack)
      BY <1>7, <3>1 DEF IInv, Switch
    <3>2. CASE i = Len(stack) + 1
      <4>1. stack'[i].start = t /\ (stack'[i].enabledState <=> enabled)
        BY <1>5, <1>7, <3>2
      <4>2. i > 1 => stack # << >>
        BY <1>8, <3>2
      <4>3. stack # << >> => ~enabled
        BY DEF IInv, Switch
      <4>4. QED
        BY <1>2, <4>1, <4>2, <4>3
    <3>3. Len(stack) \in Nat
      BY <1>6
    <3>4. QED
      BY <1>7, <2>2, <3>1, <3>2, <3>3
  <2>3. QED
    BY <1>1, <1>7, <2>1, <2>2 DEF IInv, Switch
<1>13. Clock'
  BY <1>1 DEF IInv, Clock, Running
<1>14. Within'
  <2>1. MpiTime' = MpiTime /\ MpiTime \in Nat
    BY <1>1, MpiTimeTyped DEF MpiTime, IInv
  <2>2. on' => MpiTime' + (now' - stack'[1].start) <= active'
    <3>1. CASE stack = << >>
      <4>1. on => enabled
        BY <3>1 DEF IInv, Switch
      <4>2. on => stack'[1].start = now
        BY <1>2, <1>5, <1>10, <3>1, <4>1
      <4>3. now \in Nat /\ active \in Nat /\ MpiTime <= active
        BY DEF IInv, Typed, Within
      <4>4. QED
        BY <1>1, <2>1, <4>2, <4>3
    <3>2. CASE stack # << >>
      BY <1>1, <1>10, <2>1, <3>2 DEF IInv, Within
    <3>3. QED
      BY <3>1, <3>2
  <2>3. QED
    BY <1>1, <2>1, <2>2 DEF IInv, Within
<1>15. QED
  BY <1>11, <1>12, <1>13, <1>14 DEF IInv

\* What a wrapper that is left finds in its frame: the program's wish in the outermost one,
\* that profiling is off in the others.
LEMMA LeaveFrame ==
  ASSUME IInv, stack # << >>
  PROVE  /\ Len(stack) \in Nat /\ Len(stack) >= 1
         /\ stack[Len(stack)] \in Frame /\ stack[1] \in Frame
         /\ stack[Len(stack)].start <= now
         /\ stack[Len(stack)].enabledState <=> on /\ Len(stack) = 1
         /\ now - stack[Len(stack)].start \in Nat
<1>1. stack \in Seq(Frame)
  BY DEF IInv, Typed
<1>2. Len(stack) \in Nat /\ Len(stack) >= 1
  BY <1>1
<1>3. \A i \in 1 .. Len(stack) : stack[i] \in Frame
  BY <1>1, ElementOfSeq
<1>4. stack[Len(stack)] \in Frame /\ stack[1] \in Frame
  BY <1>2, <1>3
<1>5. stack[Len(stack)].start <= now
  BY <1>2 DEF IInv, Switch
<1>6. stack[Len(stack)].enabledState <=> on /\ Len(stack) = 1
  <2>1. CASE Len(stack) = 1
    <3>1. stack[1].enabledState <=> on
      BY DEF IInv, Switch
    <3>2. QED
      BY <2>1, <3>1
  <2>2. CASE Len(stack) # 1
    <3>1. PICK n \in Nat : n = Len(stack) /\ n >= 1 /\ n # 1
      BY <1>2, <2>2
    <3>2. n \in 1 .. n /\ n > 1
      BY <3>1
    <3>3. ~stack[n].enabledState
      BY <3>1, <3>2 DEF IInv, Switch
    <3>4. QED
      BY <2>2, <3>1, <3>3
  <2>3. QED
    BY <2>1, <2>2
<1>7. now - stack[Len(stack)].start \in Nat
  BY <1>4, <1>5 DEF Frame, IInv, Typed
<1>8. QED
  BY <1>2, <1>4, <1>5, <1>6, <1>7

\* What leaving a wrapper does, with the frame and the size it recorded named.
LEMMA LeaveForm ==
  ASSUME IInv, NEW b \in Bytes, WrapperLeave(b)
  PROVE  \E f \in Frame : \E dur \in Nat : \E size \in [Kind -> Nat] :
           /\ f = stack[Len(stack)] /\ dur = now - f.start /\ dur <= now
           /\ f.enabledState <=> on /\ Len(stack) = 1
           /\ size = [k \in Kind |-> IF k = KindOf[f.site] THEN b ELSE 0]
           /\ stack # << >> /\ stack' = SubSeq(stack, 1, Len(stack) - 1)
           /\ enabled' = f.enabledState
           /\ f.enabledState => mpiPi_update_callsite_stats(f.site, dur, size)
           /\ ~f.enabledState => UNCHANGED stats
           /\ f.enabledState => history' = [history EXCEPT ![f.site] =
                                     Append(@, [dur |-> dur, bytes |-> b])]
           /\ ~f.enabledState => history' = history
           /\ UNCHANGED <<use, now, startTime, endTime, cumulativeTime, printed, finalized, viz,
                          on, active>>
<1>1. stack # << >>
  BY DEF WrapperLeave
<1>2. PICK f : f = stack[Len(stack)]
  OBVIOUS
<1>3. /\ f \in Frame /\ f.start <= now /\ (f.enabledState <=> on /\ Len(stack) = 1)
      /\ now - f.start \in Nat
  BY <1>1, <1>2, LeaveFrame
<1>4. PICK dur \in Nat : dur = now - f.start
  BY <1>3
<1>5. PICK size : size = [k \in Kind |-> IF k = KindOf[f.site] THEN b ELSE 0]
  OBVIOUS
<1>6. size \in [Kind -> Nat]
  BY <1>5, ProfileAssumption
<1>7. dur <= now
  BY <1>3, <1>4 DEF Frame, IInv, Typed
<1>8. /\ stack' = SubSeq(stack, 1, Len(stack) - 1)
      /\ UNCHANGED <<use, now, startTime, endTime, cumulativeTime, printed, finalized, viz,
                     on, active>>
  BY DEF WrapperLeave, clockVars
<1>9. enabled' = f.enabledState
  BY <1>2, Zenon DEF WrapperLeave
<1>10. /\ f.enabledState => mpiPi_update_callsite_stats(f.site, dur, size)
       /\ ~f.enabledState => UNCHANGED stats
  BY <1>2, <1>4, <1>5 DEF WrapperLeave
<1>11. history' = IF on /\ Len(stack) = 1
                  THEN [history EXCEPT ![f.site] = Append(@, [dur |-> dur, bytes |-> b])]
                  ELSE history
  BY <1>2, <1>4 DEF WrapperLeave
<1>12. /\ f.enabledState => history' = [history EXCEPT ![f.site] =
                                     Append(@, [dur |-> dur, bytes |-> b])]
       /\ ~f.enabledState => history' = history
  BY <1>3, <1>11
<1>13. QED
  BY <1>1, <1>2, <1>3, <1>4, <1>5, <1>6, <1>7, <1>8, <1>9, <1>10, <1>12

\* The outermost wrapper that is left turns the switch back to what the program wants and
\* records the call if it is to be, the others leave it off.
LEMMA LeaveHolds ==
  ASSUME IInv, NEW b \in Bytes, WrapperLeave(b)
  PROVE  IInv'
<1>1. PICK f \in Frame, dur \in Nat, size \in [Kind -> Nat] :
           /\ f = stack[Len(stack)] /\ dur = now - f.start /\ dur <= now
           /\ f.enabledState <=> on /\ Len(stack) = 1
           /\ size = [k \in Kind |-> IF k = KindOf[f.site] THEN b ELSE 0]
           /\ stack # << >> /\ stack' = SubSeq(stack, 1, Len(stack) - 1)
           /\ enabled' = f.enabledState
           /\ f.enabledState => mpiPi_update_callsite_stats(f.site, dur, size)
           /\ ~f.enabledState => UNCHANGED stats
           /\ f.enabledState => history' = [history EXCEPT ![f.site] =
                                     Append(@, [dur |-> dur, bytes |-> b])]
           /\ ~f.enabledState => history' = history
           /\ UNCHANGED <<use, now, startTime, endTime, cumulativeTime, printed, finalized, viz,
                          on, active>>
  BY LeaveForm
<1>2. stack \in Seq(Frame) /\ f.site \in Site /\ f.enabledState \in BOOLEAN
  BY DEF IInv, Typed, Frame
<1>3. PICK n \in Nat : n = Len(stack) /\ n >= 1
  BY <1>1, LeaveFrame
<1>4. /\ stack' \in Seq(Frame) /\ Len(stack') = n - 1
      /\ \A i \in 1 .. (n - 1) : stack'[i] = stack[i]
  BY <1>1, <1>2, <1>3, SubSeqProperties
<1>5. /\ n = 1 => stack' = << >>
      /\ n # 1 => stack' # << >> /\ stack'[1] = stack[1]
  <2>1. n = 1 => stack' = << >>
    BY <1>4, EmptySeq
  <2>2. n # 1 => 1 \in 1 .. (n - 1) /\ Len(stack') # 0
    BY <1>3, <1>4
  <2>3. n # 1 => stack' # << >>
    BY <2>2
  <2>4. QED
    BY <1>4, <2>1, <2>2, <2>3
<1>6. /\ DOMAIN stats' \subseteq Site /\ IsFiniteSet(DOMAIN stats')
      /\ \A t \in DOMAIN stats' : stats'[t] \in RecordType
      /\ f.enabledState => MpiTime' = MpiTime + dur
      /\ ~f.enabledState => MpiTime' = MpiTime
  <2>1. CASE f.enabledState
    BY <1>1, <1>2, <2>1, UpdateAdds DEF IInv
  <2>2. CASE ~f.enabledState
    BY <1>1, <2>2 DEF IInv, Typed, MpiTime
  <2>3. QED
    BY <2>1, <2>2
<1>7. history' \in [Site -> Calls]
  <2>1. history \in [Site -> Calls]
    BY DEF IInv, Typed
  <2>2. [dur |-> dur, bytes |-> b] \in [dur : Nat, bytes : Nat]
    BY ProfileAssumption
  <2>3. PICK c \in [dur : Nat, bytes : Nat] : c = [dur |-> dur, bytes |-> b]
    BY <2>2
  <2>4. Append(history[f.site], c) \in Calls
    BY <1>2, <2>1, <2>3, AppendProperties DEF Calls
  <2>5. [history EXCEPT ![f.site] = Append(@, c)] \in [Site -> Calls]
    BY <1>2, <2>1, <2>4
  <2>6. QED
    BY <1>1, <2>1, <2>3, <2>5
<1>8. enabled' \in BOOLEAN
  BY <1>1, <1>2
<1>9. Typed'
  BY <1>1, <1>4, <1>6, <1>7, <1>8 DEF IInv, Typed
<1>10. ~finalized /\ (stack[1].enabledState <=> on)
  BY <1>1 DEF IInv, Switch
<1>11. enabled' <=> on /\ n = 1
  BY <1>1, <1>3
<1>12. Switch'
  <2>1. stack' = << >> => (enabled' <=> on')
    BY <1>1, <1>3, <1>5, <1>11
  <2>2. stack' # << >> => ~enabled' /\ ~finalized' /\ (stack'[1].enabledState <=> on')
    BY <1>1, <1>5, <1>10, <1>11
  <2>3. ASSUME NEW i \in 1 .. Len(stack')
        PROVE  stack'[i].start <= now' /\ (i > 1 => ~stack'[i].enabledState)
    <3>1. i \in 1 .. (n - 1) /\ i \in 1 .. Len(stack)
      BY <1>3, <1>4, <2>3
    <3>2. stack'[i] = stack[i]
      BY <1>4, <3>1
    <3>3. QED
      BY <1>1, <3>1, <3>2 DEF IInv, Switch
  <2>4. finalized' => ~on'
    BY <1>1, <1>10
  <2>5. QED
    BY <2>1, <2>2, <2>3, <2>4 DEF Switch
<1>13. Clock'
  BY <1>1 DEF IInv, Clock, Running
<1>14. Within'
  <2>1. MpiTime' <= active
    <3>1. CASE f.enabledState
      <4>1. on /\ stack[1] = f
        BY <1>1, <3>1
      <4>2. MpiTime + (now - f.start) <= active
        BY <1>1, <4>1 DEF IInv, Within
      <4>3. QED
        BY <1>1, <1>6, <3>1, <4>2
    <3>2. CASE ~f.enabledState
      BY <1>6, <3>2 DEF IInv, Within
    <3>3. QED
      BY <3>1, <3>2
  <2>2. ASSUME stack' # << >>, on
        PROVE  MpiTime' + (now - stack'[1].start) <= active
    <3>1. n # 1 /\ stack'[1] = stack[1] /\ ~f.enabledState
      BY <1>1, <1>3, <1>5, <2>2
    <3>2. MpiTime' = MpiTime
      BY <1>6, <3>1
    <3>3. MpiTime + (now - stack[1].start) <= active
      BY <1>1, <2>2 DEF IInv, Within
    <3>4. QED
      BY <3>1, <3>2, <3>3
  <2>3. QED
    BY <1>1, <2>1, <2>2 DEF IInv, Within
<1>15. QED
  BY <1>9, <1>12, <1>13, <1>14 DEF IInv

\* What the program's calls of MPI_Pcontrol find: no wrapper is entered, the switch is where it
\* left it.
LEMMA InProgramFacts ==
  ASSUME IInv, InProgram
  PROVE  /\ stack = << >> /\ ~finalized /\ (enabled <=> on)
         /\ Elapsed \in Nat /\ Elapsed = now - startTime /\ now \in 0 .. MaxTime
         /\ (Running <=> on)
         /\ MpiTime \in Nat
<1>1. stack = << >> /\ ~finalized
  BY DEF InProgram
<1>2. enabled <=> on
  BY <1>1 DEF IInv, Switch
<1>3. Elapsed \in Nat /\ Elapsed = now - startTime /\ now \in 0 .. MaxTime
  BY DEF IInv, Typed, Elapsed
<1>4. MpiTime \in Nat
  BY MpiTimeTyped DEF IInv
<1>5. QED
  BY <1>1, <1>2, <1>3, <1>4 DEF Running

\* MPI_Pcontrol(0) moves the time since the clock was started into the time that counts.
LEMMA DisableHolds ==
  ASSUME IInv, PcontrolDisable
  PROVE  IInv'
<1>1. /\ InProgram /\ (use.alternates => enabled)
      /\ cumulativeTime' = cumulativeTime + Elapsed
      /\ enabled' = FALSE /\ on' = FALSE /\ endTime' = now
      /\ UNCHANGED <<use, now, startTime, stats, stack, printed, finalized, viz, active, history>>
  BY DEF PcontrolDisable, CallsPcontrol
<1>2. /\ stack = << >> /\ ~finalized /\ (enabled <=> on)
      /\ Elapsed \in Nat /\ Elapsed = now - startTime /\ now \in 0 .. MaxTime
      /\ (Running <=> on)
  BY <1>1, InProgramFacts
<1>3. cumulativeTime' \in Int /\ (~use.viz => cumulativeTime' \in Nat)
  BY <1>1, <1>2 DEF IInv, Typed
<1>4. Typed'
  <2>1. now \in 0 .. now
    BY <1>2
  <2>2. QED
    BY <1>1, <1>3, <2>1 DEF IInv, Typed
<1>5. Switch'
  BY <1>1, <1>2 DEF IInv, Switch
<1>6. Clock'
  <2>1. ~Running'
    BY <1>1 DEF Running
  <2>2. use.alternates /\ ~use.viz => cumulativeTime' = active
    BY <1>1, <1>2 DEF IInv, Clock
  <2>3. QED
    BY <1>1, <2>1, <2>2 DEF Clock
<1>7. Within'
  BY <1>1, <1>2 DEF IInv, Within, MpiTime
<1>8. QED
  BY <1>4, <1>5, <1>6, <1>7 DEF IInv

\* MPI_Pcontrol(1) starts the clock.
LEMMA EnableHolds ==
  ASSUME IInv, PcontrolEnable
  PROVE  IInv'
<1>1. /\ InProgram /\ (use.alternates => ~enabled)
      /\ enabled' = TRUE /\ on' = TRUE /\ startTime' = now
      /\ UNCHANGED <<use, now, endTime, cumulativeTime, stats, stack, printed, finalized, viz,
                     active, history>>
  BY DEF PcontrolEnable, CallsPcontrol
<1>2. /\ stack = << >> /\ ~finalized /\ (enabled <=> on) /\ now \in 0 .. MaxTime
      /\ (Running <=> on)
  BY <1>1, InProgramFacts
<1>3. now \in 0 .. now
  BY <1>2
<1>4. Typed'
  BY <1>1, <1>3 DEF IInv, Typed
<1>5. Switch'
  BY <1>1, <1>2 DEF IInv, Switch
<1>6. Clock'
  <2>1. Running'
    BY <1>1, <1>2 DEF Running
  <2>2. use.alternates /\ ~use.viz => cumulativeTime = active
    BY <1>1, <1>2 DEF IInv, Clock
  <2>3. cumulativeTime \in Int
    BY DEF IInv, Typed
  <2>4. now \in Int
    BY <1>2
  <2>5. use.alternates /\ ~use.viz => cumulativeTime' + (now' - startTime') = active'
    BY <1>1, <2>2, <2>3, <2>4
  <2>6. QED
    BY <1>1, <2>1, <2>5 DEF Clock
<1>7. Within'
  BY <1>1, <1>2 DEF IInv, Within, MpiTime
<1>8. QED
  BY <1>4, <1>5, <1>6, <1>7 DEF IInv

\* MPI_Pcontrol(2) leaves no time recorded and none that counts.
LEMMA ResetHolds ==
  ASSUME IInv, mpiPi_reset_callsite_data
  PROVE  IInv'
<1>1. /\ InProgram
      /\ stats' = [s \in DOMAIN stats |-> ResetRecord(stats[s])]
      /\ startTime' = now /\ cumulativeTime' = 0 /\ active' = 0
      /\ history' = [s \in Site |-> << >>]
      /\ UNCHANGED <<use, now, enabled, endTime, stack, printed, finalized, viz, on>>
  BY DEF mpiPi_reset_callsite_data, CallsPcontrol
<1>2. /\ stack = << >> /\ ~finalized /\ (enabled <=> on) /\ now \in 0 .. MaxTime
      /\ (Running <=> on)
  BY <1>1, InProgramFacts
<1>3. now \in 0 .. now
  BY <1>2
<1>4. DOMAIN stats' = DOMAIN stats
  BY <1>1
<1>5. \A s \in DOMAIN stats' : stats'[s] \in RecordType /\ stats'[s].time = 0
  <2>1. ASSUME NEW s \in DOMAIN stats
        PROVE  stats'[s] \in RecordType /\ stats'[s].time = 0
    <3>1. stats[s] \in RecordType
      BY DEF IInv, Typed
    <3>2. QED
      BY <1>1, <3>1, ResetTyped
  <2>2. QED
    BY <1>4, <2>1
<1>6. history' \in [Site -> Calls]
  <2>1. << >> \in Calls
    BY EmptySeq DEF Calls
  <2>2. QED
    BY <1>1, <2>1
<1>7. Typed'
  BY <1>1, <1>3, <1>4, <1>5, <1>6 DEF IInv, Typed
<1>8. Switch'
  BY <1>1, <1>2 DEF IInv, Switch
<1>9. Clock'
  BY <1>1, <1>2 DEF IInv, Clock
<1>10. MpiTime' = 0
  <2> DEFINE w == [s \in DOMAIN stats' |-> stats'[s].time]
  <2>1. MpiTime' = SumFunctionOnSet(w, DOMAIN stats')
    BY DEF MpiTime, SumFunction
  <2>2. \A s \in DOMAIN stats' : w[s] = 0
    BY <1>5
  <2> HIDE DEF w
  <2>3. IsFiniteSet(DOMAIN stats')
    BY <1>4 DEF IInv, Typed
  <2>4. PICK D, a : D = DOMAIN stats' /\ a = w
    OBVIOUS
  <2>5. SumFunctionOnSet(a, D) = 0
    BY <2>2, <2>3, <2>4, SumZeros
  <2>6. QED
    BY <2>1, <2>4, <2>5
<1>11. Within'
  BY <1>1, <1>2, <1>10 DEF IInv, Within
<1>12. QED
  BY <1>7, <1>8, <1>9, <1>11 DEF IInv

\* What a report prints: the time that counts so far, and no more of it in MPI.
LEMMA ReportFacts ==
  ASSUME IInv, InProgram, mpiPi_generateReport
  PROVE  /\ cumulativeTime' \in Int
         /\ ~use.viz => cumulativeTime' \in Nat
         /\ printed' \in [app : Int, mpi : Nat]
         /\ use.alternates /\ ~use.viz => cumulativeTime' = active
         /\ use.alternates /\ ~use.viz => printed'.mpi <= printed'.app
<1>1. /\ cumulativeTime' = IF enabled THEN cumulativeTime + Elapsed ELSE cumulativeTime
      /\ printed' = [app |-> cumulativeTime', mpi |-> MpiTime]
  BY DEF mpiPi_generateReport
<1>2. /\ stack = << >> /\ ~finalized /\ (enabled <=> on)
      /\ Elapsed \in Nat /\ Elapsed = now - startTime /\ (Running <=> on) /\ MpiTime \in Nat
  BY InProgramFacts
<1>3. cumulativeTime \in Int /\ (~use.viz => cumulativeTime \in Nat)
  BY DEF IInv, Typed
<1>4. cumulativeTime' \in Int /\ (~use.viz => cumulativeTime' \in Nat)
  BY <1>1, <1>2, <1>3
<1>5. use.alternates /\ ~use.viz => cumulativeTime' = active
  BY <1>1, <1>2 DEF IInv, Clock
<1>6. printed' \in [app : Int, mpi : Nat]
  BY <1>1, <1>2, <1>4
<1>7. printed'.mpi = MpiTime /\ printed'.app = cumulativeTime'
  BY <1>1
<1>8. MpiTime <= active
  BY DEF IInv, Within
<1>9. QED
  BY <1>4, <1>5, <1>6, <1>7, <1>8

\* MPI_Pcontrol(3) and (4) report and start the clock again.
LEMMA ReportHolds ==
  ASSUME IInv, PcontrolReport
  PROVE  IInv'
<1>1. /\ InProgram /\ mpiPi_generateReport /\ endTime' = now
      /\ UNCHANGED <<use, enabled, stats, stack, finalized, viz, on, active, history>>
  BY DEF PcontrolReport, CallsPcontrol, ghostVars
<1>2. PICK d \in 0 .. 1 : now + d <= MaxTime /\ now' = now + d /\ startTime' = now'
  BY DEF PcontrolReport
<1>3. /\ stack = << >> /\ ~finalized /\ (enabled <=> on) /\ now \in 0 .. MaxTime
      /\ (Running <=> on)
  BY <1>1, InProgramFacts
<1>4. /\ cumulativeTime' \in Int
      /\ ~use.viz => cumulativeTime' \in Nat
      /\ printed' \in [app : Int, mpi : Nat]
      /\ use.alternates /\ ~use.viz => cumulativeTime' = active
      /\ use.alternates /\ ~use.viz => printed'.mpi <= printed'.app
  BY <1>1, ReportFacts
<1>5. now' \in 0 .. MaxTime /\ startTime' \in 0 .. now' /\ endTime' \in 0 .. now'
  BY <1>1, <1>2, <1>3, ProfileAssumption
<1>6. Typed'
  BY <1>1, <1>4, <1>5 DEF IInv, Typed
<1>7. Switch'
  BY <1>1, <1>3 DEF IInv, Switch
<1>8. Clock'
  <2>1. now' - startTime' = 0
    BY <1>2, <1>5
  <2>2. QED
    BY <1>1, <1>4, <2>1 DEF Clock
<1>9. Within'
  BY <1>1, <1>3, <1>4 DEF IInv, Within, MpiTime
<1>10. QED
  BY <1>6, <1>7, <1>8, <1>9 DEF IInv

\* The last report is like the others, and profiling is off behind it.
LEMMA FinalizeHolds ==
  ASSUME IInv, MpiFinalize
  PROVE  IInv'
<1>1. /\ InProgram /\ mpiPi_generateReport /\ endTime' = now
      /\ startTime' = IF enabled THEN now ELSE startTime
      /\ enabled' = FALSE /\ on' = FALSE /\ finalized' = TRUE
      /\ UNCHANGED <<use, now, stats, stack, viz, active, history>>
  BY DEF MpiFinalize
<1>2. /\ stack = << >> /\ ~finalized /\ (enabled <=> on) /\ now \in 0 .. MaxTime
  BY <1>1, InProgramFacts
<1>3. /\ cumulativeTime' \in Int
      /\ ~use.viz => cumulativeTime' \in Nat
      /\ printed' \in [app : Int, mpi : Nat]
      /\ use.alternates /\ ~use.viz => cumulativeTime' = active
      /\ use.alternates /\ ~use.viz => printed'.mpi <= printed'.app
  BY <1>1, ReportFacts
<1>4. startTime' \in 0 .. now /\ endTime' \in 0 .. now
  BY <1>1, <1>2 DEF IInv, Typed
<1>5. Typed'
  BY <1>1, <1>3, <1>4 DEF IInv, Typed
<1>6. Switch'
  BY <1>1, <1>2 DEF IInv, Switch
<1>7. Clock'
  BY <1>1, <1>3 DEF Clock, Running
<1>8. Within'
  BY <1>1, <1>2, <1>3 DEF IInv, Within, MpiTime
<1>9. QED
  BY <1>5, <1>6, <1>7, <1>8 DEF IInv

\* The other thread moves the clock of a run with the visualisation only, the switch and the
\* records never.
LEMMA VizHolds ==
  ASSUME IInv, VizReport
  PROVE  IInv'
<1>1. /\ use.viz
      /\ UNCHANGED <<use, now, enabled, stats, stack, finalized, on, active, history>>
  BY DEF VizReport, VizReadClock, VizAccount, VizRestartClock, VizMerge, VizStep, ghostVars
<1>2. now \in 0 .. now /\ startTime \in 0 .. now /\ endTime \in 0 .. now /\ cumulativeTime \in Int
  BY DEF IInv, Typed
<1>3. MpiTime \in Nat
  BY MpiTimeTyped DEF IInv
<1>4. /\ startTime' \in 0 .. now /\ endTime' \in 0 .. now /\ cumulativeTime' \in Int
      /\ printed' \in [app : Int, mpi : Nat] /\ viz' \in {"idle", "clock", "restart", "merge"}
  <2>1. printed \in [app : Int, mpi : Nat]
    BY DEF IInv, Typed
  <2>2. CASE VizReadClock
    BY <1>2, <2>1, <2>2 DEF VizReadClock, VizStep
  <2>3. CASE VizAccount
    <3>1. cumulativeTime' \in Int
      BY <1>2, <2>3 DEF VizAccount
    <3>2. QED
      BY <1>2, <2>1, <2>3, <3>1 DEF VizAccount, VizStep
  <2>4. CASE VizRestartClock
    BY <1>2, <2>1, <2>4 DEF VizRestartClock, VizStep
  <2>5. CASE VizMerge
    BY <1>2, <1>3, <2>1, <2>5 DEF VizMerge, VizStep, clockVars
  <2>6. QED
    BY <2>2, <2>3, <2>4, <2>5 DEF VizReport
<1>5. Typed'
  BY <1>1, <1>4 DEF IInv, Typed
<1>6. Switch'
  BY <1>1 DEF IInv, Switch
<1>7. Clock' /\ Within'
  BY <1>1 DEF IInv, Clock, Within, MpiTime
<1>8. QED
  BY <1>5, <1>6, <1>7 DEF IInv

\* Nothing is recorded and no time counts when the program starts.
LEMMA InitHolds == Init => IInv
<1> SUFFICES ASSUME Init PROVE IInv
  OBVIOUS
<1>1. use \in Use /\ use.off \in BOOLEAN
  BY ProfileAssumption DEF Init, Use
<1>2. /\ now = 1 /\ enabled = ~use.off /\ endTime = 0 /\ cumulativeTime = 0
      /\ stats = << >> /\ stack = << >> /\ printed = [app |-> 0, mpi |-> 0]
      /\ finalized = FALSE /\ viz = "idle" /\ on = ~use.off /\ active = 0
      /\ history = [s \in Site |-> << >>]
      /\ startTime = IF use.off THEN 0 ELSE now
  BY DEF Init
<1>3. DOMAIN stats = {}
  BY <1>2
<1>4. stack \in Seq(Frame) /\ Len(stack) = 0
  BY <1>2, EmptySeq
<1>5. history \in [Site -> Calls]
  <2>1. << >> \in Calls
    BY EmptySeq DEF Calls
  <2>2. QED
    BY <1>2, <2>1
<1>6. startTime \in 0 .. now /\ endTime \in 0 .. now /\ now \in 0 .. MaxTime
  BY <1>2, ProfileAssumption
<1>7. enabled \in BOOLEAN /\ on \in BOOLEAN /\ finalized \in BOOLEAN
  BY <1>1, <1>2, Zenon
<1>8. Typed
  BY <1>1, <1>2, <1>3, <1>4, <1>5, <1>6, <1>7, FS_EmptySet DEF Typed
<1>9. Switch
  BY <1>2, <1>4 DEF Switch
<1>10. Clock
  <2>1. on => startTime = now
    BY <1>2, Zenon
  <2>2. now - startTime \in Int /\ now - now = 0
    BY <1>6
  <2>3. QED
    BY <1>2, <2>1, <2>2 DEF Clock, Running
<1>11. MpiTime = 0
  <2>1. MpiTime = SumFunctionOnSet([s \in DOMAIN stats |-> stats[s].time], {})
    BY <1>3 DEF MpiTime, SumFunction
  <2>2. QED
    BY <2>1, SumNothing
<1>12. Within
  BY <1>2, <1>11 DEF Within
<1>13. QED
  BY <1>8, <1>9, <1>10, <1>12 DEF IInv

\* Every step keeps the invariant.
LEMMA NextHolds == IInv /\ [Next]_vars => IInv'
<1> SUFFICES ASSUME IInv, [Next]_vars PROVE IInv'
  OBVIOUS
<1>1. CASE Tick
  BY <1>1, TickHolds
<1>2. ASSUME NEW s \in Site, WrapperEnter(s) PROVE IInv'
  BY <1>2, EnterHolds
<1>3. ASSUME NEW b \in Bytes, WrapperLeave(b) PROVE IInv'
  BY <1>3, LeaveHolds
<1>4. CASE mpiPi_MPI_Pcontrol
  BY <1>4, DisableHolds, EnableHolds, ResetHolds, ReportHolds DEF mpiPi_MPI_Pcontrol
<1>5. CASE MpiFinalize
  BY <1>5, FinalizeHolds
<1>6. CASE VizReport
  BY <1>6, VizHolds
<1>7. CASE UNCHANGED vars
  BY <1>7 DEF vars, clockVars, ghostVars, IInv, Typed, Switch, Clock, Within, Running, MpiTime
<1>8. QED
  BY <1>1, <1>2, <1>3, <1>4, <1>5, <1>6, <1>7 DEF Next

-----------------------------------------------------------------------------
\* The invariant holds in every state of the task: mpiPi_init, the wrappers, MPI_Pcontrol,
\* MPI_Finalize and the reports of the other thread keep it.
THEOREM Invariance == Spec => []IInv
BY InitHolds, NextHolds, PTL DEF Spec

\* Every variable of the task has its type; without the other thread the application time is
\* never negative, whatever sequence of MPI_Pcontrol the program calls.
THEOREM TypeCorrect == Spec => []TypeOK
<1>1. IInv => TypeOK
  <2> SUFFICES ASSUME IInv PROVE TypeOK
    OBVIOUS
  <2>1. startTime \in 0 .. MaxTime /\ endTime \in 0 .. MaxTime
    BY ProfileAssumption DEF IInv, Typed
  <2>2. stack \in Seq([site : Site, start : Nat, enabledState : BOOLEAN])
    BY DEF IInv, Typed, Frame
  <2>3. QED
    BY <2>1, <2>2 DEF IInv, Typed, TypeOK
<1>2. QED
  BY Invariance, <1>1, PTL

\* Whenever the program runs outside of the wrappers, mpiPi.enabled is what it last asked for
\* with MPI_Pcontrol or -o, however deep the wrappers were nested since.
THEOREM SwitchBack == Spec => []SwitchRestored
<1>1. IInv => SwitchRestored
  <2> SUFFICES ASSUME IInv, InProgram PROVE enabled = on
    BY DEF SwitchRestored
  <2>1. enabled <=> on
    BY InProgramFacts
  <2>2. enabled \in BOOLEAN /\ on \in BOOLEAN
    BY DEF IInv, Typed
  <2>3. QED
    BY <2>1, <2>2
<1>2. QED
  BY Invariance, <1>1, PTL

\* mpiPi.cumulativeTime and the clock running are the time profiling was wanted since the last
\* reset.
THEOREM AppTime == Spec => []AppTimeExact
<1>1. IInv => AppTimeExact
  <2> SUFFICES ASSUME IInv, use.alternates, ~use.viz
               PROVE  cumulativeTime + (IF Running THEN Elapsed ELSE 0) = active
    BY DEF AppTimeExact
  <2>1. CASE Running
    BY <2>1 DEF IInv, Clock, Elapsed
  <2>2. CASE ~Running
    BY <2>2 DEF IInv, Clock, Typed
  <2>3. QED
    BY <2>1, <2>2
<1>2. QED
  BY Invariance, <1>1, PTL

\* No report attributes more time to MPI than to the program.
THEOREM MpiWithin == Spec => []MpiWithinApp
<1>1. IInv => MpiWithinApp
  BY DEF IInv, Within, MpiWithinApp
<1>2. QED
  BY Invariance, <1>1, PTL

-----------------------------------------------------------------------------
(* What a record says of the calls of its site. *)

\* What StatsSummarise says of one site, of a record and a sequence of calls.
MovedIn(s, h, i, k) == IF k = KindOf[s] THEN h[i].bytes ELSE 0

TimesExact(rec, h) ==
  /\ rec.count = Len(h)
  /\ rec.time = SumFunction([i \in DOMAIN h |-> h[i].dur])
  /\ rec.timeSq = SumFunction([i \in DOMAIN h |-> h[i].dur * h[i].dur])
  /\ IsMax(rec.maxDur, {h[i].dur : i \in DOMAIN h})
  /\ IsMin(rec.minDur, {h[i].dur : i \in DOMAIN h})

KindExact(s, rec, h, k) ==
  /\ rec.sum[k] = SumFunction([i \in DOMAIN h |-> MovedIn(s, h, i, k)])
  /\ IsMax(rec.max[k], {MovedIn(s, h, i, k) : i \in DOMAIN h})
  /\ IsMin(rec.min[k], {MovedIn(s, h, i, k) : i \in DOMAIN h})

SizesExact(s, rec, h) ==
  /\ rec.sum[KindOf[s]] >= SumFunction([i \in DOMAIN h |-> h[i].bytes])
  /\ \A k \in Kind \ {"rma"} : KindExact(s, rec, h, k)

Big(s, h) == {i \in DOMAIN h : Threshold > -1 /\ MovedIn(s, h, i, "sent") >= Threshold}

Exact(s, rec, h) ==
  TimesExact(rec, h) /\ SizesExact(s, rec, h) /\ rec.arbitrary = Cardinality(Big(s, h))

\* StatsSummarise, site by site.
LEMMA SummariseByExact == StatsSummarise <=> \A s \in Site : Exact(s, RecordOf(s), history[s])
BY DEF StatsSummarise, Exact, TimesExact, SizesExact, KindExact, Big, MovedIn, Moved, Durations,
       Sizes

\* The larger of the largest and one more is the largest of all.
LEMMA MaxAdd ==
  ASSUME NEW S, S \subseteq Nat, NEW m \in Nat, NEW x \in Nat, IsMax(m, S)
  PROVE  IsMax(Larger(m, x), S \cup {x})
<1>1. S \cup {x} # {}
  OBVIOUS
<1>2. Larger(m, x) \in S \cup {x}
  <2>1. CASE S = {}
    BY <2>1 DEF IsMax, Larger
  <2>2. CASE S # {}
    BY <2>2 DEF IsMax, Larger
  <2>3. QED
    BY <2>1, <2>2
<1>3. ASSUME NEW y \in S \cup {x} PROVE y <= Larger(m, x)
  BY DEF IsMax, Larger
<1>4. QED
  BY <1>1, <1>2, <1>3 DEF IsMax

\* And so for the smallest, below what stands for none.
LEMMA MinAdd ==
  ASSUME NEW S, S \subseteq Nat, NEW m \in Nat, NEW x \in Nat, x < DBL_MAX, IsMin(m, S)
  PROVE  IsMin(Smaller(m, x), S \cup {x})
<1>1. S \cup {x} # {}
  OBVIOUS
<1>2. Smaller(m, x) \in S \cup {x}
  <2>1. CASE S = {}
    BY <2>1, ProfileAssumption DEF IsMin, Smaller
  <2>2. CASE S # {}
    BY <2>2 DEF IsMin, Smaller
  <2>3. QED
    BY <2>1, <2>2
<1>3. ASSUME NEW y \in S \cup {x} PROVE Smaller(m, x) <= y
  BY DEF IsMin, Smaller
<1>4. QED
  BY <1>1, <1>2, <1>3 DEF IsMin

\* What a sequence of numbers that grows by one takes on.
LEMMA ImageAppend ==
  ASSUME NEW n \in Nat, NEW w \in [1 .. n -> Nat], NEW v \in [1 .. (n + 1) -> Nat],
         \A i \in 1 .. n : v[i] = w[i]
  PROVE  /\ {v[i] : i \in 1 .. (n + 1)} = {w[i] : i \in 1 .. n} \cup {v[n + 1]}
         /\ {w[i] : i \in 1 .. n} \subseteq Nat
         /\ v[n + 1] \in Nat
<1>1. 1 .. (n + 1) = (1 .. n) \cup {n + 1}
  OBVIOUS
<1>2. QED
  BY <1>1

\* Sum, largest and smallest of a sequence of numbers follow it when it grows.
LEMMA FiguresFollow ==
  ASSUME NEW n \in Nat, NEW w \in [1 .. n -> Nat], NEW v \in [1 .. (n + 1) -> Nat],
         \A i \in 1 .. n : v[i] = w[i],
         NEW ma \in Nat, NEW mi \in Nat
  PROVE  /\ SumFunction(v) = SumFunction(w) + v[n + 1]
         /\ IsMax(ma, {w[i] : i \in 1 .. n})
              => IsMax(Larger(ma, v[n + 1]), {v[i] : i \in 1 .. (n + 1)})
         /\ v[n + 1] < DBL_MAX /\ IsMin(mi, {w[i] : i \in 1 .. n})
              => IsMin(Smaller(mi, v[n + 1]), {v[i] : i \in 1 .. (n + 1)})
<1>1. PICK S, T : S = {w[i] : i \in 1 .. n} /\ T = {v[i] : i \in 1 .. (n + 1)}
  OBVIOUS
<1>2. PICK x : x = v[n + 1]
  OBVIOUS
<1>3. T = S \cup {x} /\ S \subseteq Nat /\ x \in Nat
  BY <1>1, <1>2, ImageAppend
<1>4. w \in [1 .. n -> Int] /\ v \in [1 .. (n + 1) -> Int]
  OBVIOUS
<1>5. SumFunction(v) = SumFunction(w) + v[n + 1]
  BY <1>4, SumAppend
<1>6. IsMax(ma, S) => IsMax(Larger(ma, x), S \cup {x})
  BY <1>3, MaxAdd
<1>7. x < DBL_MAX /\ IsMin(mi, S) => IsMin(Smaller(mi, x), S \cup {x})
  BY <1>3, MinAdd
<1>8. QED
  BY <1>1, <1>2, <1>3, <1>5, <1>6, <1>7

\* A sequence of calls with one more.
LEMMA CallAppended ==
  ASSUME NEW h \in Calls, NEW c \in [dur : Nat, bytes : Nat]
  PROVE  \E n \in Nat :
           /\ n = Len(h) /\ DOMAIN h = 1 .. n
           /\ Len(Append(h, c)) = n + 1 /\ DOMAIN Append(h, c) = 1 .. (n + 1)
           /\ \A i \in 1 .. n : /\ Append(h, c)[i] = h[i]
                                /\ h[i] \in [dur : Nat, bytes : Nat]
           /\ Append(h, c)[n + 1] = c
<1>1. h \in Seq([dur : Nat, bytes : Nat])
  BY DEF Calls
<1>2. PICK n \in Nat : n = Len(h) /\ DOMAIN h = 1 .. n
  BY <1>1
<1>3. /\ Append(h, c) \in Seq([dur : Nat, bytes : Nat]) /\ Len(Append(h, c)) = n + 1
      /\ \A i \in 1 .. n : Append(h, c)[i] = h[i]
      /\ Append(h, c)[n + 1] = c
  BY <1>1, <1>2, AppendProperties
<1>4. DOMAIN Append(h, c) = 1 .. (n + 1)
  BY <1>3
<1>5. \A i \in 1 .. n : h[i] \in [dur : Nat, bytes : Nat]
  BY <1>1, <1>2, ElementOfSeq
<1>6. QED
  BY <1>2, <1>3, <1>4, <1>5

\* The figures of the times of a record and a call recorded.
LEMMA TimesFollow ==
  ASSUME NEW rec \in RecordType, NEW h \in Calls, NEW c \in [dur : Nat, bytes : Nat],
         c.dur < DBL_MAX, NEW size, TimesExact(rec, h)
  PROVE  TimesExact(Updated(rec, c.dur, size), Append(h, c))
<1>1. PICK g, d : g = Append(h, c) /\ d = c.dur
  OBVIOUS
<1>2. PICK n \in Nat :
           /\ n = Len(h) /\ DOMAIN h = 1 .. n
           /\ Len(g) = n + 1 /\ DOMAIN g = 1 .. (n + 1)
           /\ \A i \in 1 .. n : g[i] = h[i] /\ h[i] \in [dur : Nat, bytes : Nat]
           /\ g[n + 1] = c
  BY <1>1, CallAppended
<1>3. PICK w, v : /\ w = [i \in 1 .. n |-> h[i].dur]
                  /\ v = [i \in 1 .. (n + 1) |-> g[i].dur]
  OBVIOUS
<1>4. \A i \in 1 .. (n + 1) : i \in 1 .. n \/ i = n + 1
  OBVIOUS
<1>5. /\ w \in [1 .. n -> Nat] /\ v \in [1 .. (n + 1) -> Nat]
      /\ \A i \in 1 .. n : v[i] = w[i]
      /\ v[n + 1] = d
  <2>1. \A i \in 1 .. n : i \in 1 .. (n + 1)
    OBVIOUS
  <2>2. n + 1 \in 1 .. (n + 1)
    OBVIOUS
  <2>3. \A i \in 1 .. (n + 1) : g[i].dur \in Nat
    BY <1>2, <1>4
  <2>4. QED
    BY <1>1, <1>2, <1>3, <2>1, <2>2, <2>3
<1>6. PICK p, q : /\ p = [i \in 1 .. n |-> h[i].dur * h[i].dur]
                  /\ q = [i \in 1 .. (n + 1) |-> g[i].dur * g[i].dur]
  OBVIOUS
<1>7. /\ p \in [1 .. n -> Int] /\ q \in [1 .. (n + 1) -> Int]
      /\ \A i \in 1 .. n : q[i] = p[i]
      /\ q[n + 1] = d * d
  <2>1. \A i \in 1 .. n : i \in 1 .. (n + 1)
    OBVIOUS
  <2>2. n + 1 \in 1 .. (n + 1)
    OBVIOUS
  <2>3. \A i \in 1 .. n : h[i].dur * h[i].dur \in Int
    BY <1>2
  <2>4. \A i \in 1 .. (n + 1) : g[i].dur * g[i].dur \in Int
    BY <1>2, <1>4
  <2>5. \A i \in 1 .. n : g[i] = h[i]
    BY <1>2
  <2>6. g[n + 1].dur = d
    BY <1>1, <1>2
  <2>7. QED
    BY <1>6, <2>1, <2>2, <2>3, <2>4, <2>5, <2>6
<1>8. PICK ma \in Nat, mi \in Nat : ma = rec.maxDur /\ mi = rec.minDur
  BY DEF RecordType
<1>9. /\ {h[i].dur : i \in DOMAIN h} = {w[i] : i \in 1 .. n}
      /\ {g[i].dur : i \in DOMAIN g} = {v[i] : i \in 1 .. (n + 1)}
  BY <1>2, <1>3
<1>10. /\ SumFunction(v) = SumFunction(w) + d
       /\ IsMax(Larger(ma, d), {v[i] : i \in 1 .. (n + 1)})
       /\ IsMin(Smaller(mi, d), {v[i] : i \in 1 .. (n + 1)})
  <2>1. IsMax(ma, {w[i] : i \in 1 .. n}) /\ IsMin(mi, {w[i] : i \in 1 .. n})
    BY <1>8, <1>9 DEF TimesExact
  <2>2. d < DBL_MAX
    BY <1>1
  <2>3. QED
    BY <1>5, <2>1, <2>2, FiguresFollow
<1>11. SumFunction(q) = SumFunction(p) + d * d
  BY <1>7, SumAppend
<1>12. /\ rec.time = SumFunction(w) /\ rec.timeSq = SumFunction(p) /\ rec.count = n
  BY <1>2, <1>3, <1>6 DEF TimesExact
<1>13. PICK u : u = Updated(rec, d, size)
  OBVIOUS
<1>14. /\ u.count = rec.count + 1 /\ u.time = rec.time + d /\ u.timeSq = rec.timeSq + d * d
       /\ u.maxDur = Larger(rec.maxDur, d) /\ u.minDur = Smaller(rec.minDur, d)
  BY <1>13 DEF Updated
<1>15. v = [i \in DOMAIN g |-> g[i].dur] /\ q = [i \in DOMAIN g |-> g[i].dur * g[i].dur]
  BY <1>2, <1>3, <1>6
<1>16. TimesExact(u, g)
  <2>1. u.count = Len(g) /\ u.time = SumFunction(v) /\ u.timeSq = SumFunction(q)
    BY <1>2, <1>10, <1>11, <1>12, <1>14
  <2>2. /\ IsMax(u.maxDur, {g[i].dur : i \in DOMAIN g})
        /\ IsMin(u.minDur, {g[i].dur : i \in DOMAIN g})
    BY <1>8, <1>9, <1>10, <1>14
  <2>3. QED
    BY <1>15, <2>1, <2>2 DEF TimesExact
<1>17. QED
  BY <1>1, <1>13, <1>16

\* What one kind of data the calls h moved, w, and the calls g, v, which have c behind them.
MovedAs(s, h, g, c, k, n, w, v) ==
  /\ n \in Nat /\ w \in [1 .. n -> Nat] /\ v \in [1 .. (n + 1) -> Nat]
  /\ \A i \in 1 .. n : v[i] = w[i]
  /\ v[n + 1] = IF k = KindOf[s] THEN c.bytes ELSE 0
  /\ w = [i \in DOMAIN h |-> MovedIn(s, h, i, k)]
  /\ v = [i \in DOMAIN g |-> MovedIn(s, g, i, k)]
  /\ {MovedIn(s, h, i, k) : i \in DOMAIN h} = {w[i] : i \in 1 .. n}
  /\ {MovedIn(s, g, i, k) : i \in DOMAIN g} = {v[i] : i \in 1 .. (n + 1)}
  /\ DOMAIN h = 1 .. n /\ DOMAIN g = 1 .. (n + 1)

\* There are such numbers.
LEMMA MovedFollows ==
  ASSUME NEW s \in Site, NEW h \in Calls, NEW c \in [dur : Nat, bytes : Nat], NEW k
  PROVE  \E n, w, v : MovedAs(s, h, Append(h, c), c, k, n, w, v)
<1>1. PICK g : g = Append(h, c)
  OBVIOUS
<1>2. PICK n \in Nat :
           /\ DOMAIN h = 1 .. n /\ DOMAIN g = 1 .. (n + 1)
           /\ \A i \in 1 .. n : g[i] = h[i] /\ h[i] \in [dur : Nat, bytes : Nat]
           /\ g[n + 1] = c
  BY <1>1, CallAppended
<1>3. PICK w, v : /\ w = [i \in 1 .. n |-> MovedIn(s, h, i, k)]
                  /\ v = [i \in 1 .. (n + 1) |-> MovedIn(s, g, i, k)]
  OBVIOUS
<1>4. /\ \A i \in 1 .. (n + 1) : i \in 1 .. n \/ i = n + 1
      /\ \A i \in 1 .. n : i \in 1 .. (n + 1)
      /\ n + 1 \in 1 .. (n + 1)
  OBVIOUS
<1>5. /\ \A i \in 1 .. n : MovedIn(s, h, i, k) \in Nat /\ MovedIn(s, g, i, k) = MovedIn(s, h, i, k)
      /\ MovedIn(s, g, n + 1, k) = (IF k = KindOf[s] THEN c.bytes ELSE 0)
      /\ MovedIn(s, g, n + 1, k) \in Nat
  BY <1>2 DEF MovedIn
<1>6. /\ w \in [1 .. n -> Nat] /\ v \in [1 .. (n + 1) -> Nat]
      /\ \A i \in 1 .. n : v[i] = w[i]
      /\ v[n + 1] = IF k = KindOf[s] THEN c.bytes ELSE 0
  <2>1. \A i \in 1 .. (n + 1) : MovedIn(s, g, i, k) \in Nat
    BY <1>4, <1>5
  <2>2. QED
    BY <1>3, <1>4, <1>5, <2>1
<1>7. /\ {MovedIn(s, h, i, k) : i \in DOMAIN h} = {w[i] : i \in 1 .. n}
      /\ {MovedIn(s, g, i, k) : i \in DOMAIN g} = {v[i] : i \in 1 .. (n + 1)}
  BY <1>2, <1>3
<1>8. w = [i \in DOMAIN h |-> MovedIn(s, h, i, k)] /\ v = [i \in DOMAIN g |-> MovedIn(s, g, i, k)]
  BY <1>2, <1>3
<1>9. MovedAs(s, h, g, c, k, n, w, v)
  BY <1>2, <1>6, <1>7, <1>8 DEF MovedAs
<1>10. QED
  BY <1>1, <1>9

\* The size a wrapper passes on for one kind.
SizeOf(s, b) == [k \in Kind |-> IF k = KindOf[s] THEN b ELSE 0]

\* The figures of the sizes of one kind, of a record and a call recorded.
LEMMA KindFollow ==
  ASSUME NEW s \in Site, NEW rec \in RecordType, NEW h \in Calls,
         NEW c \in [dur : Nat, bytes : Nat], c.bytes < DBL_MAX,
         NEW k \in Kind, KindExact(s, rec, h, k)
  PROVE  KindExact(s, Updated(rec, c.dur, SizeOf(s, c.bytes)), Append(h, c), k)
<1>1. PICK g, x, u : /\ g = Append(h, c) /\ x = (IF k = KindOf[s] THEN c.bytes ELSE 0)
                     /\ u = Updated(rec, c.dur, SizeOf(s, c.bytes))
  OBVIOUS
<1>2. x \in Nat /\ x < DBL_MAX
  BY <1>1, ProfileAssumption
<1>3. PICK n, w, v : MovedAs(s, h, g, c, k, n, w, v)
  BY <1>1, MovedFollows
<1>4. u.sum[k] = rec.sum[k] + x /\ u.max[k] = Larger(rec.max[k], x)
      /\ u.min[k] = Smaller(rec.min[k], x)
  <2>1. SizeOf(s, c.bytes)[k] = x
    BY <1>1 DEF SizeOf
  <2>2. QED
    BY <1>1, <2>1 DEF Updated
<1>5. PICK ma \in Nat, mi \in Nat : ma = rec.max[k] /\ mi = rec.min[k]
  BY DEF RecordType
<1>6. /\ rec.sum[k] = SumFunction(w)
      /\ IsMax(ma, {w[i] : i \in 1 .. n}) /\ IsMin(mi, {w[i] : i \in 1 .. n})
  BY <1>3, <1>5 DEF KindExact, MovedAs
<1>7. /\ SumFunction(v) = SumFunction(w) + x
      /\ IsMax(Larger(ma, x), {v[i] : i \in 1 .. (n + 1)})
      /\ IsMin(Smaller(mi, x), {v[i] : i \in 1 .. (n + 1)})
  <2>1. /\ n \in Nat /\ w \in [1 .. n -> Nat] /\ v \in [1 .. (n + 1) -> Nat]
        /\ \A i \in 1 .. n : v[i] = w[i]
    BY <1>3 DEF MovedAs
  <2>2. v[n + 1] = x
    BY <1>1, <1>3 DEF MovedAs
  <2>3. /\ SumFunction(v) = SumFunction(w) + v[n + 1]
        /\ IsMax(ma, {w[i] : i \in 1 .. n})
              => IsMax(Larger(ma, v[n + 1]), {v[i] : i \in 1 .. (n + 1)})
        /\ v[n + 1] < DBL_MAX /\ IsMin(mi, {w[i] : i \in 1 .. n})
              => IsMin(Smaller(mi, v[n + 1]), {v[i] : i \in 1 .. (n + 1)})
    BY <2>1, FiguresFollow
  <2>4. QED
    BY <1>2, <1>6, <2>2, <2>3
<1>8. KindExact(s, u, g, k)
  BY <1>3, <1>4, <1>5, <1>6, <1>7 DEF KindExact, MovedAs
<1>9. QED
  BY <1>1, <1>8

\* The figures of the sizes of a record and a call recorded.
LEMMA SizesFollow ==
  ASSUME NEW s \in Site, NEW rec \in RecordType, NEW h \in Calls,
         NEW c \in [dur : Nat, bytes : Nat], c.bytes < DBL_MAX, SizesExact(s, rec, h)
  PROVE  SizesExact(s, Updated(rec, c.dur, SizeOf(s, c.bytes)), Append(h, c))
<1>1. PICK g, u : /\ g = Append(h, c) /\ u = Updated(rec, c.dur, SizeOf(s, c.bytes))
  OBVIOUS
<1>2. \A k \in Kind \ {"rma"} : KindExact(s, u, g, k)
  BY <1>1, KindFollow DEF SizesExact
<1>3. PICK K : K = KindOf[s]
  OBVIOUS
<1>4. K \in Kind
  BY <1>3, ProfileAssumption
<1>5. PICK n, w, v : MovedAs(s, h, g, c, K, n, w, v)
  BY <1>1, MovedFollows
<1>6. /\ w = [i \in DOMAIN h |-> h[i].bytes] /\ v = [i \in DOMAIN g |-> g[i].bytes]
      /\ v[n + 1] = c.bytes
  BY <1>3, <1>5 DEF MovedIn, MovedAs
<1>7. u.sum[K] = rec.sum[K] + c.bytes
  <2>1. SizeOf(s, c.bytes)[K] = c.bytes
    BY <1>3, <1>4 DEF SizeOf
  <2>2. QED
    BY <1>1, <1>4, <2>1 DEF Updated
<1>8. SumFunction(v) = SumFunction(w) + c.bytes /\ SumFunction(w) \in Int
  <2>0. /\ n \in Nat /\ w \in [1 .. n -> Nat] /\ v \in [1 .. (n + 1) -> Nat]
        /\ \A i \in 1 .. n : v[i] = w[i]
    BY <1>5 DEF MovedAs
  <2>1. /\ n \in Nat /\ w \in [1 .. n -> Int] /\ v \in [1 .. (n + 1) -> Int]
        /\ \A i \in 1 .. n : v[i] = w[i]
    BY <2>0
  <2>2. SumFunction(v) = SumFunction(w) + v[n + 1]
    BY <2>1, SumAppend
  <2>3. SumFunction(w) \in Int
    <3>1. DOMAIN w = 1 .. n /\ IsFiniteSet(1 .. n) /\ \A i \in 1 .. n : w[i] \in Int
      BY <2>1, FS_Interval
    <3>2. SumFunctionOnSet(w, 1 .. n) \in Int
      BY <3>1, SumType
    <3>3. QED
      BY <3>1, <3>2 DEF SumFunction
  <2>4. QED
    BY <1>6, <2>2, <2>3
<1>9. rec.sum[K] >= SumFunction(w)
  BY <1>3, <1>6 DEF SizesExact
<1>10. rec.sum[K] \in Nat /\ c.bytes \in Nat
  BY <1>4 DEF RecordType
<1>11. u.sum[K] >= SumFunction(v)
  BY <1>7, <1>8, <1>9, <1>10
<1>12. u.sum[KindOf[s]] >= SumFunction([i \in DOMAIN g |-> g[i].bytes])
  BY <1>3, <1>6, <1>11
<1>13. SizesExact(s, u, g)
  BY <1>2, <1>12 DEF SizesExact
<1>14. QED
  BY <1>1, <1>13

\* The number of big messages of a record and a call recorded.
LEMMA BigFollow ==
  ASSUME NEW s \in Site, NEW rec \in RecordType, NEW h \in Calls,
         NEW c \in [dur : Nat, bytes : Nat], rec.arbitrary = Cardinality(Big(s, h))
  PROVE  Updated(rec, c.dur, SizeOf(s, c.bytes)).arbitrary = Cardinality(Big(s, Append(h, c)))
<1>1. PICK g, x, u : /\ g = Append(h, c) /\ x = (IF "sent" = KindOf[s] THEN c.bytes ELSE 0)
                     /\ u = Updated(rec, c.dur, SizeOf(s, c.bytes))
  OBVIOUS
<1>2. PICK n, w, v : MovedAs(s, h, g, c, "sent", n, w, v)
  BY <1>1, MovedFollows
<1>3. /\ Big(s, h) = {i \in 1 .. n : Threshold > -1 /\ w[i] >= Threshold}
      /\ Big(s, g) = {i \in 1 .. (n + 1) : Threshold > -1 /\ v[i] >= Threshold}
  BY <1>2 DEF Big, MovedAs
<1>4. PICK B, C : B = Big(s, h) /\ C = Big(s, g)
  OBVIOUS
<1>5. /\ \A i \in 1 .. (n + 1) : i \in 1 .. n \/ i = n + 1
      /\ \A i \in 1 .. n : i \in 1 .. (n + 1) /\ i # n + 1
      /\ n + 1 \in 1 .. (n + 1)
  BY <1>2 DEF MovedAs
<1>6. IsFiniteSet(B) /\ n + 1 \notin B
  <2>0. IsFiniteSet(1 .. n)
    BY <1>2, FS_Interval DEF MovedAs
  <2>1. B \subseteq 1 .. n
    BY <1>3, <1>4
  <2>2. QED
    BY <1>5, <2>0, <2>1, FS_Subset
<1>7. /\ Threshold > -1 /\ x >= Threshold => C = B \cup {n + 1}
      /\ ~(Threshold > -1 /\ x >= Threshold) => C = B
  <2>1. \A i \in 1 .. n : v[i] = w[i]
    BY <1>2 DEF MovedAs
  <2>2. v[n + 1] = x
    BY <1>1, <1>2 DEF MovedAs
  <2>3. \A i : i \in C <=> i \in B \/ (i = n + 1 /\ Threshold > -1 /\ x >= Threshold)
    BY <1>3, <1>4, <1>5, <2>1, <2>2
  <2>4. QED
    BY <2>3
<1>8. SizeOf(s, c.bytes)["sent"] = x
  BY <1>1 DEF SizeOf, Kind
<1>9. /\ Threshold > -1 /\ x >= Threshold => u.arbitrary = rec.arbitrary + 1
      /\ ~(Threshold > -1 /\ x >= Threshold) => u.arbitrary = rec.arbitrary
  BY <1>1, <1>8 DEF Updated
<1>10. Cardinality(B \cup {n + 1}) = Cardinality(B) + 1
  BY <1>6, FS_AddElement
<1>11. u.arbitrary = Cardinality(C)
  BY <1>4, <1>7, <1>9, <1>10
<1>12. QED
  BY <1>1, <1>4, <1>11

\* A record that says what the calls were does so when a call is recorded.
LEMMA ExactFollows ==
  ASSUME NEW s \in Site, NEW rec \in RecordType, NEW h \in Calls,
         NEW c \in [dur : Nat, bytes : Nat], c.dur < DBL_MAX, c.bytes < DBL_MAX,
         Exact(s, rec, h)
  PROVE  Exact(s, Updated(rec, c.dur, SizeOf(s, c.bytes)), Append(h, c))
<1>1. TimesExact(Updated(rec, c.dur, SizeOf(s, c.bytes)), Append(h, c))
  BY TimesFollow DEF Exact
<1>2. SizesExact(s, Updated(rec, c.dur, SizeOf(s, c.bytes)), Append(h, c))
  BY SizesFollow DEF Exact
<1>3. Updated(rec, c.dur, SizeOf(s, c.bytes)).arbitrary = Cardinality(Big(s, Append(h, c)))
  BY BigFollow DEF Exact
<1>4. QED
  BY <1>1, <1>2, <1>3 DEF Exact

\* A record that is zeroed but for the figures of RMA says that there was no call.
LEMMA ExactEmpty ==
  ASSUME NEW s \in Site, NEW rec \in RecordType,
         rec.count = 0, rec.time = 0, rec.timeSq = 0, rec.maxDur = 0, rec.minDur = DBL_MAX,
         rec.arbitrary = 0,
         \A k \in Kind \ {"rma"} : rec.sum[k] = 0 /\ rec.max[k] = 0 /\ rec.min[k] = DBL_MAX
  PROVE  Exact(s, rec, << >>)
<1>1. DOMAIN << >> = {} /\ Len(<< >>) = 0
  OBVIOUS
<1>2. \A f : DOMAIN f = {} => SumFunction(f) = 0
  BY SumNothing DEF SumFunction
<1>3. /\ SumFunction([i \in DOMAIN << >> |-> << >>[i].dur]) = 0
      /\ SumFunction([i \in DOMAIN << >> |-> << >>[i].dur * << >>[i].dur]) = 0
      /\ SumFunction([i \in DOMAIN << >> |-> << >>[i].bytes]) = 0
      /\ \A k : SumFunction([i \in DOMAIN << >> |-> MovedIn(s, << >>, i, k)]) = 0
  BY <1>1, <1>2
<1>4. {<< >>[i].dur : i \in DOMAIN << >>} = {}
  BY <1>1
<1>5. \A k : {MovedIn(s, << >>, i, k) : i \in DOMAIN << >>} = {}
  BY <1>1
<1>6. Big(s, << >>) = {}
  BY <1>1 DEF Big
<1>7. TimesExact(rec, << >>)
  BY <1>1, <1>3, <1>4 DEF TimesExact, IsMax, IsMin
<1>8. \A k \in Kind \ {"rma"} : KindExact(s, rec, << >>, k)
  BY <1>3, <1>5 DEF KindExact, IsMax, IsMin
<1>9. rec.sum[KindOf[s]] >= 0
  BY ProfileAssumption DEF RecordType
<1>10. SizesExact(s, rec, << >>)
  BY <1>3, <1>8, <1>9 DEF SizesExact
<1>11. QED
  BY <1>6, <1>7, <1>10, FS_EmptySet DEF Exact

\* So does a record just created.
LEMMA ExactNew ==
  ASSUME NEW s \in Site
  PROVE  Exact(s, NewRecord, << >>)
<1>1. PICK r : r = NewRecord
  OBVIOUS
<1>2. r \in RecordType
  BY <1>1, NewTyped
<1>3. /\ r.count = 0 /\ r.time = 0 /\ r.timeSq = 0 /\ r.maxDur = 0 /\ r.minDur = DBL_MAX
      /\ r.arbitrary = 0
      /\ \A k \in Kind \ {"rma"} : r.sum[k] = 0 /\ r.max[k] = 0 /\ r.min[k] = DBL_MAX
  BY <1>1 DEF NewRecord
<1>4. QED
  BY <1>1, <1>2, <1>3, ExactEmpty

\* And one that is reset.
LEMMA ExactReset ==
  ASSUME NEW s \in Site, NEW rec \in RecordType
  PROVE  Exact(s, ResetRecord(rec), << >>)
<1>1. PICK r, n, a, b, c : /\ r = ResetRecord(rec) /\ n = NewRecord
                           /\ a = rec.sum["rma"] /\ b = rec.max["rma"] /\ c = rec.min["rma"]
  OBVIOUS
<1>2. r \in RecordType
  BY <1>1, ResetTyped
<1>3. n = [count |-> 0, time |-> 0, timeSq |-> 0, maxDur |-> 0, minDur |-> DBL_MAX,
           sum |-> [k \in Kind |-> 0], max |-> [k \in Kind |-> 0],
           min |-> [k \in Kind |-> IF k = "rma" THEN 0 ELSE DBL_MAX], arbitrary |-> 0]
  BY <1>1 DEF NewRecord
<1>4. r = [[[n EXCEPT !.sum["rma"] = a] EXCEPT !.max["rma"] = b] EXCEPT !.min["rma"] = c]
  BY <1>1 DEF ResetRecord
<1>5. PICK x, y, z : /\ x = [n.sum EXCEPT !["rma"] = a] /\ y = [n.max EXCEPT !["rma"] = b]
                     /\ z = [n.min EXCEPT !["rma"] = c]
  OBVIOUS
<1>6. r = [count |-> 0, time |-> 0, timeSq |-> 0, maxDur |-> 0, minDur |-> DBL_MAX,
           sum |-> x, max |-> y, min |-> z, arbitrary |-> 0]
  BY <1>3, <1>4, <1>5
<1>7. \A k \in Kind \ {"rma"} : x[k] = 0 /\ y[k] = 0 /\ z[k] = DBL_MAX
  BY <1>3, <1>5
<1>8. /\ r.count = 0 /\ r.time = 0 /\ r.timeSq = 0 /\ r.maxDur = 0 /\ r.minDur = DBL_MAX
      /\ r.arbitrary = 0
      /\ \A k \in Kind \ {"rma"} : r.sum[k] = 0 /\ r.max[k] = 0 /\ r.min[k] = DBL_MAX
  BY <1>6, <1>7
<1>9. QED
  BY <1>1, <1>2, <1>8, ExactEmpty

-----------------------------------------------------------------------------
(* What the records of a task say. *)

\* Without calls there is nothing to say.
LEMMA InitSummarises == Init => StatsSummarise
<1> SUFFICES ASSUME Init PROVE StatsSummarise
  OBVIOUS
<1>1. stats = << >> /\ history = [s \in Site |-> << >>]
  BY DEF Init
<1>2. DOMAIN stats = {}
  BY <1>1
<1>3. ASSUME NEW s \in Site PROVE Exact(s, RecordOf(s), history[s])
  <2>1. RecordOf(s) = NewRecord /\ history[s] = << >>
    BY <1>1, <1>2 DEF RecordOf
  <2>2. QED
    BY <2>1, ExactNew
<1>4. QED
  BY <1>3, SummariseByExact

\* StatsSummarise behind a step, site by site.
LEMMA SummariseNext ==
  ASSUME \A s \in Site : Exact(s, RecordOf(s)', history'[s])
  PROVE  StatsSummarise'
BY DEF StatsSummarise, Exact, TimesExact, SizesExact, KindExact, Big, MovedIn, Moved, Durations,
       Sizes

\* A step that leaves the records and the calls leaves what they say.
LEMMA SummariseSame ==
  ASSUME StatsSummarise, stats' = stats, history' = history
  PROVE  StatsSummarise'
<1>1. \A s \in Site : Exact(s, RecordOf(s), history[s])
  BY SummariseByExact
<1>2. \A s \in Site : RecordOf(s)' = RecordOf(s) /\ history'[s] = history[s]
  BY DEF RecordOf
<1>3. \A s \in Site : Exact(s, RecordOf(s)', history'[s])
  BY <1>1, <1>2
<1>4. QED
  BY <1>3, SummariseNext

\* A wrapper that records its call records what it did, in the record of its site.
LEMMA LeaveSummarises ==
  ASSUME IInv, StatsSummarise, NEW b \in Bytes, WrapperLeave(b)
  PROVE  StatsSummarise'
<1>1. PICK f \in Frame, dur \in Nat, size \in [Kind -> Nat] :
           /\ dur <= now
           /\ size = [k \in Kind |-> IF k = KindOf[f.site] THEN b ELSE 0]
           /\ f.enabledState => mpiPi_update_callsite_stats(f.site, dur, size)
           /\ ~f.enabledState => UNCHANGED stats
           /\ f.enabledState => history' = [history EXCEPT ![f.site] =
                                     Append(@, [dur |-> dur, bytes |-> b])]
           /\ ~f.enabledState => history' = history
  BY LeaveForm
<1>2. \A s \in Site : Exact(s, RecordOf(s), history[s])
  BY SummariseByExact
<1>3. PICK s : s = f.site
  OBVIOUS
<1>4. s \in Site
  BY <1>3 DEF Frame
<1>5. PICK c : c = [dur |-> dur, bytes |-> b]
  OBVIOUS
<1>6. /\ c \in [dur : Nat, bytes : Nat] /\ c.dur = dur /\ c.bytes = b
      /\ c.dur < DBL_MAX /\ c.bytes < DBL_MAX
  <2>1. now <= MaxTime /\ now \in Nat
    BY ProfileAssumption DEF IInv, Typed
  <2>2. QED
    BY <1>1, <1>5, <2>1, ProfileAssumption
<1>7. PICK r, h : r = RecordOf(s) /\ h = history[s]
  OBVIOUS
<1>8. r \in RecordType /\ h \in Calls /\ Exact(s, r, h)
  BY <1>2, <1>4, <1>7, RecordOfTyped DEF IInv, Typed
<1>9. size = SizeOf(s, c.bytes)
  BY <1>1, <1>3, <1>6 DEF SizeOf
<1>10. CASE f.enabledState
  <2>1. PICK u : u = Updated(r, c.dur, SizeOf(s, c.bytes))
    OBVIOUS
  <2>2. Exact(s, u, Append(h, c))
    BY <1>4, <1>6, <1>8, <2>1, ExactFollows
  <2>3. stats' = [t \in DOMAIN stats \cup {s} |-> IF t = s THEN u ELSE stats[t]]
    BY <1>1, <1>3, <1>6, <1>7, <1>9, <1>10, <2>1 DEF mpiPi_update_callsite_stats
  <2>4. history' = [history EXCEPT ![s] = Append(h, c)]
    BY <1>1, <1>3, <1>5, <1>7, <1>10
  <2>5. ASSUME NEW t \in Site PROVE Exact(t, RecordOf(t)', history'[t])
    <3>1. CASE t = s
      <4>1. RecordOf(t)' = u
        BY <2>3, <3>1 DEF RecordOf
      <4>2. history'[t] = Append(h, c)
        BY <1>4, <2>4, <3>1 DEF IInv, Typed
      <4>3. QED
        BY <2>2, <3>1, <4>1, <4>2
    <3>2. CASE t # s
      <4>1. RecordOf(t)' = RecordOf(t)
        BY <2>3, <3>2 DEF RecordOf
      <4>2. history'[t] = history[t]
        BY <2>4, <3>2 DEF IInv, Typed
      <4>3. Exact(t, RecordOf(t), history[t])
        BY <1>2
      <4>4. QED
        BY <4>1, <4>2, <4>3
    <3>3. QED
      BY <3>1, <3>2
  <2>6. QED
    BY <2>5, SummariseNext
<1>11. CASE ~f.enabledState
  BY <1>1, <1>11, SummariseSame
<1>12. QED
  BY <1>10, <1>11

\* MPI_Pcontrol(2) forgets the calls.
LEMMA ResetSummarises ==
  ASSUME IInv, mpiPi_reset_callsite_data
  PROVE  StatsSummarise'
<1>1. /\ stats' = [s \in DOMAIN stats |-> ResetRecord(stats[s])]
      /\ history' = [s \in Site |-> << >>]
  BY DEF mpiPi_reset_callsite_data
<1>2. ASSUME NEW s \in Site PROVE Exact(s, RecordOf(s)', history'[s])
  <2>1. history'[s] = << >>
    BY <1>1
  <2>2. CASE s \in DOMAIN stats
    <3>1. RecordOf(s)' = ResetRecord(stats[s])
      BY <1>1, <2>2 DEF RecordOf
    <3>2. stats[s] \in RecordType
      BY <2>2 DEF IInv, Typed
    <3>3. QED
      BY <2>1, <3>1, <3>2, ExactReset
  <2>3. CASE s \notin DOMAIN stats
    <3>1. RecordOf(s)' = NewRecord
      BY <1>1, <2>3 DEF RecordOf
    <3>2. QED
      BY <2>1, <3>1, ExactNew
  <2>4. QED
    BY <2>2, <2>3
<1>3. QED
  BY <1>2, SummariseNext

\* Every record is the exact summary of the calls of its site that profiling covered since the
\* last reset: of the outermost ones only, and of every one of them.
THEOREM SummariesExact == Spec => []StatsSummarise
<1>1. Init => StatsSummarise
  BY InitSummarises
<1>2. IInv /\ StatsSummarise /\ [Next]_vars => StatsSummarise'
  <2> SUFFICES ASSUME IInv, StatsSummarise, [Next]_vars PROVE StatsSummarise'
    OBVIOUS
  <2>1. ASSUME UNCHANGED <<stats, history>> PROVE StatsSummarise'
    BY <2>1, SummariseSame
  <2>2. CASE Tick
    BY <2>1, <2>2 DEF Tick
  <2>3. ASSUME NEW s \in Site, WrapperEnter(s) PROVE StatsSummarise'
    BY <2>1, <2>3 DEF WrapperEnter, ghostVars
  <2>4. ASSUME NEW b \in Bytes, WrapperLeave(b) PROVE StatsSummarise'
    BY <2>4, LeaveSummarises
  <2>5. CASE mpiPi_MPI_Pcontrol
    <3>1. CASE PcontrolDisable
      BY <2>1, <3>1 DEF PcontrolDisable
    <3>2. CASE PcontrolEnable
      BY <2>1, <3>2 DEF PcontrolEnable
    <3>3. CASE mpiPi_reset_callsite_data
      BY <3>3, ResetSummarises
    <3>4. CASE PcontrolReport
      BY <2>1, <3>4 DEF PcontrolReport, ghostVars
    <3>5. QED
      BY <2>5, <3>1, <3>2, <3>3, <3>4 DEF mpiPi_MPI_Pcontrol
  <2>6. CASE MpiFinalize
    BY <2>1, <2>6 DEF MpiFinalize
  <2>7. CASE VizReport
    BY <2>1, <2>7 DEF VizReport, VizReadClock, VizAccount, VizRestartClock, VizMerge, VizStep,
                      ghostVars
  <2>8. CASE UNCHANGED vars
    BY <2>1, <2>8 DEF vars, ghostVars
  <2>9. QED
    BY <2>2, <2>3, <2>4, <2>5, <2>6, <2>7, <2>8 DEF Next
<1>3. QED
  BY Invariance, <1>1, <1>2, PTL DEF Spec
=============================================================================
