----------------------- MODULE ReportProtocol_proofs -----------------------
(***************************************************************************)
(* Theorems of module ReportProtocol, for any number of tasks, reports and *)
(* records and for all options.                                            *)
(*                                                                         *)
(* The heart of the inductive invariant is the chain of collective calls   *)
(* of a run, which no variable holds: the k-th place of it is the call     *)
(* that every task makes as its k-th, with the report it belongs to and    *)
(* what the calls before it have decided.  The invariant says that there   *)
(* is such a chain and that every task is where the chain has it.  A task  *)
(* that leaves a call goes to the next place if another task has been      *)
(* there, and makes the chain longer if none has.                          *)
(***************************************************************************)
EXTENDS ReportProtocol, FiniteSetTheorems, SequenceTheorems, WellFoundedInduction, TLAPS

-----------------------------------------------------------------------------
(* What a task knows by itself. *)

\* Task r has begun a report and not counted its records for it.
Uncounted(r) == pc[r] \in {"basics", "hosts"} \/ (pc[r] = "count" /\ ~inside[r])

\* A task counts once in every report, and ac is the last count.
Counting ==
  \A r \in Rank :
    /\ Len(snaps[r]) = IF Uncounted(r) THEN gen[r] - 1 ELSE gen[r]
    /\ ac[r] <= nrec[r]
    /\ Len(snaps[r]) > 0 => ac[r] = snaps[r][Len(snaps[r])]

(* What is in flight, and in the tables of the collector. *)

\* The collector is between its count of a report and the end of its receives.
Window == \/ pc[Collector] = "count" /\ inside[Collector]
          \/ pc[Collector] \in {"max", "alloc", "recv"}

\* Task r has sent its records for the report the collector is in.
Sent(r) == pc[r] \in {"sending", "status"} /\ gen[r] = gen[Collector]

\* Task r has still to send them.
Late(r) == pc[r] \in {"basics", "hosts", "count", "max", "send"} /\ gen[r] = gen[Collector]

Message(r) == [gen |-> gen[r], n |-> ac[r]]

Received(r) == pc[Collector] = "recv" /\ merged[r] # <<>>

InFlight(r) == r # Collector /\ Window /\ Sent(r) /\ ~Received(r)

Waiting == {r \in Others : merged[r] = <<>>}

Delivery ==
  ~failed =>
    /\ \A r \in Rank : /\ InFlight(r) => chan[r] = <<Message(r)>>
                       /\ ~InFlight(r) => chan[r] = <<>>
    /\ pc[Collector] = "recv" =>
         /\ merged[Collector] = <<Message(Collector)>>
         /\ \A r \in Others :
              merged[r] # <<>> => Sent(r) /\ merged[r] = <<Message(r)>>
         /\ left = Cardinality(Waiting)
    /\ pc[Collector] \in {"status", "coll", "pt2pt", "publish"} =>
         \A r \in Rank : merged[r] = << [gen |-> gen[Collector],
                                         n |-> snaps[r][gen[Collector]]] >>
    /\ pc[Collector] = "status" => \A r \in Others : ~Late(r)

\* Messages are no larger than the last count of their sender, which is no larger than the
\* buffer while the collector may receive.
Sizes ==
  /\ chan[Collector] = <<>>
  /\ \A r \in Rank : \A i \in 1 .. Len(chan[r]) : chan[r][i].n <= ac[r]
  /\ pc[Collector] \in {"alloc", "recv"} => \A r \in Rank : ac[r] <= maxCount

\* Reports the collector has ended, one way or the other.
Ended ==
  IF pc[Collector] = "run" THEN gen[Collector]
  ELSE IF pc[Collector] = "publish" /\ toPrint[Collector] < opt.publishes
       THEN gen[Collector]
  ELSE gen[Collector] - 1

LogHasFailed == \E k \in 1 .. Len(log) : log[k].kind = "failed"

NoBuffer == pc[Collector] \in {"recv", "status"} /\ retval = 0

Logging ==
  /\ Len(log) = Ended
  /\ NoBuffer => opt.scarce
  /\ failed => LogHasFailed \/ NoBuffer
  /\ pc[Collector] = "status" /\ inside[Collector] =>
       calls[Collector][Len(calls[Collector])].val = retval
  /\ toPrint[Collector] <= opt.publishes
  /\ pc[Collector] \in {"coll", "pt2pt"} => toPrint[Collector] = opt.publishes
  /\ pc[Collector] = "publish" /\ inside[Collector] => toPrint[Collector] < opt.publishes
-----------------------------------------------------------------------------
(* The chain of collective calls. *)

Collective == Rooted \cup Joint

\* A place in the chain: an operation, the report it belongs to, the copies of the
\* report still to be written, and whether the report has records.
Place == [op : Collective, gen : Nat, print : 0 .. 2, some : BOOLEAN]

\* The number of the call that task r is inside of or makes next.
Pos(r) == IF inside[r] THEN Len(calls[r]) ELSE Len(calls[r]) + 1

Entered(k) == \A s \in Rank : Len(calls[s]) >= k

NonZero(k) == \E s \in Rank : calls[s][k].val > 0
AllOk(k) == \A s \in Rank : calls[s][k].val = 1

\* Place q comes behind place p, the k-th: what the tasks contributed to the k-th call
\* decides where the code gives them a choice.
Follows(k, p, q) ==
  \/ /\ p.op = "basics" /\ q.gen = p.gen
     /\ q.op = IF HostNames[p.gen] THEN "hosts" ELSE "count"
  \/ /\ p.op = "hosts" /\ q.op = "count" /\ q.gen = p.gen
  \/ /\ p.op = "count" /\ q.op = "max" /\ q.gen = p.gen
     /\ q.some <=> NonZero(k)
  \/ /\ p.op = "max" /\ p.some
     /\ q.op = "status" /\ q.gen = p.gen /\ q.some
  \/ /\ p.op = "max" /\ ~p.some
     /\ q.op = "basics" /\ q.gen = p.gen + 1
  \/ /\ p.op = "status" /\ AllOk(k) /\ q.op = AfterMerge
     /\ q.gen = p.gen /\ q.some = p.some /\ q.print = opt.publishes
  \/ /\ p.op = "status" /\ ~AllOk(k)
     /\ q.op = "basics" /\ q.gen = p.gen + 1
  \/ /\ p.op = "coll" /\ q.op = AfterColl
     /\ q.gen = p.gen /\ q.some = p.some /\ q.print = p.print
  \/ /\ p.op = "pt2pt" /\ q.op = AfterPt2pt
     /\ q.gen = p.gen /\ q.some = p.some /\ q.print = p.print
  \/ /\ p.op = "publish" /\ p.print > 1 /\ q.op = "publish"
     /\ q.gen = p.gen /\ q.some = p.some /\ q.print = p.print - 1
  \/ /\ p.op = "publish" /\ p.print = 1
     /\ q.op = "basics" /\ q.gen = p.gen + 1

\* Where a place is in the order of all calls.
Weight(p) ==
  12 * p.gen + (CASE p.op = "basics"  -> 1
                  [] p.op = "hosts"   -> 2
                  [] p.op = "count"   -> 3
                  [] p.op = "max"     -> 4
                  [] p.op = "status"  -> 5
                  [] p.op = "coll"    -> 6
                  [] p.op = "pt2pt"   -> 7
                  [] p.op = "publish" -> 10 - p.print)

\* What a place says of its report is so: behind the count, all tasks have counted and
\* "some" is whether one of them has a record; only then does the report go on.
Sound(p) ==
  /\ p.gen >= 1
  /\ p.op \notin {"basics", "hosts", "count"} =>
       /\ \A s \in Rank : p.gen <= Len(snaps[s])
       /\ p.some <=> \E s \in Rank : snaps[s][p.gen] > 0
  /\ p.op \in {"status", "coll", "pt2pt", "publish"} => p.some
  /\ p.op \in {"coll", "pt2pt", "publish"} => p.print \in {1, 2}

\* The k-th call of task r was made at place p.
Made(r, k, p) ==
  /\ calls[r][k].op = p.op
  /\ p.op \in {"count", "max"} => /\ p.gen <= Len(snaps[r])
                                  /\ calls[r][k].val = snaps[r][p.gen]
  /\ p.op = "status" /\ r # Collector => calls[r][k].val = 1

\* The operation a task at stage st makes next or is inside of.
Next_op(st) == CASE st = "run" -> "basics"
                 [] st \in {"alloc", "recv", "send", "sending"} -> "status"
                 [] OTHER -> st

\* Task r is at place p.
At(r, p) ==
  /\ p.op = Next_op(pc[r])
  /\ p.gen = IF pc[r] = "run" THEN gen[r] + 1 ELSE gen[r]
  /\ pc[r] \in {"run", "alloc", "recv", "send", "sending"} => ~inside[r]
  /\ pc[r] \in {"alloc", "recv"} => r = Collector
  /\ pc[r] \in {"send", "sending"} => r # Collector
  /\ pc[r] = "max" => (some[r] <=> p.some)
  /\ pc[r] \in {"coll", "pt2pt"} => toPrint[r] = p.print
  /\ pc[r] = "publish" => toPrint[r] = IF inside[r] THEN p.print - 1 ELSE p.print

\* Task r has come along chain c to where it is.
Along(r, c) ==
  /\ Pos(r) >= 1
  /\ \A k \in 1 .. Pos(r) : Sound(c[k]) /\ \A j \in 1 .. k - 1 : Weight(c[j]) < Weight(c[k])
  /\ \A k \in 1 .. Pos(r) - 1 :
       /\ Follows(k, c[k], c[k + 1])
       /\ c[k].op \in Joint => Entered(k)
  /\ \A k \in 1 .. Len(calls[r]) : Made(r, k, c[k])
  /\ At(r, c[Pos(r)])

Chain(c) ==
  /\ c \in [Nat -> Place]
  /\ c[1].op = "basics" /\ c[1].gen = 1
  /\ \A r \in Rank : Along(r, c)

\* The history variables are sequences.
Entry == [kind : {"omitted", "failed"}]
         \cup [kind : {"published"}, parts : [Rank -> Seq([gen : Nat, n : Nat])]]

Typed ==
  /\ TypeOK
  /\ snaps \in [Rank -> Seq(0 .. MaxRecords)]
  /\ log \in Seq(Entry)

IInv ==
  /\ Typed
  /\ \E c : Chain(c)
  /\ Counting
  /\ Delivery
  /\ Sizes
  /\ Logging
-----------------------------------------------------------------------------
(* Facts about places. *)

\* What every task has made, counted and sent is a sequence of its type.
LEMMA Lengths ==
  ASSUME Typed, NEW r \in Rank
  PROVE  /\ Len(calls[r]) \in Nat /\ Pos(r) \in Nat
         /\ Len(snaps[r]) \in Nat /\ Len(chan[r]) \in Nat
         /\ \A k \in 1 .. Len(calls[r]) : calls[r][k].op \in Collective /\ calls[r][k].val \in Nat
         /\ \A k \in 1 .. Len(snaps[r]) : snaps[r][k] \in 0 .. MaxRecords
<1>1. /\ calls[r] \in Seq([op : Rooted \cup Joint, val : Nat])
      /\ chan[r] \in Seq([gen : Nat, n : Nat])
      /\ snaps[r] \in Seq(0 .. MaxRecords)
      /\ inside[r] \in BOOLEAN
  BY DEF Typed, TypeOK
<1>2. Len(calls[r]) \in Nat /\ Len(snaps[r]) \in Nat /\ Len(chan[r]) \in Nat
  BY <1>1
<1>3. Pos(r) \in Nat
  BY <1>1, <1>2 DEF Pos
<1>4. \A k \in 1 .. Len(calls[r]) : calls[r][k] \in [op : Rooted \cup Joint, val : Nat]
  BY <1>1, ElementOfSeq
<1>5. \A k \in 1 .. Len(snaps[r]) : snaps[r][k] \in 0 .. MaxRecords
  BY <1>1, ElementOfSeq
<1>6. QED
  BY <1>2, <1>3, <1>4, <1>5 DEF Collective

\* The weights of the places of report g lie between 12 * g + 1 and 12 * g + 10.
LEMMA WeightType ==
  ASSUME NEW p \in Place
  PROVE  /\ Weight(p) \in Int
         /\ 12 * p.gen + 1 <= Weight(p) /\ Weight(p) <= 12 * p.gen + 10
<1>1. /\ p.gen \in Nat /\ p.print \in 0 .. 2
      /\ p.op \in {"basics", "hosts", "count", "max", "status", "coll", "pt2pt", "publish"}
  BY DEF Place, Collective, Rooted, Joint
<1>2. QED
  BY <1>1 DEF Weight

\* Calls follow each other in the order of reports and, in a report, of stages.
LEMMA FollowsIsLater ==
  ASSUME NEW k, NEW p \in Place, NEW q \in Place, Follows(k, p, q), Sound(p), opt \in Option
  PROVE  Weight(p) < Weight(q)
<1>1. /\ p.gen \in Nat /\ p.print \in 0 .. 2
      /\ q.gen \in Nat /\ q.print \in 0 .. 2
      /\ opt.publishes \in {1, 2}
  BY DEF Place, Option
<1>2. p.op \in {"coll", "pt2pt", "publish"} => p.print \in {1, 2}
  BY DEF Sound
<1>3. /\ AfterPt2pt = "publish"
      /\ AfterColl \in {"pt2pt", "publish"}
      /\ AfterMerge \in {"coll", "pt2pt", "publish"}
  BY DEF AfterPt2pt, AfterColl, AfterMerge
<1>4. q.op = "basics" /\ q.gen = p.gen + 1 => Weight(p) < Weight(q)
  <2>1. Weight(p) <= 12 * p.gen + 10 /\ 12 * q.gen + 1 <= Weight(q)
    BY WeightType
  <2>2. Weight(p) \in Int /\ Weight(q) \in Int
    BY WeightType
  <2>3. QED
    BY <1>1, <2>1, <2>2
<1>5. CASE p.op \in {"basics", "hosts", "count", "max"}
  BY <1>1, <1>4, <1>5 DEF Follows, Weight
<1>6. CASE p.op = "status"
  BY <1>1, <1>3, <1>4, <1>6 DEF Follows, Weight
<1>7. CASE p.op \in {"coll", "pt2pt", "publish"}
  BY <1>1, <1>2, <1>3, <1>4, <1>7 DEF Follows, Weight
<1>8. QED
  BY <1>5, <1>6, <1>7 DEF Place, Collective, Rooted, Joint

\* Every place has one behind it.
LEMMA FollowsIsTotal ==
  ASSUME NEW k, NEW p \in Place, Sound(p), opt \in Option
  PROVE  \E q \in Place : Follows(k, p, q)
<1>1. /\ p.gen \in Nat /\ p.print \in 0 .. 2 /\ p.some \in BOOLEAN
      /\ opt.publishes \in {1, 2}
  BY DEF Place, Option
<1> DEFINE to(op, g, n, b) == [op |-> op, gen |-> g, print |-> n, some |-> b]
<1>3. /\ "publish" \in Collective /\ "basics" \in Collective /\ "hosts" \in Collective
      /\ "count" \in Collective /\ "max" \in Collective /\ "status" \in Collective
      /\ AfterPt2pt \in Collective /\ AfterColl \in Collective /\ AfterMerge \in Collective
  BY DEF Collective, Rooted, Joint, AfterPt2pt, AfterColl, AfterMerge
<1>4. p.gen + 1 \in Nat
  BY <1>1
<1>5. CASE p.op = "basics"
  <2>1. CASE HostNames[p.gen]
    <3>1. to("hosts", p.gen, 0, FALSE) \in Place
      BY <1>1, <1>3, <1>4, <1>5, <2>1 DEF Place
    <3>2. Follows(k, p, to("hosts", p.gen, 0, FALSE))
      BY <1>1, <1>3, <1>4, <1>5, <2>1 DEF Follows
    <3>3. QED
      BY <3>1, <3>2
  <2>2. CASE ~HostNames[p.gen]
    <3>1. to("count", p.gen, 0, FALSE) \in Place
      BY <1>1, <1>3, <1>4, <1>5, <2>2 DEF Place
    <3>2. Follows(k, p, to("count", p.gen, 0, FALSE))
      BY <1>1, <1>3, <1>4, <1>5, <2>2 DEF Follows
    <3>3. QED
      BY <3>1, <3>2
  <2>3. QED
    BY <2>1, <2>2
<1>6. CASE p.op = "hosts"
  <2>1. to("count", p.gen, 0, FALSE) \in Place
    BY <1>1, <1>3, <1>4, <1>6 DEF Place
  <2>2. Follows(k, p, to("count", p.gen, 0, FALSE))
    BY <1>1, <1>3, <1>4, <1>6 DEF Follows
  <2>3. QED
    BY <2>1, <2>2
<1>7. CASE p.op = "count"
  <2>1. CASE NonZero(k)
    <3>1. to("max", p.gen, 0, TRUE) \in Place
      BY <1>1, <1>3, <1>4, <1>7, <2>1 DEF Place
    <3>2. Follows(k, p, to("max", p.gen, 0, TRUE))
      BY <1>1, <1>3, <1>4, <1>7, <2>1 DEF Follows
    <3>3. QED
      BY <3>1, <3>2
  <2>2. CASE ~NonZero(k)
    <3>1. to("max", p.gen, 0, FALSE) \in Place
      BY <1>1, <1>3, <1>4, <1>7, <2>2 DEF Place
    <3>2. Follows(k, p, to("max", p.gen, 0, FALSE))
      BY <1>1, <1>3, <1>4, <1>7, <2>2 DEF Follows
    <3>3. QED
      BY <3>1, <3>2
  <2>3. QED
    BY <2>1, <2>2
<1>8. CASE p.op = "max"
  <2>1. CASE p.some
    <3>1. to("status", p.gen, 0, TRUE) \in Place
      BY <1>1, <1>3, <1>4, <1>8, <2>1 DEF Place
    <3>2. Follows(k, p, to("status", p.gen, 0, TRUE))
      BY <1>1, <1>3, <1>4, <1>8, <2>1 DEF Follows
    <3>3. QED
      BY <3>1, <3>2
  <2>2. CASE ~p.some
    <3>1. to("basics", p.gen + 1, 0, FALSE) \in Place
      BY <1>1, <1>3, <1>4, <1>8, <2>2 DEF Place
    <3>2. Follows(k, p, to("basics", p.gen + 1, 0, FALSE))
      BY <1>1, <1>3, <1>4, <1>8, <2>2 DEF Follows
    <3>3. QED
      BY <3>1, <3>2
  <2>3. QED
    BY <2>1, <2>2
<1>9. CASE p.op = "status"
  <2>1. CASE AllOk(k)
    <3>1. to(AfterMerge, p.gen, opt.publishes, p.some) \in Place
      BY <1>1, <1>3, <1>4, <1>9, <2>1 DEF Place
    <3>2. Follows(k, p, to(AfterMerge, p.gen, opt.publishes, p.some))
      BY <1>1, <1>3, <1>4, <1>9, <2>1 DEF Follows
    <3>3. QED
      BY <3>1, <3>2
  <2>2. CASE ~AllOk(k)
    <3>1. to("basics", p.gen + 1, 0, FALSE) \in Place
      BY <1>1, <1>3, <1>4, <1>9, <2>2 DEF Place
    <3>2. Follows(k, p, to("basics", p.gen + 1, 0, FALSE))
      BY <1>1, <1>3, <1>4, <1>9, <2>2 DEF Follows
    <3>3. QED
      BY <3>1, <3>2
  <2>3. QED
    BY <2>1, <2>2
<1>10. CASE p.op = "coll"
  <2>1. to(AfterColl, p.gen, p.print, p.some) \in Place
    BY <1>1, <1>3, <1>4, <1>10 DEF Place
  <2>2. Follows(k, p, to(AfterColl, p.gen, p.print, p.some))
    BY <1>1, <1>3, <1>4, <1>10 DEF Follows
  <2>3. QED
    BY <2>1, <2>2
<1>11. CASE p.op = "pt2pt"
  <2>1. to(AfterPt2pt, p.gen, p.print, p.some) \in Place
    BY <1>1, <1>3, <1>4, <1>11 DEF Place
  <2>2. Follows(k, p, to(AfterPt2pt, p.gen, p.print, p.some))
    BY <1>1, <1>3, <1>4, <1>11 DEF Follows
  <2>3. QED
    BY <2>1, <2>2
<1>12. CASE p.op = "publish"
  <2>1. p.print \in {1, 2} /\ p.print - 1 \in 0 .. 2
    BY <1>1, <1>12 DEF Sound
  <2>2. CASE p.print = 2
    <3>1. to("publish", p.gen, p.print - 1, p.some) \in Place
      BY <1>1, <1>3, <1>4, <1>12, <2>2, <2>1 DEF Place
    <3>2. Follows(k, p, to("publish", p.gen, p.print - 1, p.some))
      BY <1>1, <1>3, <1>4, <1>12, <2>2, <2>1 DEF Follows
    <3>3. QED
      BY <3>1, <3>2
  <2>3. CASE p.print = 1
    <3>1. to("basics", p.gen + 1, 0, FALSE) \in Place
      BY <1>1, <1>3, <1>4, <1>12, <2>3, <2>1 DEF Place
    <3>2. Follows(k, p, to("basics", p.gen + 1, 0, FALSE))
      BY <1>1, <1>3, <1>4, <1>12, <2>3, <2>1 DEF Follows
    <3>3. QED
      BY <3>1, <3>2
  <2>4. QED
    BY <2>2, <2>3, <2>1
<1>13. QED
  BY <1>5, <1>6, <1>7, <1>8, <1>9, <1>10, <1>11, <1>12 DEF Place, Collective, Rooted, Joint

\* What a place says of its report holds of the place behind it, if all tasks made the
\* call of the first, where it is one they all wait in.
LEMMA FollowsIsSound ==
  ASSUME Typed, NEW k \in Nat, NEW p \in Place, NEW q \in Place, Follows(k, p, q), Sound(p),
         p.op \in Joint => \A s \in Rank : Len(calls[s]) >= k /\ Made(s, k, p)
  PROVE  Sound(q)
<1>1. /\ p.gen \in Nat /\ q.gen \in Nat /\ p.print \in 0 .. 2 /\ p.some \in BOOLEAN
      /\ q.some \in BOOLEAN
      /\ opt.publishes \in {1, 2}
  BY DEF Place, Option, Typed, TypeOK
<1>2. p.gen >= 1 /\ q.gen >= 1
  BY <1>1 DEF Sound, Follows
<1>3. /\ AfterPt2pt = "publish"
      /\ AfterColl \in {"pt2pt", "publish"}
      /\ AfterMerge \in {"coll", "pt2pt", "publish"}
  BY DEF AfterPt2pt, AfterColl, AfterMerge
<1>4. CASE q.op \in {"basics", "hosts", "count"}
  BY <1>2, <1>4 DEF Sound
<1>5. CASE q.op = "max"
  <2>1. /\ p.op = "count" /\ q.gen = p.gen
        /\ q.some <=> NonZero(k)
    BY <1>3, <1>5 DEF Follows
  <2>2. \A s \in Rank : p.gen <= Len(snaps[s]) /\ calls[s][k].val = snaps[s][p.gen]
    BY <2>1 DEF Made, Joint
  <2>3. NonZero(k) <=> \E s \in Rank : snaps[s][p.gen] > 0
    BY <2>2 DEF NonZero
  <2>4. QED
    BY <1>2, <1>5, <2>1, <2>2, <2>3 DEF Sound
<1>6. CASE q.op \in {"status", "coll", "pt2pt", "publish"}
  <2>1. /\ p.op \in {"max", "status", "coll", "pt2pt", "publish"}
        /\ q.gen = p.gen /\ q.some = TRUE /\ p.some = TRUE
    BY <1>1, <1>3, <1>6 DEF Follows, Sound
  <2>2. q.op \in {"coll", "pt2pt", "publish"} => q.print \in {1, 2}
    BY <1>1, <1>3, <1>6 DEF Follows, Sound
  <2>3. /\ \A s \in Rank : q.gen <= Len(snaps[s])
        /\ \E s \in Rank : snaps[s][q.gen] > 0
    BY <2>1 DEF Sound
  <2>4. QED
    BY <1>2, <1>6, <2>1, <2>2, <2>3 DEF Sound
<1>7. QED
  BY <1>4, <1>5, <1>6 DEF Place, Collective, Rooted, Joint
-----------------------------------------------------------------------------
(* What a step of a task does to the chain. *)

\* A step of task r changes nothing of where the others are, and no count is undone.
Bystanders(r) ==
  /\ opt' = opt
  /\ \A s \in Rank \ {r} :
       /\ pc'[s] = pc[s] /\ gen'[s] = gen[s] /\ some'[s] = some[s]
       /\ toPrint'[s] = toPrint[s] /\ inside'[s] = inside[s] /\ calls'[s] = calls[s]
  /\ \A s \in Rank : /\ Len(snaps[s]) <= Len(snaps'[s])
                     /\ \A i \in 1 .. Len(snaps[s]) : snaps'[s][i] = snaps[s][i]
  /\ Len(calls[r]) <= Len(calls'[r])
  /\ \A i \in 1 .. Len(calls[r]) : calls'[r][i] = calls[r][i]

\* What is so of a place and of a call stays so.
LEMMA Stays ==
  ASSUME Typed, Typed', NEW r \in Rank, Bystanders(r), NEW p \in Place, NEW k \in Nat
  PROVE  /\ Sound(p) => Sound(p)'
         /\ \A s \in Rank : k \in 1 .. Len(calls[s]) /\ p.gen >= 1 /\ Made(s, k, p) => Made(s, k, p)'
         /\ Entered(k) => Entered(k)'
         /\ (p.op \in Joint => Entered(k)) /\ k >= 1 =>
              \A q \in Place : Follows(k, p, q) => Follows(k, p, q)'
         /\ \A s \in Rank \ {r} : At(s, p) => At(s, p)'
<1>1. /\ p.gen \in Nat
      /\ \A s \in Rank : Len(calls[s]) \in Nat /\ Len(snaps[s]) \in Nat
      /\ \A s \in Rank : Len(calls'[s]) \in Nat /\ Len(snaps'[s]) \in Nat
  <2>1. \A s \in Rank : Len(calls[s]) \in Nat /\ Len(snaps[s]) \in Nat
    BY Lengths
  <2>2. \A s \in Rank : calls'[s] \in Seq([op : Rooted \cup Joint, val : Nat])
                        /\ snaps'[s] \in Seq(0 .. MaxRecords)
    BY DEF Typed, TypeOK
  <2>3. \A s \in Rank : Len(calls'[s]) \in Nat /\ Len(snaps'[s]) \in Nat
    BY <2>2
  <2>4. QED
    BY <2>1, <2>3 DEF Place
<1>2. \A s \in Rank : /\ Len(calls[s]) <= Len(calls'[s])
                      /\ \A i \in 1 .. Len(calls[s]) : calls'[s][i] = calls[s][i]
  BY <1>1 DEF Bystanders
<1>3. ASSUME Sound(p) PROVE Sound(p)'
  <2>1. p.gen >= 1
    BY <1>3 DEF Sound
  <2>2. CASE p.op \notin {"basics", "hosts", "count"}
    <3>1. \A s \in Rank : p.gen <= Len(snaps[s])
      BY <1>3, <2>2 DEF Sound
    <3>2. \A s \in Rank : p.gen <= Len(snaps'[s]) /\ snaps'[s][p.gen] = snaps[s][p.gen]
      BY <1>1, <2>1, <3>1 DEF Bystanders
    <3>3. QED
      BY <1>3, <3>2 DEF Sound
  <2>3. CASE p.op \in {"basics", "hosts", "count"}
    BY <1>3, <2>3 DEF Sound
  <2>4. QED
    BY <2>2, <2>3
<1>4. ASSUME NEW s \in Rank, k \in 1 .. Len(calls[s]), Made(s, k, p), p.gen >= 1
      PROVE  Made(s, k, p)'
  <2>1. calls'[s][k] = calls[s][k]
    BY <1>2, <1>4
  <2>2. p.gen <= Len(snaps[s]) => p.gen <= Len(snaps'[s]) /\ snaps'[s][p.gen] = snaps[s][p.gen]
    BY <1>1, <1>4 DEF Bystanders
  <2>3. QED
    BY <1>4, <2>1, <2>2 DEF Made
<1>5. Entered(k) => Entered(k)'
  BY <1>1, <1>2 DEF Entered
<1>6. ASSUME p.op \in Joint => Entered(k), k >= 1, NEW q \in Place, Follows(k, p, q)
      PROVE  Follows(k, p, q)'
  <2>1. opt' = opt
    BY DEF Bystanders
  <2>2. /\ AfterPt2pt' = AfterPt2pt /\ AfterColl' = AfterColl /\ AfterMerge' = AfterMerge
    BY <2>1 DEF AfterPt2pt, AfterColl, AfterMerge
  <2>3. CASE p.op \in Joint
    <3>1. \A s \in Rank : calls'[s][k] = calls[s][k]
      BY <1>1, <1>2, <1>6, <2>3 DEF Entered
    <3>2. (NonZero(k)' <=> NonZero(k)) /\ (AllOk(k)' <=> AllOk(k))
      BY <3>1 DEF NonZero, AllOk
    <3>3. QED
      BY <1>6, <2>1, <2>2, <3>2 DEF Follows
  <2>4. CASE p.op \notin Joint
    BY <1>6, <2>1, <2>2, <2>4 DEF Follows, Joint
  <2>5. QED
    BY <2>3, <2>4
<1>7. ASSUME NEW s \in Rank \ {r}, At(s, p) PROVE At(s, p)'
  BY <1>7 DEF At, Bystanders
<1>8. QED
  BY <1>3, <1>4, <1>5, <1>6, <1>7
\* The chain up to where a task is, and the calls it has made, are as before.
LEMMA Past ==
  ASSUME Typed, Typed', NEW c, c \in [Nat -> Place], NEW r \in Rank, Bystanders(r),
         NEW s \in Rank, Along(s, c)
  PROVE  /\ \A k \in 1 .. Pos(s) : Sound(c[k])' /\ \A j \in 1 .. k - 1 : Weight(c[j]) < Weight(c[k])
         /\ \A k \in 1 .. Pos(s) - 1 :
              /\ Follows(k, c[k], c[k + 1])'
              /\ c[k].op \in Joint => Entered(k)'
         /\ \A k \in 1 .. Len(calls[s]) : Made(s, k, c[k])'
<1>1. /\ Len(calls[s]) \in Nat /\ Pos(s) \in Nat
      /\ \A k \in Nat : c[k] \in Place
  BY Lengths
<1>2. ASSUME NEW k \in 1 .. Pos(s)
      PROVE  Sound(c[k])' /\ \A j \in 1 .. k - 1 : Weight(c[j]) < Weight(c[k])
  <2>1. c[k] \in Place /\ k \in Nat
    BY <1>1
  <2>2. Sound(c[k]) /\ \A j \in 1 .. k - 1 : Weight(c[j]) < Weight(c[k])
    BY DEF Along
  <2>3. Sound(c[k])'
    BY <2>1, <2>2, Stays
  <2>4. QED
    BY <2>2, <2>3
<1>3. ASSUME NEW k \in 1 .. Pos(s) - 1
      PROVE  Follows(k, c[k], c[k + 1])' /\ (c[k].op \in Joint => Entered(k)')
  <2>1. c[k] \in Place /\ c[k + 1] \in Place /\ k \in Nat /\ k >= 1
    BY <1>1
  <2>2. Follows(k, c[k], c[k + 1]) /\ (c[k].op \in Joint => Entered(k))
    BY DEF Along
  <2>3. Follows(k, c[k], c[k + 1])'
    BY <2>1, <2>2, Stays
  <2>4. Entered(k) => Entered(k)'
    BY <2>1, Stays
  <2>5. QED
    BY <2>2, <2>3, <2>4
<1>4. ASSUME NEW k \in 1 .. Len(calls[s]) PROVE Made(s, k, c[k])'
  <2>1. Made(s, k, c[k]) /\ k \in 1 .. Pos(s) /\ k \in Nat
    BY <1>1 DEF Along, Pos
  <2>2. c[k] \in Place /\ c[k].gen >= 1
    BY <1>1, <2>1 DEF Along, Sound
  <2>3. QED
    BY <2>1, <2>2, Stays
<1>5. QED
  BY <1>2, <1>3, <1>4

\* A task that did not step is still along the chain.
LEMMA OthersAlong ==
  ASSUME Typed, Typed', NEW c, c \in [Nat -> Place], NEW r \in Rank, Bystanders(r),
         NEW s \in Rank \ {r}, Along(s, c)
  PROVE  Along(s, c)'
<1>1. Pos(s) \in Nat /\ \A k \in Nat : c[k] \in Place
  BY Lengths
<1>2. Len(calls[s])' = Len(calls[s]) /\ Pos(s)' = Pos(s) /\ Pos(s) >= 1
  BY DEF Pos, Along, Bystanders
<1>3. At(s, c[Pos(s)])'
  <2>1. PICK k \in Nat : k = Pos(s)
    BY <1>1
  <2>2. At(s, c[k]) /\ c[k] \in Place
    BY <1>1, <2>1 DEF Along
  <2>3. At(s, c[k])'
    BY <2>2, Stays
  <2>4. QED
    BY <1>2, <2>1, <2>3
<1>4. QED
  BY <1>2, <1>3, Past DEF Along

\* A step between two calls, or within one.
LEMMA SilentStep ==
  ASSUME Typed, Typed', NEW c, Chain(c), NEW r \in Rank, Bystanders(r),
         calls' = calls, inside' = inside, NEW n \in Nat, n = Pos(r), At(r, c[n])'
  PROVE  Chain(c)'
<1>1. c \in [Nat -> Place] /\ c[1].op = "basics" /\ c[1].gen = 1
  BY DEF Chain
<1>2. Len(calls[r])' = Len(calls[r]) /\ Pos(r)' = Pos(r) /\ Pos(r) >= 1
  BY DEF Pos, Chain, Along
<1>3. Along(r, c)
  BY DEF Chain
<1>4. Along(r, c)'
  BY <1>1, <1>2, <1>3, Past DEF Along
<1>5. \A s \in Rank \ {r} : Along(s, c)'
  BY <1>1, OthersAlong DEF Chain
<1>6. QED
  BY <1>1, <1>4, <1>5 DEF Chain

\* A task enters a call.
LEMMA EnterStep ==
  ASSUME Typed, Typed', NEW c, Chain(c), NEW r \in Rank, Bystanders(r), NEW v, Enter(r, v),
         NEW n \in Nat, n = Pos(r), At(r, c[n])', Made(r, n, c[n])'
  PROVE  Chain(c)'
<1>1. c \in [Nat -> Place] /\ c[1].op = "basics" /\ c[1].gen = 1
  BY DEF Chain
<1>2. calls[r] \in Seq([op : Rooted \cup Joint, val : Nat]) /\ Len(calls[r]) \in Nat
  BY Lengths DEF Typed, TypeOK
<1>3. calls'[r] = Append(calls[r], [op |-> pc[r], val |-> v]) /\ inside'[r] = TRUE /\ ~inside[r]
  BY DEF Enter, Typed, TypeOK
<1>4. Len(calls'[r]) = Len(calls[r]) + 1
  BY <1>2, <1>3
<1>5. n = Len(calls[r]) + 1 /\ Pos(r)' = n
  BY <1>3, <1>4 DEF Pos
<1>6. Along(r, c)
  BY DEF Chain
<1>7. \A k \in 1 .. Len(calls'[r]) : Made(r, k, c[k])'
  <2>1. \A k \in 1 .. Len(calls[r]) : Made(r, k, c[k])'
    BY <1>1, <1>6, Past
  <2>2. Made(r, n, c[n])'
    OBVIOUS
  <2>3. \A k \in 1 .. Len(calls'[r]) : k \in 1 .. Len(calls[r]) \/ k = n
    BY <1>2, <1>4, <1>5
  <2>4. QED
    BY <2>1, <2>2, <2>3
<1>8. Along(r, c)'
  BY <1>1, <1>2, <1>5, <1>6, <1>7, Past DEF Along
<1>9. \A s \in Rank \ {r} : Along(s, c)'
  BY <1>1, OthersAlong DEF Chain
<1>10. QED
  BY <1>1, <1>8, <1>9 DEF Chain
\* A task that leaves a call has been in the place the chain has for it, with all others
\* if the call is one they wait in.
LEMMA LeavingFrom ==
  ASSUME Typed, NEW c, Chain(c), NEW r \in Rank, NEW to, Leave(r, to)
  PROVE  /\ Pos(r) = Len(calls[r]) /\ Pos(r) \in Nat /\ Pos(r) >= 1
         /\ c[Pos(r)] \in Place /\ Sound(c[Pos(r)]) /\ At(r, c[Pos(r)])
         /\ c[Pos(r)].op = pc[r] /\ c[Pos(r)].gen = gen[r]
         /\ c[Pos(r)].op \in Joint =>
              \A s \in Rank : Len(calls[s]) >= Pos(r) /\ Made(s, Pos(r), c[Pos(r)])
<1>1. inside[r] /\ (AllEntered(r) \/ (pc[r] \in Rooted /\ r # Collector))
  BY DEF Leave
<1>2. Along(r, c) /\ c \in [Nat -> Place]
  BY DEF Chain
<1>3. Pos(r) = Len(calls[r]) /\ Pos(r) \in Nat /\ Pos(r) >= 1
  BY <1>1, <1>2, Lengths DEF Pos, Along
<1>4. c[Pos(r)] \in Place /\ Sound(c[Pos(r)]) /\ At(r, c[Pos(r)])
  BY <1>2, <1>3 DEF Along
<1>5. c[Pos(r)].op = pc[r] /\ c[Pos(r)].gen = gen[r]
  BY <1>1, <1>4 DEF At, Next_op
<1>6. ASSUME c[Pos(r)].op \in Joint, NEW s \in Rank
      PROVE  Len(calls[s]) >= Pos(r) /\ Made(s, Pos(r), c[Pos(r)])
  <2>1. Len(calls[s]) >= Pos(r)
    BY <1>1, <1>3, <1>5, <1>6 DEF AllEntered, Rooted, Joint
  <2>2. Along(s, c) /\ Len(calls[s]) \in Nat
    BY Lengths DEF Chain
  <2>3. QED
    BY <1>3, <2>1, <2>2 DEF Along
<1>7. QED
  BY <1>3, <1>4, <1>5, <1>6

\* It goes to the next place, if the chain has one.
LEMMA LeaveTo ==
  ASSUME Typed, Typed', NEW c, Chain(c), NEW r \in Rank, Bystanders(r), NEW to, Leave(r, to),
         NEW n \in Nat, n = Pos(r), Follows(n, c[n], c[n + 1]), Sound(c[n + 1]),
         \A j \in 1 .. n : Weight(c[j]) < Weight(c[n + 1]), At(r, c[n + 1])'
  PROVE  Chain(c)'
<1>1. c \in [Nat -> Place] /\ c[1].op = "basics" /\ c[1].gen = 1 /\ Along(r, c)
  BY DEF Chain
<1>2. /\ n = Len(calls[r]) /\ n >= 1
      /\ c[n].op \in Joint => Entered(n)
  BY LeavingFrom DEF Entered
<1>3. calls' = calls /\ inside'[r] = FALSE
  BY DEF Leave, Typed, TypeOK
<1>4. Pos(r)' = n + 1
  BY <1>2, <1>3 DEF Pos
<1>5. c[n] \in Place /\ c[n + 1] \in Place
  BY <1>1
<1>6. \A k \in 1 .. n + 1 : Sound(c[k])' /\ \A j \in 1 .. k - 1 : Weight(c[j]) < Weight(c[k])
  <2>1. \A k \in 1 .. n : Sound(c[k])' /\ \A j \in 1 .. k - 1 : Weight(c[j]) < Weight(c[k])
    BY <1>1, Past
  <2>2. Sound(c[n + 1])'
    BY <1>5, Stays
  <2>3. \A k \in 1 .. n + 1 : k \in 1 .. n \/ k = n + 1
    OBVIOUS
  <2>4. \A j \in 1 .. (n + 1) - 1 : Weight(c[j]) < Weight(c[n + 1])
    OBVIOUS
  <2>5. QED
    BY <2>1, <2>2, <2>3, <2>4
<1>7. \A k \in 1 .. n : Follows(k, c[k], c[k + 1])' /\ (c[k].op \in Joint => Entered(k)')
  <2>1. \A k \in 1 .. n - 1 : Follows(k, c[k], c[k + 1])' /\ (c[k].op \in Joint => Entered(k)')
    BY <1>1, Past
  <2>2. Follows(n, c[n], c[n + 1])' /\ (c[n].op \in Joint => Entered(n)')
    BY <1>2, <1>5, Stays
  <2>3. \A k \in 1 .. n : k \in 1 .. n - 1 \/ k = n
    OBVIOUS
  <2>4. QED
    BY <2>1, <2>2, <2>3
<1>8. \A k \in 1 .. Len(calls'[r]) : Made(r, k, c[k])'
  BY <1>1, <1>3, Past
<1>9. Along(r, c)'
  BY <1>4, <1>6, <1>7, <1>8 DEF Along
<1>10. \A s \in Rank \ {r} : Along(s, c)'
  BY <1>1, OthersAlong DEF Chain
<1>11. QED
  BY <1>1, <1>9, <1>10 DEF Chain

\* If it has none, it can be made longer by one.
LEMMA Lengthened ==
  ASSUME Typed, NEW c, Chain(c), NEW n \in Nat, n >= 1, NEW q \in Place,
         \A s \in Rank : Pos(s) <= n
  PROVE  Chain([c EXCEPT ![n + 1] = q])
<1> DEFINE d == [c EXCEPT ![n + 1] = q]
<1>1. c \in [Nat -> Place] /\ c[1].op = "basics" /\ c[1].gen = 1
  BY DEF Chain
<1>2. d \in [Nat -> Place] /\ \A k \in 1 .. n : d[k] = c[k]
  BY <1>1
<1> HIDE DEF d
<1>3. d[1].op = "basics" /\ d[1].gen = 1
  BY <1>1, <1>2
<1>4. ASSUME NEW s \in Rank PROVE Along(s, d)
  <2>1. Along(s, c) /\ Pos(s) <= n /\ Pos(s) \in Nat /\ Len(calls[s]) \in Nat
        /\ Len(calls[s]) <= Pos(s) /\ Pos(s) >= 1
    BY Lengths DEF Chain, Pos, Along
  <2>2. \A k \in 1 .. Pos(s) : d[k] = c[k]
    BY <1>2, <2>1
  <2>3. \A k \in 1 .. Pos(s) - 1 : d[k] = c[k] /\ d[k + 1] = c[k + 1]
    BY <2>1, <2>2
  <2>4. \A k \in 1 .. Len(calls[s]) : d[k] = c[k]
    BY <2>1, <2>2
  <2>5. \A k \in 1 .. Pos(s) : Sound(d[k]) /\ \A j \in 1 .. k - 1 : Weight(d[j]) < Weight(d[k])
    BY <2>1, <2>2 DEF Along
  <2>6. \A k \in 1 .. Pos(s) - 1 : Follows(k, d[k], d[k + 1]) /\ (d[k].op \in Joint => Entered(k))
    BY <2>1, <2>3 DEF Along
  <2>7. \A k \in 1 .. Len(calls[s]) : Made(s, k, d[k])
    BY <2>1, <2>4 DEF Along
  <2>8. At(s, d[Pos(s)])
    BY <2>1, <2>2 DEF Along
  <2>9. QED
    BY <2>1, <2>5, <2>6, <2>7, <2>8 DEF Along
<1>5. Chain(d)
  BY <1>2, <1>3, <1>4 DEF Chain
<1>6. QED
  BY <1>5 DEF d

\* A task leaves a call.
LEMMA LeaveStep ==
  ASSUME Typed, Typed', NEW c, Chain(c), NEW r \in Rank, Bystanders(r), NEW to, Leave(r, to),
         NEW n \in Nat, n = Pos(r),
         \A q \in Place : Follows(n, c[n], q) /\ Sound(q) => At(r, q)'
  PROVE  \E d : Chain(d)'
<1>1. c \in [Nat -> Place]
  BY DEF Chain
<1>2. /\ n = Len(calls[r]) /\ n >= 1
      /\ c[n] \in Place /\ Sound(c[n])
      /\ c[n].op \in Joint => \A s \in Rank : Len(calls[s]) >= n /\ Made(s, n, c[n])
  BY LeavingFrom
<1>3. \A s \in Rank : Pos(s) \in Nat
  BY Lengths
<1>4. \A j \in 1 .. n : \A k \in 1 .. j - 1 : Weight(c[k]) < Weight(c[j])
  BY DEF Chain, Along
<1>5. CASE \E s \in Rank : Pos(s) > n
  <2>1. PICK s \in Rank : Pos(s) > n
    BY <1>5
  <2>2. Along(s, c) /\ n \in 1 .. Pos(s) - 1 /\ n + 1 \in 1 .. Pos(s)
    BY <1>2, <1>3, <2>1 DEF Chain
  <2>3. Follows(n, c[n], c[n + 1]) /\ Sound(c[n + 1])
    BY <2>2 DEF Along
  <2>4. \A j \in 1 .. n : Weight(c[j]) < Weight(c[n + 1])
    BY <2>2 DEF Along
  <2>5. At(r, c[n + 1])'
    BY <1>1, <2>3
  <2>6. Chain(c)'
    BY <2>3, <2>4, <2>5, LeaveTo
  <2>7. QED
    BY <2>6
<1>6. CASE \A s \in Rank : Pos(s) <= n
  <2>1. PICK q \in Place : Follows(n, c[n], q)
    BY <1>2, FollowsIsTotal DEF Typed, TypeOK
  <2>2. Sound(q)
    BY <1>2, <2>1, FollowsIsSound
  <2>3. Weight(c[n]) < Weight(q)
    BY <1>2, <2>1, FollowsIsLater DEF Typed, TypeOK
  <2>4. At(r, q)'
    BY <2>1, <2>2
  <2>5. PICK d : d = [c EXCEPT ![n + 1] = q]
    OBVIOUS
  <2>6. Chain(d)
    BY <1>2, <1>6, <2>5, Lengthened
  <2>7. d[n + 1] = q /\ \A j \in 1 .. n : d[j] = c[j]
    BY <1>1, <2>5
  <2>8. Follows(n, d[n], d[n + 1]) /\ Sound(d[n + 1])
    BY <1>2, <2>1, <2>2, <2>7
  <2>9. \A j \in 1 .. n : Weight(d[j]) < Weight(d[n + 1])
    <3>1. ASSUME NEW j \in 1 .. n PROVE Weight(c[j]) < Weight(q)
      <4>1. j = n \/ Weight(c[j]) < Weight(c[n])
        BY <1>2, <1>4
      <4>2. Weight(c[j]) \in Int /\ Weight(c[n]) \in Int /\ Weight(q) \in Int
        BY <1>1, WeightType
      <4>3. QED
        BY <2>3, <4>1, <4>2
    <3>2. QED
      BY <2>7, <3>1
  <2>10. At(r, d[n + 1])'
    BY <2>4, <2>7
  <2>11. Chain(d)'
    BY <2>6, <2>8, <2>9, <2>10, LeaveTo
  <2>12. QED
    BY <2>11
<1>7. QED
  BY <1>3, <1>5, <1>6
-----------------------------------------------------------------------------
(* What the chain says of the tasks. *)

StageNumber(st) ==
  CASE st \in {"run", "basics"} -> 1
    [] st = "hosts" -> 2
    [] st = "count" -> 3
    [] st = "max"   -> 4
    [] st \in {"alloc", "recv", "send", "sending", "status"} -> 5
    [] st = "coll"  -> 6
    [] st = "pt2pt" -> 7
    [] st = "publish" -> 8

\* How far task r is, between calls towards the next one.
Level(r) ==
  12 * (IF pc[r] = "run" THEN gen[r] + 1 ELSE gen[r]) + StageNumber(pc[r])

Behind == {"max", "alloc", "recv", "send", "sending", "status", "coll", "pt2pt", "publish"}

\* Where the chain has a task: its place fits its stage, and its level is the weight of
\* the place, but for the copies of a report already written.
LEMMA Where ==
  ASSUME Typed, NEW c, Chain(c), NEW r \in Rank
  PROVE  /\ Pos(r) \in Nat /\ Pos(r) >= 1 /\ Len(calls[r]) \in Nat
         /\ inside[r] => Len(calls[r]) = Pos(r)
         /\ ~inside[r] => Len(calls[r]) = Pos(r) - 1
         /\ c[Pos(r)] \in Place /\ Sound(c[Pos(r)]) /\ At(r, c[Pos(r)])
         /\ pc[r] \in {"run", "basics", "hosts", "count", "coll", "pt2pt"} \cup Behind
         /\ gen[r] \in Nat
         /\ Weight(c[Pos(r)]) \in Int /\ Level(r) \in Int
         /\ Level(r) <= Weight(c[Pos(r)]) /\ Weight(c[Pos(r)]) <= Level(r) + 1
         /\ pc[r] # "publish" => Weight(c[Pos(r)]) = Level(r)
<1>1. Along(r, c) /\ c \in [Nat -> Place]
  BY DEF Chain
<1>2. Pos(r) \in Nat /\ Pos(r) >= 1 /\ Len(calls[r]) \in Nat
  BY <1>1, Lengths DEF Along
<1>3. c[Pos(r)] \in Place /\ Sound(c[Pos(r)]) /\ At(r, c[Pos(r)])
  BY <1>1, <1>2 DEF Along
<1>4. pc[r] \in {"run", "basics", "hosts", "count", "coll", "pt2pt"} \cup Behind
      /\ gen[r] \in Nat /\ toPrint[r] \in 0 .. 2
  BY ReportAssumption DEF Typed, TypeOK, Stage, Rooted, Joint, Behind
<1> DEFINE p == c[Pos(r)]
<1>5. p.print \in 0 .. 2 /\ p.gen \in Nat
  BY <1>3 DEF Place
<1>6. /\ p.op = Next_op(pc[r])
      /\ p.gen = IF pc[r] = "run" THEN gen[r] + 1 ELSE gen[r]
      /\ p.op \in {"coll", "pt2pt", "publish"} => p.print \in {1, 2}
  BY <1>3 DEF At, Sound
<1> HIDE DEF p
<1>7. /\ Weight(p) \in Int /\ Level(r) \in Int
      /\ Level(r) <= Weight(p) /\ Weight(p) <= Level(r) + 1
      /\ pc[r] # "publish" => Weight(p) = Level(r)
  <2>1. CASE pc[r] \in {"run", "basics", "hosts", "count", "max"}
    BY <1>4, <1>5, <1>6, <2>1 DEF Level, StageNumber, Weight, Next_op
  <2>2. CASE pc[r] \in {"alloc", "recv", "send", "sending", "status"}
    BY <1>4, <1>5, <1>6, <2>2 DEF Level, StageNumber, Weight, Next_op
  <2>3. CASE pc[r] \in {"coll", "pt2pt", "publish"}
    BY <1>4, <1>5, <1>6, <2>3 DEF Level, StageNumber, Weight, Next_op
  <2>4. QED
    BY <1>4, <2>1, <2>2, <2>3 DEF Behind
<1>8. QED
  BY <1>2, <1>3, <1>4, <1>7 DEF p, Pos

\* Of two tasks the one further along the chain has the greater weight.
LEMMA Further ==
  ASSUME Typed, NEW c, Chain(c), NEW r \in Rank, NEW s \in Rank
  PROVE  /\ Pos(r) <= Pos(s) => Weight(c[Pos(r)]) <= Weight(c[Pos(s)])
         /\ Weight(c[Pos(r)]) = Weight(c[Pos(s)]) => Pos(r) = Pos(s)
<1>1. /\ Pos(r) \in Nat /\ Pos(s) \in Nat /\ Pos(r) >= 1 /\ Pos(s) >= 1
      /\ Weight(c[Pos(r)]) \in Int /\ Weight(c[Pos(s)]) \in Int
  BY Where
<1>2. Pos(r) < Pos(s) => Weight(c[Pos(r)]) < Weight(c[Pos(s)])
  BY <1>1 DEF Chain, Along
<1>3. Pos(s) < Pos(r) => Weight(c[Pos(s)]) < Weight(c[Pos(r)])
  BY <1>1 DEF Chain, Along
<1>4. QED
  BY <1>1, <1>2, <1>3

\* Nobody is beyond a call that all wait in and that one task has not made.
LEMMA NobodyBeyond ==
  ASSUME Typed, NEW c, Chain(c), NEW r \in Rank, NEW s \in Rank, ~inside[r],
         pc[r] \in {"count", "alloc", "recv", "send", "sending", "status"}
  PROVE  Level(s) <= Level(r)
<1>1. c[Pos(r)].op \in Joint
  BY Where DEF At, Next_op, Joint
<1>2. Pos(s) <= Pos(r)
  <2>1. SUFFICES ASSUME Pos(s) > Pos(r) PROVE FALSE
    BY Where
  <2>2. Pos(r) \in 1 .. Pos(s) - 1
    BY <2>1, Where
  <2>3. Entered(Pos(r))
    BY <1>1, <2>2 DEF Chain, Along
  <2>4. QED
    BY <2>3, Where DEF Entered
<1>3. Weight(c[Pos(s)]) <= Weight(c[Pos(r)])
  BY <1>2, Further
<1>4. /\ Weight(c[Pos(s)]) \in Int /\ Level(s) \in Int /\ Level(s) <= Weight(c[Pos(s)])
      /\ Weight(c[Pos(r)]) = Level(r) /\ Level(r) \in Int
  BY Where
<1>5. QED
  BY <1>3, <1>4

\* Whoever leaves such a call leaves no one behind.
LEMMA NobodyBefore ==
  ASSUME Typed, NEW c, Chain(c), NEW r \in Rank, NEW s \in Rank, NEW to, Leave(r, to),
         pc[r] \in {"count", "status"}
  PROVE  Level(r) <= Level(s) /\ (Level(r) = Level(s) => inside[s])
<1>1. /\ Pos(r) = Len(calls[r])
      /\ Len(calls[s]) >= Pos(r)
  BY LeavingFrom DEF Joint
<1>2. Pos(r) <= Pos(s)
  BY <1>1, Where
<1>3. Weight(c[Pos(r)]) <= Weight(c[Pos(s)])
  BY <1>2, Further
<1>4. Weight(c[Pos(r)]) = Level(r)
  BY Where
<1>5. Level(r) <= Level(s)
  <2>1. CASE pc[s] # "publish"
    BY <1>3, <1>4, <2>1, Where
  <2>2. CASE pc[s] = "publish"
    <3>1. Level(s) = 12 * gen[s] + 8
      BY <2>2 DEF Level, StageNumber
    <3>2. Level(r) = 12 * gen[r] + 3 \/ Level(r) = 12 * gen[r] + 5
      BY DEF Level, StageNumber
    <3>3. gen[r] \in Nat /\ gen[s] \in Nat /\ Weight(c[Pos(s)]) \in Int
          /\ Weight(c[Pos(s)]) <= Level(s) + 1
      BY Where
    <3>4. QED
      BY <1>3, <1>4, <3>1, <3>2, <3>3
  <2>3. QED
    BY <2>1, <2>2
<1>6. ASSUME Level(r) = Level(s) PROVE inside[s]
  <2>1. pc[s] # "publish"
    <3>1. SUFFICES ASSUME pc[s] = "publish" PROVE FALSE
      OBVIOUS
    <3>2. Level(s) = 12 * gen[s] + 8
      BY <3>1 DEF Level, StageNumber
    <3>3. Level(r) = 12 * gen[r] + 3 \/ Level(r) = 12 * gen[r] + 5
      BY DEF Level, StageNumber
    <3>4. gen[r] \in Nat /\ gen[s] \in Nat
      BY Where
    <3>5. QED
      BY <1>6, <3>2, <3>3, <3>4
  <2>2. Weight(c[Pos(s)]) = Level(s)
    BY <2>1, Where
  <2>3. Pos(r) = Pos(s)
    BY <1>4, <1>6, <2>2, Further
  <2>4. QED
    BY <1>1, <2>3, Where
<1>7. QED
  BY <1>5, <1>6

\* A task behind its count knows that all have counted, and whether there are records.
LEMMA AllCounted ==
  ASSUME Typed, NEW c, Chain(c), NEW r \in Rank, pc[r] \in Behind
  PROVE  /\ gen[r] >= 1
         /\ \A s \in Rank : gen[r] <= Len(snaps[s])
         /\ pc[r] # "max" => \E s \in Rank : snaps[s][gen[r]] > 0
         /\ pc[r] = "max" => (some[r] <=> \E s \in Rank : snaps[s][gen[r]] > 0)
<1> DEFINE p == c[Pos(r)]
<1>1. p \in Place /\ Sound(p) /\ At(r, p)
  BY Where
<1>2. p.gen = gen[r] /\ p.op = Next_op(pc[r]) /\ (pc[r] = "max" => (some[r] <=> p.some))
  BY <1>1 DEF At, Behind
<1>3. /\ p.op \in {"max", "status", "coll", "pt2pt", "publish"}
      /\ pc[r] # "max" => p.op # "max"
  BY <1>2 DEF Behind, Next_op
<1> HIDE DEF p
<1>4. QED
  BY <1>1, <1>2, <1>3 DEF Sound

\* Nobody is beyond the Allreduce of the results while a task has not sent its records.
LEMMA NotBeyondStatus ==
  ASSUME Typed, NEW c, Chain(c), NEW r \in Rank, NEW s \in Rank, pc[r] = "max", some[r]
  PROVE  Level(s) <= 12 * gen[r] + 5
<1> DEFINE n == Pos(r)
<1>1. /\ n \in Nat /\ n >= 1 /\ Len(calls[r]) <= n /\ Len(calls[r]) \in Nat
      /\ c[n].op = "max" /\ c[n].gen = gen[r] /\ (some[r] <=> c[n].some)
      /\ Weight(c[n]) = 12 * gen[r] + 4
  <2>1. At(r, c[n]) /\ Weight(c[n]) = Level(r) /\ n \in Nat /\ n >= 1 /\ Len(calls[r]) \in Nat
    BY Where
  <2>2. Len(calls[r]) <= n
    BY Where
  <2>3. c[n].op = "max" /\ c[n].gen = gen[r] /\ (some[r] <=> c[n].some)
    BY <2>1 DEF At, Next_op
  <2>4. Level(r) = 12 * gen[r] + 4
    BY DEF Level, StageNumber
  <2>5. QED
    BY <2>1, <2>2, <2>3, <2>4
<1>2. /\ Pos(s) \in Nat /\ Level(s) \in Int /\ Level(s) <= Weight(c[Pos(s)])
      /\ Weight(c[Pos(s)]) \in Int /\ gen[r] \in Nat
  BY Where
<1>3. CASE Pos(s) <= n
  <2>1. Weight(c[Pos(s)]) <= Weight(c[n])
    BY <1>3, Further
  <2>2. QED
    BY <1>1, <1>2, <2>1
<1>4. CASE Pos(s) = n + 1
  <2>1. Follows(n, c[n], c[n + 1])
    BY <1>1, <1>4 DEF Chain, Along
  <2>2. c[n + 1].op = "status" /\ c[n + 1].gen = gen[r]
    BY <1>1, <2>1 DEF Follows
  <2>3. Weight(c[Pos(s)]) = 12 * gen[r] + 5
    BY <1>4, <2>2 DEF Weight
  <2>4. QED
    BY <1>2, <2>3
<1>5. CASE Pos(s) > n + 1
  <2>1. n \in 1 .. Pos(s) - 1 /\ n + 1 \in 1 .. Pos(s) - 1
    BY <1>1, <1>2, <1>5
  <2>2. Follows(n, c[n], c[n + 1]) /\ (c[n + 1].op \in Joint => Entered(n + 1))
    BY <2>1 DEF Chain, Along
  <2>3. c[n + 1].op = "status"
    BY <1>1, <2>2 DEF Follows
  <2>4. QED
    BY <1>1, <2>2, <2>3 DEF Joint, Entered
<1>6. QED
  BY <1>1, <1>2, <1>3, <1>4, <1>5

\* What the tasks contributed to the call a task is to leave.
LEMMA Contributed ==
  ASSUME Typed, NEW c, Chain(c), NEW r \in Rank, NEW to, Leave(r, to), AllEntered(r), NEW s \in Rank
  PROVE  /\ pc[r] \in {"count", "max"} => /\ gen[r] <= Len(snaps[s])
                                          /\ Contribution(r)[s] = snaps[s][gen[r]]
         /\ pc[r] = "status" /\ s # Collector => Contribution(r)[s] = 1
<1>1. /\ Pos(r) = Len(calls[r]) /\ Pos(r) >= 1 /\ Pos(r) \in Nat
      /\ c[Pos(r)].op = pc[r] /\ c[Pos(r)].gen = gen[r]
  BY LeavingFrom
<1>2. Len(calls[s]) >= Pos(r) /\ Len(calls[s]) \in Nat
  BY <1>1, Where DEF AllEntered
<1>3. Made(s, Pos(r), c[Pos(r)])
  BY <1>1, <1>2 DEF Chain, Along
<1>4. Contribution(r)[s] = calls[s][Pos(r)].val
  BY <1>1 DEF Contribution
<1>5. QED
  BY <1>1, <1>3, <1>4 DEF Made

\* A task that enters the barrier of a report has a copy to write.
LEMMA CopiesLeft ==
  ASSUME Typed, NEW c, Chain(c), NEW r \in Rank, pc[r] = "publish"
  PROVE  IF inside[r] THEN toPrint[r] \in {0, 1} ELSE toPrint[r] \in {1, 2}
<1>1. c[Pos(r)].op = "publish" /\ c[Pos(r)].print \in {1, 2}
      /\ toPrint[r] = IF inside[r] THEN c[Pos(r)].print - 1 ELSE c[Pos(r)].print
  BY Where DEF At, Next_op, Sound
<1>2. QED
  BY <1>1
-----------------------------------------------------------------------------
(* Types. *)

\* Entering a call, as every stage does, keeps the types.
LEMMA EnterTyped ==
  ASSUME Typed, NEW r \in Rank, NEW v \in Nat, Enter(r, v), pc[r] \in Collective
  PROVE  /\ calls' \in [Rank -> Seq([op : Rooted \cup Joint, val : Nat])]
         /\ inside' \in [Rank -> BOOLEAN]
<1>1. [op |-> pc[r], val |-> v] \in [op : Rooted \cup Joint, val : Nat]
  BY DEF Collective
<1>2. calls[r] \in Seq([op : Rooted \cup Joint, val : Nat])
  BY DEF Typed, TypeOK
<1>3. Append(calls[r], [op |-> pc[r], val |-> v]) \in Seq([op : Rooted \cup Joint, val : Nat])
  BY <1>1, <1>2, AppendProperties
<1>4. QED
  BY <1>3 DEF Enter, Typed, TypeOK

\* Leaving a call keeps the types.
LEMMA LeaveTyped ==
  ASSUME Typed, NEW r \in Rank, NEW to \in Stage, Leave(r, to)
  PROVE  /\ calls' \in [Rank -> Seq([op : Rooted \cup Joint, val : Nat])]
         /\ inside' \in [Rank -> BOOLEAN]
         /\ pc' \in [Rank -> Stage]
BY DEF Leave, Typed, TypeOK

\* A set of numbers has a least one.
LEMMA LeastNumber ==
  ASSUME NEW U \in SUBSET Nat, U # {}
  PROVE  \E b \in U : \A m \in U : b <= m
<1> DEFINE R == OpToRel(<, Nat)
<1>1. IsWellFoundedOn(R, Nat)
  BY NatLessThanWellFounded
<1>2. \A x, y \in Nat : <<x, y>> \in R <=> x < y
  BY DEF OpToRel
<1> HIDE DEF R
<1>3. PICK b \in U : \A m \in U : ~(<<m, b>> \in R)
  BY <1>1, WFMin
<1>4. \A m \in U : m \in Nat /\ b \in Nat /\ ~(m < b)
  BY <1>2, <1>3
<1>5. \A m \in U : b <= m
  BY <1>4
<1>6. QED
  BY <1>5

\* The largest count of all tasks, which the Reduce leaves at the collector.
LEMMA LargestCount ==
  ASSUME Typed, NEW c, Chain(c), NEW r \in Rank, NEW to, Leave(r, to), AllEntered(r), pc[r] = "max"
  PROVE  Largest(r) \in Nat /\ \A s \in Rank : snaps[s][gen[r]] <= Largest(r)
<1> DEFINE S == {Contribution(r)[s] : s \in Rank}
           U == {b \in Nat : \A x \in S : x <= b}
<1>1. \A s \in Rank : Contribution(r)[s] \in 0 .. MaxRecords
  <2>1. ASSUME NEW s \in Rank PROVE Contribution(r)[s] \in 0 .. MaxRecords
    <3>1. gen[r] <= Len(snaps[s]) /\ Contribution(r)[s] = snaps[s][gen[r]]
      BY Contributed
    <3>2. gen[r] \in 1 .. Len(snaps[s])
      BY <3>1, AllCounted, Where, Lengths DEF Behind
    <3>3. QED
      BY <3>1, <3>2, Lengths
  <2>2. QED
    BY <2>1
<1>2. S # {} /\ \A x \in S : x \in 0 .. MaxRecords
  BY <1>1, ReportAssumption
<1> HIDE DEF S
<1>3. MaxRecords \in U
  BY <1>2, ReportAssumption
<1>4. PICK b \in U : \A m \in U : b <= m
  <2>1. U \in SUBSET Nat /\ U # {}
    BY <1>3
  <2>2. QED
    BY <2>1, LeastNumber
<1>5. b \in S
  <2>1. SUFFICES ASSUME b \notin S PROVE FALSE
    OBVIOUS
  <2>2. b \in Nat /\ \A x \in S : x <= b /\ x \in Nat /\ x # b
    BY <1>2, <1>4, <2>1
  <2>3. b >= 1 /\ \A x \in S : x <= b - 1
    BY <1>2, <2>2
  <2>4. b - 1 \in U
    BY <2>2, <2>3
  <2>5. QED
    BY <1>4, <2>2, <2>4
<1>6. b \in S /\ \A x \in S : x <= b
  BY <1>4, <1>5
<1>7. Largest(r) = CHOOSE m \in S : \A x \in S : x <= m
  <2>1. Largest(r) = CHOOSE m \in S : \A s \in Rank : Contribution(r)[s] <= m
    BY DEF Largest, S
  <2>2. \A m : (\A s \in Rank : Contribution(r)[s] <= m) <=> (\A x \in S : x <= m)
    BY DEF S
  <2>3. QED
    BY <2>1, <2>2
<1>8. Largest(r) \in S /\ \A x \in S : x <= Largest(r)
  BY <1>6, <1>7
<1>9. \A s \in Rank : snaps[s][gen[r]] \in S
  BY Contributed DEF S
<1>10. QED
  BY <1>2, <1>8, <1>9
\* A new record keeps the types, since a table is bounded.
LEMMA RecordTyped ==
  ASSUME Typed, NEW r \in Rank, NewRecord(r)
  PROVE  Typed'
<1>1. nrec[r] + 1 \in 0 .. MaxRecords
  BY ReportAssumption DEF NewRecord, Typed, TypeOK
<1>2. QED
  BY <1>1 DEF NewRecord, collVars, histVars, Typed, TypeOK

\* A new report keeps the types, since reports are bounded.
LEMMA GenerateTyped ==
  ASSUME Typed, NEW r \in Rank, mpiPi_generateReport(r)
  PROVE  Typed'
<1>1. "basics" \in Stage
  BY DEF Stage, Rooted
<1>2. gen[r] \in 0 .. MaxReports /\ gen[r] < MaxReports /\ MaxReports \in Nat
  BY ReportAssumption DEF mpiPi_generateReport, Typed, TypeOK
<1>3. gen[r] + 1 \in 0 .. MaxReports
  BY <1>2
<1>4. QED
  BY <1>1, <1>3 DEF mpiPi_generateReport, collVars, histVars, Typed, TypeOK

\* The calls that only gather.
LEMMA GatherTyped ==
  ASSUME Typed, NEW r \in Rank,
         \/ CollectTimes(r) \/ CollectHosts(r)
         \/ mpiPi_mergeCollectiveStats(r) \/ mpiPi_mergept2ptStats(r)
  PROVE  Typed'
<1>1. pc[r] \in Rooted /\ pc[r] \in Collective /\ 0 \in Nat
  BY DEF CollectTimes, CollectHosts, mpiPi_mergeCollectiveStats, mpiPi_mergept2ptStats,
         Rooted, Collective
<1>2. {"hosts", "count", AfterColl, AfterPt2pt} \subseteq Stage
  BY DEF Stage, Rooted, Joint, AfterColl, AfterPt2pt
<1>3. \/ Enter(r, 0) /\ UNCHANGED pc
      \/ \E to \in Stage : Leave(r, to)
  <2>1. CASE CollectTimes(r)
    BY <1>2, <2>1 DEF CollectTimes
  <2>2. CASE CollectHosts(r)
    BY <1>2, <2>2 DEF CollectHosts
  <2>3. CASE mpiPi_mergeCollectiveStats(r)
    BY <1>2, <2>3 DEF mpiPi_mergeCollectiveStats
  <2>4. CASE mpiPi_mergept2ptStats(r)
    BY <1>2, <2>4 DEF mpiPi_mergept2ptStats
  <2>5. QED
    BY <2>1, <2>2, <2>3, <2>4
<1>4. UNCHANGED <<opt, taskVars, chan, collVars, histVars>>
  BY DEF CollectTimes, CollectHosts, mpiPi_mergeCollectiveStats, mpiPi_mergept2ptStats
<1>5. /\ calls' \in [Rank -> Seq([op : Rooted \cup Joint, val : Nat])]
      /\ inside' \in [Rank -> BOOLEAN]
      /\ pc' \in [Rank -> Stage]
  <2>1. CASE Enter(r, 0) /\ UNCHANGED pc
    BY <1>1, <2>1, EnterTyped DEF Typed, TypeOK
  <2>2. CASE \E to \in Stage : Leave(r, to)
    BY <2>2, LeaveTyped
  <2>3. QED
    BY <1>3, <2>1, <2>2
<1>6. QED
  BY <1>4, <1>5 DEF taskVars, collVars, histVars, Typed, TypeOK

\* h_gather_data and the Allreduce of the counts keep the types.
LEMMA CountTyped ==
  ASSUME Typed, NEW r \in Rank, CountRecords(r)
  PROVE  Typed'
<1>1. pc[r] \in Collective /\ "max" \in Stage /\ nrec[r] \in 0 .. MaxRecords /\ nrec[r] \in Nat
  BY ReportAssumption DEF CountRecords, Collective, Joint, Stage, Rooted, Typed, TypeOK
<1>2. UNCHANGED <<opt, nrec, gen, toPrint, chan, collVars, failed, log>>
  BY DEF CountRecords
<1>3. CASE /\ Enter(r, nrec[r])
           /\ ac' = [ac EXCEPT ![r] = nrec[r]]
           /\ snaps' = [snaps EXCEPT ![r] = Append(@, nrec[r])]
           /\ UNCHANGED <<pc, some>>
  <2>1. /\ calls' \in [Rank -> Seq([op : Rooted \cup Joint, val : Nat])]
        /\ inside' \in [Rank -> BOOLEAN]
    BY <1>1, <1>3, EnterTyped
  <2>2. Append(snaps[r], nrec[r]) \in Seq(0 .. MaxRecords)
    <3>1. snaps[r] \in Seq(0 .. MaxRecords)
      BY DEF Typed
    <3>2. QED
      BY <1>1, <3>1, AppendProperties
  <2>3. QED
    BY <1>1, <1>2, <1>3, <2>1, <2>2 DEF collVars, Typed, TypeOK
<1>4. CASE /\ Leave(r, "max")
           /\ some' = [some EXCEPT ![r] = \E s \in Rank : Contribution(r)[s] > 0]
           /\ UNCHANGED <<ac, snaps>>
  <2>1. /\ calls' \in [Rank -> Seq([op : Rooted \cup Joint, val : Nat])]
        /\ inside' \in [Rank -> BOOLEAN]
        /\ pc' \in [Rank -> Stage]
    BY <1>1, <1>4, LeaveTyped
  <2>2. some' \in [Rank -> BOOLEAN]
    BY <1>4 DEF Typed, TypeOK
  <2>3. QED
    BY <1>2, <1>4, <2>1, <2>2 DEF collVars, Typed, TypeOK
<1>5. QED
  BY <1>3, <1>4 DEF CountRecords

\* The Reduce of the largest count keeps the types: what the collector learns is a number.
LEMMA SizeTyped ==
  ASSUME Typed, NEW c, Chain(c), NEW r \in Rank, SizeBuffer(r)
  PROVE  Typed'
<1>1. /\ pc[r] = "max" /\ pc[r] \in Collective /\ {"run", "alloc", "send"} \subseteq Stage
      /\ ac[r] \in Nat
  BY ReportAssumption DEF SizeBuffer, Collective, Stage, Rooted, Typed, TypeOK
<1>2. UNCHANGED <<opt, taskVars, chan, merged, left, retval, failed, snaps>>
  BY DEF SizeBuffer
<1>3. CASE Enter(r, ac[r]) /\ UNCHANGED <<pc, maxCount, log>>
  <2>1. /\ calls' \in [Rank -> Seq([op : Rooted \cup Joint, val : Nat])]
        /\ inside' \in [Rank -> BOOLEAN]
    BY <1>1, <1>3, EnterTyped
  <2>2. QED
    BY <1>2, <1>3, <2>1 DEF taskVars, Typed, TypeOK
<1>4. CASE /\ Leave(r, IF Omits(r) THEN "run" ELSE IF r = Collector THEN "alloc" ELSE "send")
           /\ maxCount' = IF r = Collector THEN Largest(r) ELSE maxCount
           /\ log' = IF r = Collector /\ Omits(r)
                     THEN Append(log, [kind |-> "omitted"]) ELSE log
  <2>1. PICK to \in Stage : Leave(r, to)
    BY <1>1, <1>4
  <2>2. /\ calls' \in [Rank -> Seq([op : Rooted \cup Joint, val : Nat])]
        /\ inside' \in [Rank -> BOOLEAN]
        /\ pc' \in [Rank -> Stage]
    BY <2>1, LeaveTyped
  <2>3. maxCount' \in Nat
    <3>1. CASE r = Collector
      <4>1. AllEntered(r)
        BY <2>1, <3>1 DEF Leave
      <4>2. QED
        BY <1>1, <1>4, <2>1, <3>1, <4>1, LargestCount
    <3>2. CASE r # Collector
      BY <1>4, <3>2 DEF Typed, TypeOK
    <3>3. QED
      BY <3>1, <3>2
  <2>4. log' \in Seq(Entry)
    <3>1. [kind |-> "omitted"] \in Entry /\ log \in Seq(Entry)
      BY DEF Entry, Typed
    <3>2. Append(log, [kind |-> "omitted"]) \in Seq(Entry)
      BY <3>1, AppendProperties
    <3>3. QED
      BY <1>4, <3>1, <3>2
  <2>5. QED
    BY <1>2, <2>2, <2>3, <2>4 DEF taskVars, Typed, TypeOK
<1>5. QED
  BY <1>3, <1>4 DEF SizeBuffer

\* The receives: as many as there are other tasks.
LEMMA ExpectedCount ==
  /\ IsFiniteSet(Others) /\ Expected \in Nat /\ Expected = Cardinality(Others)
<1>1. IsFiniteSet(Rank) /\ Collector \in Rank
  BY ReportAssumption
<1>2. Others = Rank \ {Collector}
  BY DEF Others
<1>3. IsFiniteSet(Others) /\ Cardinality(Others) = Cardinality(Rank) - 1
  BY <1>1, <1>2, FS_RemoveElement
<1>4. Cardinality(Others) \in Nat
  BY <1>3, FS_CardinalityType
<1>5. QED
  BY <1>3, <1>4 DEF Expected

\* The collector opens tables and buffer and keeps the types.
LEMMA OpenTyped ==
  ASSUME Typed, OpenTables
  PROVE  Typed'
<1>1. /\ Collector \in Rank /\ "recv" \in Stage
      /\ gen[Collector] \in Nat /\ ac[Collector] \in Nat
  BY ReportAssumption DEF Stage, Typed, TypeOK
<1>2. /\ FreshTables \in [Rank -> Seq([gen : Nat, n : Nat])]
      /\ FreshTables[Collector] = <<>>
  BY <1>1 DEF FreshTables
<1>3. Append(<<>>, [gen |-> gen[Collector], n |-> ac[Collector]]) \in Seq([gen : Nat, n : Nat])
  <2>1. [gen |-> gen[Collector], n |-> ac[Collector]] \in [gen : Nat, n : Nat]
        /\ <<>> \in Seq([gen : Nat, n : Nat])
    BY <1>1
  <2>2. QED
    BY <2>1, AppendProperties
<1>4. merged' \in [Rank -> Seq([gen : Nat, n : Nat])]
  BY <1>1, <1>2, <1>3 DEF OpenTables
<1>5. left' \in Nat /\ retval' \in {0, 1} /\ failed' \in BOOLEAN
  <2>1. Expected \in Nat /\ failed \in BOOLEAN
    BY ExpectedCount DEF Typed, TypeOK
  <2>2. left' \in Nat /\ retval' \in {0, 1}
    BY <2>1 DEF OpenTables
  <2>3. failed' = failed \/ failed' = TRUE
    BY DEF OpenTables
  <2>4. QED
    BY <2>1, <2>2, <2>3
<1>6. QED
  BY <1>1, <1>4, <1>5 DEF OpenTables, taskVars, Typed, TypeOK

\* A receive keeps the types.
LEMMA ReceiveTyped ==
  ASSUME Typed, NEW s \in Others, ReceiveFrom(s)
  PROVE  Typed'
<1>1. s \in Rank /\ chan[s] \in Seq([gen : Nat, n : Nat]) /\ chan[s] # <<>>
      /\ merged[s] \in Seq([gen : Nat, n : Nat])
  BY DEF ReceiveFrom, Others, Typed, TypeOK
<1>2. Head(chan[s]) \in [gen : Nat, n : Nat] /\ Tail(chan[s]) \in Seq([gen : Nat, n : Nat])
  BY <1>1, HeadTailProperties
<1>3. Append(merged[s], Head(chan[s])) \in Seq([gen : Nat, n : Nat])
  BY <1>1, <1>2, AppendProperties
<1>4. left' \in Nat
  BY DEF ReceiveFrom, Typed, TypeOK
<1>5. QED
  BY <1>2, <1>3, <1>4 DEF ReceiveFrom, taskVars, histVars, Typed, TypeOK

\* The end of the receives keeps the types.
LEMMA ReceivedTyped ==
  ASSUME Typed, ReceivedAll
  PROVE  Typed'
<1>1. "status" \in Stage
  BY DEF Stage, Joint
<1>2. QED
  BY <1>1 DEF ReceivedAll, taskVars, collVars, histVars, Typed, TypeOK

\* A send keeps the types.
LEMMA SendTyped ==
  ASSUME Typed, NEW r \in Rank, SendRecords(r)
  PROVE  Typed'
<1>1. {"status", "sending"} \subseteq Stage
  BY DEF Stage, Joint
<1>2. chan[r] \in Seq([gen : Nat, n : Nat])
      /\ [gen |-> gen[r], n |-> ac[r]] \in [gen : Nat, n : Nat]
  BY ReportAssumption DEF Typed, TypeOK
<1>3. Append(chan[r], [gen |-> gen[r], n |-> ac[r]]) \in Seq([gen : Nat, n : Nat])
  BY <1>2, AppendProperties
<1>4. chan' \in [Rank -> Seq([gen : Nat, n : Nat])] /\ pc' \in [Rank -> Stage]
  BY <1>1, <1>3 DEF SendRecords, Typed, TypeOK
<1>5. QED
  BY <1>4 DEF SendRecords, taskVars, collVars, histVars, Typed, TypeOK

\* The Allreduce of the results keeps the types.
LEMMA AgreeTyped ==
  ASSUME Typed, NEW r \in Rank, AgreeOnStatus(r)
  PROVE  Typed'
<1>1. /\ pc[r] \in Collective /\ retval \in Nat /\ 1 \in Nat /\ opt.publishes \in 0 .. 2
      /\ AfterMerge \in Stage /\ "run" \in Stage
  <2>1. pc[r] \in Collective
    BY DEF AgreeOnStatus, Collective, Joint
  <2>2. retval \in Nat /\ opt.publishes \in 0 .. 2
    BY DEF Typed, TypeOK, Option
  <2>3. AfterMerge \in Stage /\ "run" \in Stage
    BY DEF Joint, Stage, Rooted, AfterMerge, AfterColl, AfterPt2pt
  <2>4. QED
    BY <2>1, <2>2, <2>3
<1>2. UNCHANGED <<opt, nrec, gen, ac, some, chan, collVars, failed, snaps>>
  BY DEF AgreeOnStatus
<1>3. CASE Enter(r, IF r = Collector THEN retval ELSE 1) /\ UNCHANGED <<pc, toPrint, log>>
  <2>1. PICK v \in Nat : Enter(r, v)
    BY <1>1, <1>3
  <2>2. /\ calls' \in [Rank -> Seq([op : Rooted \cup Joint, val : Nat])]
        /\ inside' \in [Rank -> BOOLEAN]
    BY <1>1, <2>1, EnterTyped
  <2>3. QED
    BY <1>2, <1>3, <2>2 DEF collVars, Typed, TypeOK
<1>4. CASE LET ok == \A s \in Rank : Contribution(r)[s] = 1 IN
           /\ Leave(r, IF ok THEN AfterMerge ELSE "run")
           /\ toPrint' = [toPrint EXCEPT ![r] = opt.publishes]
           /\ log' = IF r = Collector /\ ~ok
                     THEN Append(log, [kind |-> "failed"]) ELSE log
  <2>1. PICK to \in Stage : Leave(r, to)
    BY <1>1, <1>4
  <2>2. /\ calls' \in [Rank -> Seq([op : Rooted \cup Joint, val : Nat])]
        /\ inside' \in [Rank -> BOOLEAN]
        /\ pc' \in [Rank -> Stage]
    BY <2>1, LeaveTyped
  <2>3. toPrint' \in [Rank -> 0 .. 2]
    BY <1>1, <1>4 DEF Typed, TypeOK
  <2>4. log' \in Seq(Entry)
    <3>1. [kind |-> "failed"] \in Entry /\ log \in Seq(Entry)
      BY DEF Entry, Typed
    <3>2. Append(log, [kind |-> "failed"]) \in Seq(Entry)
      BY <3>1, AppendProperties
    <3>3. QED
      BY <1>4, <3>1, <3>2
  <2>5. QED
    BY <1>2, <2>2, <2>3, <2>4 DEF collVars, Typed, TypeOK
<1>5. QED
  BY <1>3, <1>4 DEF AgreeOnStatus

\* mpiPi_publishResults keeps the types: a task that prints has a copy left to print.
LEMMA PublishTyped ==
  ASSUME Typed, NEW c, Chain(c), NEW r \in Rank, mpiPi_publishResults(r)
  PROVE  Typed'
<1>1. /\ pc[r] = "publish" /\ pc[r] \in Collective /\ 0 \in Nat
      /\ "publish" \in Stage /\ "run" \in Stage
  BY DEF mpiPi_publishResults, Collective, Joint, Stage
<1>2. UNCHANGED <<opt, nrec, gen, ac, some, chan, collVars, failed, snaps>>
  BY DEF mpiPi_publishResults
<1>3. CASE /\ Enter(r, 0)
           /\ toPrint' = [toPrint EXCEPT ![r] = @ - 1]
           /\ log' = IF r = Collector /\ toPrint[r] = opt.publishes
                     THEN Append(log, [kind |-> "published", parts |-> merged])
                     ELSE log
           /\ UNCHANGED pc
  <2>1. /\ calls' \in [Rank -> Seq([op : Rooted \cup Joint, val : Nat])]
        /\ inside' \in [Rank -> BOOLEAN]
    BY <1>1, <1>3, EnterTyped
  <2>2. toPrint[r] - 1 \in 0 .. 2
    BY <1>1, <1>3, CopiesLeft DEF Enter
  <2>3. toPrint' \in [Rank -> 0 .. 2]
    BY <1>3, <2>2 DEF Typed, TypeOK
  <2>4. log' \in Seq(Entry)
    <3>1. [kind |-> "published", parts |-> merged] \in Entry /\ log \in Seq(Entry)
      BY DEF Entry, Typed, TypeOK
    <3>2. Append(log, [kind |-> "published", parts |-> merged]) \in Seq(Entry)
      BY <3>1, AppendProperties
    <3>3. QED
      BY <1>3, <3>1, <3>2
  <2>5. QED
    BY <1>2, <1>3, <2>1, <2>3, <2>4 DEF collVars, Typed, TypeOK
<1>4. CASE Leave(r, IF MoreCopies(r) THEN "publish" ELSE "run") /\ UNCHANGED <<toPrint, log>>
  <2>1. PICK to \in Stage : Leave(r, to)
    BY <1>1, <1>4
  <2>2. /\ calls' \in [Rank -> Seq([op : Rooted \cup Joint, val : Nat])]
        /\ inside' \in [Rank -> BOOLEAN]
        /\ pc' \in [Rank -> Stage]
    BY <2>1, LeaveTyped
  <2>3. QED
    BY <1>2, <1>4, <2>2 DEF collVars, Typed, TypeOK
<1>5. QED
  BY <1>3, <1>4 DEF mpiPi_publishResults
-----------------------------------------------------------------------------
(* Every step keeps the tasks on a chain. *)

\* What entering a call changes: the call is the last one of its task.
LEMMA Entering ==
  ASSUME Typed, NEW r \in Rank, NEW v, Enter(r, v)
  PROVE  /\ ~inside[r] /\ inside'[r] = TRUE
         /\ \A s \in Rank \ {r} : calls'[s] = calls[s] /\ inside'[s] = inside[s]
         /\ Len(calls'[r]) = Len(calls[r]) + 1
         /\ \A i \in 1 .. Len(calls[r]) : calls'[r][i] = calls[r][i]
         /\ calls'[r][Len(calls[r]) + 1].op = pc[r]
         /\ calls'[r][Len(calls[r]) + 1].val = v
<1>1. calls[r] \in Seq([op : Rooted \cup Joint, val : Nat])
  BY DEF Typed, TypeOK
<1>2. calls'[r] = Append(calls[r], [op |-> pc[r], val |-> v])
  BY DEF Enter, Typed, TypeOK
<1>3. /\ Len(calls'[r]) = Len(calls[r]) + 1
      /\ \A i \in 1 .. Len(calls[r]) : calls'[r][i] = calls[r][i]
      /\ calls'[r][Len(calls[r]) + 1] = [op |-> pc[r], val |-> v]
  BY <1>1, <1>2
<1>4. QED
  BY <1>3 DEF Enter, Typed, TypeOK

\* What leaving a call changes: the stage of its task.
LEMMA Leaving ==
  ASSUME Typed, NEW r \in Rank, NEW to, Leave(r, to)
  PROVE  /\ inside[r] /\ inside'[r] = FALSE /\ calls' = calls /\ pc'[r] = to
         /\ \A s \in Rank \ {r} : pc'[s] = pc[s] /\ inside'[s] = inside[s]
BY DEF Leave, Typed, TypeOK

\* A task that enters a call is where it was.
LEMMA EnterAt ==
  ASSUME Typed, NEW r \in Rank, NEW v, Enter(r, v), NEW p \in Place, At(r, p),
         pc[r] \in Collective, pc'[r] = pc[r], gen'[r] = gen[r], some'[r] = some[r],
         toPrint'[r] = IF pc[r] = "publish" THEN toPrint[r] - 1 ELSE toPrint[r]
  PROVE  At(r, p)' /\ pc[r] = p.op /\ gen[r] = p.gen
<1>1. inside'[r] = TRUE /\ ~inside[r]
  BY Entering
<1>2. pc[r] \notin {"run", "alloc", "recv", "send", "sending"}
  BY DEF Collective, Rooted, Joint
<1>3. pc[r] = p.op /\ gen[r] = p.gen
  BY <1>2 DEF At, Next_op
<1>4. p.print \in 0 .. 2
  BY DEF Place
<1>5. At(r, p)'
  BY <1>1, <1>2, <1>4 DEF At, Next_op
<1>6. QED
  BY <1>3, <1>5

\* The steps into and out of a call concern one task only.
LEMMA EnterAlone ==
  ASSUME Typed, NEW r \in Rank, NEW v, Enter(r, v), UNCHANGED <<opt, pc, gen, some>>,
         \A s \in Rank \ {r} : toPrint'[s] = toPrint[s],
         \A s \in Rank : /\ Len(snaps[s]) <= Len(snaps'[s])
                         /\ \A i \in 1 .. Len(snaps[s]) : snaps'[s][i] = snaps[s][i]
  PROVE  Bystanders(r)
<1>1. Len(calls[r]) <= Len(calls'[r]) /\ \A i \in 1 .. Len(calls[r]) : calls'[r][i] = calls[r][i]
  <2>1. Len(calls[r]) \in Nat
    BY Lengths
  <2>2. /\ Len(calls'[r]) = Len(calls[r]) + 1
        /\ \A i \in 1 .. Len(calls[r]) : calls'[r][i] = calls[r][i]
    BY Entering
  <2>3. QED
    BY <2>1, <2>2
<1>2. \A s \in Rank \ {r} : calls'[s] = calls[s] /\ inside'[s] = inside[s]
  BY Entering
<1>3. QED
  BY <1>1, <1>2 DEF Bystanders

\* A task that leaves a call leaves the others where they are.
LEMMA LeaveAlone ==
  ASSUME Typed, NEW r \in Rank, NEW to, Leave(r, to), UNCHANGED <<opt, gen, snaps>>,
         \A s \in Rank \ {r} : some'[s] = some[s] /\ toPrint'[s] = toPrint[s]
  PROVE  Bystanders(r)
<1>1. /\ calls' = calls /\ snaps' = snaps
      /\ \A s \in Rank \ {r} : pc'[s] = pc[s] /\ inside'[s] = inside[s]
  BY Leaving
<1>2. \A s \in Rank : Len(snaps[s]) <= Len(snaps'[s]) /\ Len(calls[s]) <= Len(calls'[s])
  BY <1>1, Lengths
<1>3. QED
  BY <1>1, <1>2 DEF Bystanders

\* Counts that do not change are not shortened.
LEMMA SameCounts ==
  ASSUME Typed, UNCHANGED snaps
  PROVE  \A s \in Rank : /\ Len(snaps[s]) <= Len(snaps'[s])
                         /\ \A i \in 1 .. Len(snaps[s]) : snaps'[s][i] = snaps[s][i]
BY Lengths

\* A new record moves nobody on the chain.
LEMMA RecordChain ==
  ASSUME Typed, Typed', NEW c, Chain(c), NEW r \in Rank, NewRecord(r)
  PROVE  Chain(c)'
<1>1. UNCHANGED <<opt, pc, calls, inside, gen, some, toPrint, snaps>>
  BY DEF NewRecord, histVars
<1>2. Bystanders(r)
  BY <1>1, Where DEF Bystanders
<1>3. PICK n \in Nat : n = Pos(r)
  BY Where
<1>4. At(r, c[n])'
  BY <1>1, <1>3, Where DEF At
<1>5. QED
  BY <1>1, <1>2, <1>3, <1>4, SilentStep

\* Beginning a report moves nobody: the task was already on its way to the first call.
LEMMA GenerateChain ==
  ASSUME Typed, Typed', NEW c, Chain(c), NEW r \in Rank, mpiPi_generateReport(r)
  PROVE  Chain(c)'
<1>1. /\ UNCHANGED <<opt, calls, inside, some, toPrint, snaps>>
      /\ pc[r] = "run" /\ pc'[r] = "basics" /\ gen'[r] = gen[r] + 1
      /\ \A s \in Rank \ {r} : pc'[s] = pc[s] /\ gen'[s] = gen[s]
  BY DEF mpiPi_generateReport, histVars, Typed, TypeOK
<1>2. Bystanders(r)
  BY <1>1, Where DEF Bystanders
<1>3. PICK n \in Nat : n = Pos(r)
  BY Where
<1>4. At(r, c[n])'
  BY <1>1, <1>3, Where DEF At, Next_op
<1>5. QED
  BY <1>1, <1>2, <1>3, <1>4, SilentStep

\* The calls that only gather move their task along the chain.
LEMMA GatherChain ==
  ASSUME Typed, Typed', NEW c, Chain(c), NEW r \in Rank,
         \/ CollectTimes(r) \/ CollectHosts(r)
         \/ mpiPi_mergeCollectiveStats(r) \/ mpiPi_mergept2ptStats(r)
  PROVE  \E d : Chain(d)'
<1>1. UNCHANGED <<opt, gen, some, toPrint, snaps>>
  BY DEF CollectTimes, CollectHosts, mpiPi_mergeCollectiveStats, mpiPi_mergept2ptStats,
         taskVars, histVars
<1>2. pc[r] \in {"basics", "hosts", "coll", "pt2pt"}
  BY DEF CollectTimes, CollectHosts, mpiPi_mergeCollectiveStats, mpiPi_mergept2ptStats
<1>3. PICK n \in Nat : n = Pos(r)
  BY Where
<1>4. c[n] \in Place /\ At(r, c[n]) /\ pc[r] \in Collective
  BY <1>2, <1>3, Where DEF Collective, Rooted
<1>5. CASE Enter(r, 0) /\ UNCHANGED pc
  <2>1. Bystanders(r)
    BY <1>1, <1>5, SameCounts, EnterAlone
  <2>2. At(r, c[n])' /\ pc[r] = c[n].op
    BY <1>1, <1>2, <1>4, <1>5, EnterAt
  <2>3. Made(r, n, c[n])'
    <3>1. n = Len(calls[r]) + 1
      BY <1>3, <1>5, Entering DEF Pos
    <3>2. calls'[r][n].op = pc[r]
      BY <1>5, <3>1, Entering
    <3>3. QED
      BY <1>2, <2>2, <3>2 DEF Made
  <2>4. QED
    BY <1>3, <1>5, <2>1, <2>2, <2>3, EnterStep
<1>6. ASSUME NEW to, Leave(r, to),
             \A q \in Place : Follows(n, c[n], q) =>
                q.op = to /\ q.gen = gen[r]
                /\ (pc[r] \in {"coll", "pt2pt"} => q.print = toPrint[r]),
             to \in {"hosts", "count", "pt2pt", "publish"},
             to \in {"pt2pt", "publish"} => pc[r] \in {"coll", "pt2pt"}
      PROVE  \E d : Chain(d)'
  <2>1. Bystanders(r)
    BY <1>1, <1>6, LeaveAlone
  <2>2. \A q \in Place : Follows(n, c[n], q) /\ Sound(q) => At(r, q)'
    BY <1>1, <1>6, Leaving DEF At, Next_op
  <2>3. QED
    BY <1>3, <1>6, <2>1, <2>2, LeaveStep
<1>7. /\ c[n].op = pc[r] /\ c[n].gen = gen[r]
      /\ pc[r] \in {"coll", "pt2pt"} => c[n].print = toPrint[r]
  BY <1>2, <1>4 DEF At, Next_op
<1>8. CASE CollectTimes(r)
  <2>1. pc[r] = "basics"
    BY <1>8 DEF CollectTimes
  <2>2. CASE Leave(r, IF HostNames[gen[r]] THEN "hosts" ELSE "count")
    <3>1. PICK to : to = IF HostNames[gen[r]] THEN "hosts" ELSE "count"
      OBVIOUS
    <3>2. \A q \in Place : Follows(n, c[n], q) => q.op = to /\ q.gen = gen[r]
      BY <1>7, <2>1, <3>1 DEF Follows
    <3>3. Leave(r, to) /\ to \in {"hosts", "count"}
      BY <2>2, <3>1
    <3>4. QED
      BY <1>6, <2>1, <3>2, <3>3
  <2>3. QED
    BY <1>5, <1>8, <2>2 DEF CollectTimes
<1>9. CASE CollectHosts(r)
  <2>1. pc[r] = "hosts"
    BY <1>9 DEF CollectHosts
  <2>2. CASE Leave(r, "count")
    <3>1. \A q \in Place : Follows(n, c[n], q) => q.op = "count" /\ q.gen = gen[r]
      BY <1>7, <2>1 DEF Follows
    <3>2. QED
      BY <1>6, <2>1, <2>2, <3>1
  <2>3. QED
    BY <1>5, <1>9, <2>2 DEF CollectHosts
<1>10. CASE mpiPi_mergeCollectiveStats(r)
  <2>1. pc[r] = "coll"
    BY <1>10 DEF mpiPi_mergeCollectiveStats
  <2>2. CASE Leave(r, AfterColl)
    <3>1. \A q \in Place : Follows(n, c[n], q) =>
            q.op = AfterColl /\ q.gen = gen[r] /\ q.print = toPrint[r]
      BY <1>7, <2>1 DEF Follows
    <3>2. AfterColl \in {"pt2pt", "publish"}
      BY DEF AfterColl, AfterPt2pt
    <3>3. QED
      BY <1>6, <2>1, <2>2, <3>1, <3>2
  <2>3. QED
    BY <1>5, <1>10, <2>2 DEF mpiPi_mergeCollectiveStats
<1>11. CASE mpiPi_mergept2ptStats(r)
  <2>1. pc[r] = "pt2pt"
    BY <1>11 DEF mpiPi_mergept2ptStats
  <2>2. CASE Leave(r, AfterPt2pt)
    <3>1. \A q \in Place : Follows(n, c[n], q) =>
            q.op = AfterPt2pt /\ q.gen = gen[r] /\ q.print = toPrint[r]
      BY <1>7, <2>1 DEF Follows
    <3>2. AfterPt2pt = "publish"
      BY DEF AfterPt2pt
    <3>3. QED
      BY <1>6, <2>1, <2>2, <3>1, <3>2
  <2>3. QED
    BY <1>5, <1>11, <2>2 DEF mpiPi_mergept2ptStats
<1>12. QED
  BY <1>8, <1>9, <1>10, <1>11

\* h_gather_data and the Allreduce of the counts move their task along the chain: all
\* tasks learn the same of the total.
LEMMA CountChain ==
  ASSUME Typed, Typed', Counting, NEW c, Chain(c), NEW r \in Rank, CountRecords(r)
  PROVE  \E d : Chain(d)'
<1>1. UNCHANGED <<opt, gen, toPrint>> /\ pc[r] = "count" /\ pc[r] \in Collective
  BY DEF CountRecords, Collective, Joint
<1>2. PICK n \in Nat : n = Pos(r)
  BY Where
<1>3. c[n] \in Place /\ At(r, c[n]) /\ c[n].op = "count" /\ c[n].gen = gen[r] /\ gen[r] \in Nat
  BY <1>1, <1>2, Where DEF At, Next_op
<1>4. CASE /\ Enter(r, nrec[r])
           /\ snaps' = [snaps EXCEPT ![r] = Append(@, nrec[r])]
           /\ UNCHANGED <<pc, some>>
  <2>1. snaps[r] \in Seq(0 .. MaxRecords) /\ nrec[r] \in 0 .. MaxRecords
    BY DEF Typed, TypeOK
  <2>2. /\ snaps'[r] = Append(snaps[r], nrec[r])
        /\ \A s \in Rank \ {r} : snaps'[s] = snaps[s]
    BY <1>4 DEF Typed
  <2>3. /\ Len(snaps'[r]) = Len(snaps[r]) + 1
        /\ \A i \in 1 .. Len(snaps[r]) : snaps'[r][i] = snaps[r][i]
        /\ snaps'[r][Len(snaps[r]) + 1] = nrec[r]
    BY <2>1, <2>2
  <2>4. Len(snaps[r]) = gen[r] - 1
    BY <1>1, <1>4, Entering DEF Counting, Uncounted
  <2>5. Bystanders(r)
    <3>1. \A s \in Rank : Len(snaps[s]) \in Nat
      BY Lengths
    <3>2. \A s \in Rank : /\ Len(snaps[s]) <= Len(snaps'[s])
                          /\ \A i \in 1 .. Len(snaps[s]) : snaps'[s][i] = snaps[s][i]
      BY <2>2, <2>3, <3>1
    <3>3. QED
      BY <1>1, <1>4, <3>2, EnterAlone
  <2>6. At(r, c[n])'
    BY <1>1, <1>3, <1>4, EnterAt
  <2>7. Made(r, n, c[n])'
    <3>1. n = Len(calls[r]) + 1
      BY <1>2, <1>4, Entering DEF Pos
    <3>2. calls'[r][n].op = pc[r] /\ calls'[r][n].val = nrec[r]
      BY <1>4, <3>1, Entering
    <3>3. gen[r] <= Len(snaps'[r]) /\ snaps'[r][gen[r]] = nrec[r]
      BY <1>3, <2>3, <2>4, Lengths
    <3>4. QED
      BY <1>1, <1>3, <3>2, <3>3 DEF Made
  <2>8. QED
    BY <1>2, <1>4, <2>5, <2>6, <2>7, EnterStep
<1>5. CASE /\ Leave(r, "max")
           /\ some' = [some EXCEPT ![r] = \E s \in Rank : Contribution(r)[s] > 0]
           /\ UNCHANGED snaps
  <2>1. some'[r] <=> NonZero(n)
    <3>1. some'[r] = \E s \in Rank : Contribution(r)[s] > 0
      BY <1>5 DEF Typed, TypeOK
    <3>2. n = Len(calls[r])
      BY <1>2, <1>5, LeavingFrom
    <3>3. \A s \in Rank : Contribution(r)[s] = calls[s][n].val
      BY <3>2 DEF Contribution
    <3>4. QED
      BY <3>1, <3>3 DEF NonZero
  <2>2. \A s \in Rank \ {r} : some'[s] = some[s]
    BY <1>5 DEF Typed, TypeOK
  <2>3. Bystanders(r)
    BY <1>1, <1>5, <2>2, LeaveAlone
  <2>4. \A q \in Place : Follows(n, c[n], q) =>
          q.op = "max" /\ q.gen = gen[r] /\ (q.some <=> NonZero(n))
    BY <1>3 DEF Follows
  <2>5. \A q \in Place : Follows(n, c[n], q) /\ Sound(q) => At(r, q)'
    BY <1>1, <1>5, <2>1, <2>4, Leaving DEF At, Next_op
  <2>6. QED
    BY <1>2, <1>5, <2>3, <2>5, LeaveStep
<1>6. QED
  BY <1>4, <1>5 DEF CountRecords

\* The Reduce of the largest count moves its task along the chain: all tasks omit an empty
\* report, or none does.
LEMMA SizeChain ==
  ASSUME Typed, Typed', Counting, NEW c, Chain(c), NEW r \in Rank, SizeBuffer(r)
  PROVE  \E d : Chain(d)'
<1>1. UNCHANGED <<opt, gen, some, toPrint, snaps>> /\ pc[r] = "max" /\ pc[r] \in Collective
  BY DEF SizeBuffer, taskVars, Collective, Rooted
<1>2. PICK n \in Nat : n = Pos(r)
  BY Where
<1>3. /\ c[n] \in Place /\ At(r, c[n]) /\ Sound(c[n]) /\ gen[r] \in Nat
      /\ c[n].op = "max" /\ c[n].gen = gen[r] /\ (some[r] <=> c[n].some)
  BY <1>1, <1>2, Where DEF At, Next_op
<1>4. CASE Enter(r, ac[r]) /\ UNCHANGED pc
  <2>1. Bystanders(r)
    BY <1>1, <1>4, SameCounts, EnterAlone
  <2>2. At(r, c[n])'
    BY <1>1, <1>3, <1>4, EnterAt
  <2>3. Len(snaps[r]) = gen[r] /\ gen[r] >= 1 /\ ac[r] = snaps[r][gen[r]]
    <3>1. Len(snaps[r]) = gen[r]
      BY <1>1 DEF Counting, Uncounted
    <3>2. gen[r] >= 1
      BY <1>3 DEF Sound
    <3>3. QED
      BY <3>1, <3>2 DEF Counting
  <2>4. Made(r, n, c[n])'
    <3>1. n = Len(calls[r]) + 1
      BY <1>2, <1>4, Entering DEF Pos
    <3>2. calls'[r][n].op = pc[r] /\ calls'[r][n].val = ac[r]
      BY <1>4, <3>1, Entering
    <3>3. QED
      BY <1>1, <1>3, <2>3, <3>2 DEF Made
  <2>5. QED
    BY <1>2, <1>4, <2>1, <2>2, <2>4, EnterStep
<1>5. CASE Leave(r, IF Omits(r) THEN "run" ELSE IF r = Collector THEN "alloc" ELSE "send")
  <2>1. PICK to : to = IF Omits(r) THEN "run" ELSE IF r = Collector THEN "alloc" ELSE "send"
    OBVIOUS
  <2>2. /\ Leave(r, to)
        /\ ~some[r] => to = "run"
        /\ some[r] /\ r = Collector => to = "alloc"
        /\ some[r] /\ r # Collector => to = "send"
    <3>1. Leave(r, to)
      BY <1>5, <2>1
    <3>2. ~some[r] => to = "run"
      BY <2>1 DEF Omits
    <3>3. some[r] /\ r = Collector => to = "alloc"
      BY <2>1 DEF Omits
    <3>4. some[r] /\ r # Collector => to = "send"
      BY <2>1 DEF Omits
    <3>5. QED
      BY <3>1, <3>2, <3>3, <3>4
  <2>3. Bystanders(r)
    BY <1>1, <2>2, LeaveAlone
  <2>4. \A q \in Place : Follows(n, c[n], q) =>
          IF some[r] THEN q.op = "status" /\ q.gen = gen[r]
          ELSE q.op = "basics" /\ q.gen = gen[r] + 1
    BY <1>3 DEF Follows
  <2>5. \A q \in Place : Follows(n, c[n], q) /\ Sound(q) => At(r, q)'
    <3>1. CASE some[r]
      BY <1>1, <2>2, <2>4, <3>1, Leaving DEF At, Next_op
    <3>2. CASE ~some[r]
      BY <1>1, <2>2, <2>4, <3>2, Leaving DEF At, Next_op
    <3>3. QED
      BY <3>1, <3>2
  <2>6. QED
    BY <1>2, <2>2, <2>3, <2>5, LeaveStep
<1>6. QED
  BY <1>4, <1>5 DEF SizeBuffer

\* The steps of a task between the Reduce of the largest count and the Allreduce of the
\* results.
LEMMA MergeChain ==
  ASSUME Typed, Typed', NEW c, Chain(c), NEW r \in Rank,
         pc[r] \in {"alloc", "recv", "send", "sending"},
         pc'[r] \in {"alloc", "recv", "send", "sending", "status"},
         pc'[r] \in {"alloc", "recv"} => r = Collector,
         pc'[r] \in {"send", "sending"} => r # Collector,
         \A s \in Rank \ {r} : pc'[s] = pc[s],
         UNCHANGED <<opt, calls, inside, gen, some, toPrint, snaps>>
  PROVE  Chain(c)'
<1>1. \A s \in Rank : Len(snaps[s]) <= Len(snaps'[s]) /\ Len(calls[s]) <= Len(calls'[s])
  BY Lengths
<1>2. Bystanders(r)
  BY <1>1 DEF Bystanders
<1>3. PICK n \in Nat : n = Pos(r)
  BY Where
<1>4. At(r, c[n])
  BY <1>3, Where
<1>5. ~inside[r] /\ c[n].op = "status" /\ c[n].gen = gen[r]
  BY <1>4 DEF At, Next_op
<1>6. At(r, c[n])'
  BY <1>5 DEF At, Next_op
<1>7. QED
  BY <1>2, <1>3, <1>6, SilentStep

\* Sends and receives move nobody on the chain.
LEMMA TransferChain ==
  ASSUME Typed, Typed', NEW c, Chain(c),
         \/ OpenTables \/ ReceivedAll
         \/ \E s \in Others : ReceiveFrom(s)
         \/ \E s \in Rank : SendRecords(s)
  PROVE  Chain(c)'
<1>1. Collector \in Rank
  BY ReportAssumption
<1>2. UNCHANGED <<opt, calls, inside, gen, some, toPrint, snaps>>
  BY DEF OpenTables, ReceivedAll, ReceiveFrom, SendRecords, taskVars, histVars
<1>3. CASE OpenTables
  <2>1. pc[Collector] = "alloc" /\ pc' = [pc EXCEPT ![Collector] = "recv"]
    BY <1>3 DEF OpenTables
  <2>2. pc'[Collector] = "recv" /\ \A s \in Rank \ {Collector} : pc'[s] = pc[s]
    BY <1>1, <2>1 DEF Typed, TypeOK
  <2>3. QED
    BY <1>1, <1>2, <2>1, <2>2, MergeChain
<1>4. CASE ReceivedAll
  <2>1. pc[Collector] = "recv" /\ pc' = [pc EXCEPT ![Collector] = "status"]
    BY <1>4 DEF ReceivedAll
  <2>2. pc'[Collector] = "status" /\ \A s \in Rank \ {Collector} : pc'[s] = pc[s]
    BY <1>1, <2>1 DEF Typed, TypeOK
  <2>3. QED
    BY <1>1, <1>2, <2>1, <2>2, MergeChain
<1>5. CASE \E s \in Others : ReceiveFrom(s)
  <2>1. pc[Collector] = "recv" /\ pc' = pc
    BY <1>5 DEF ReceiveFrom
  <2>2. QED
    BY <1>1, <1>2, <2>1, MergeChain
<1>6. CASE \E s \in Rank : SendRecords(s)
  <2>1. PICK s \in Rank : SendRecords(s)
    BY <1>6
  <2>2. /\ s # Collector /\ pc[s] \in {"send", "sending"}
        /\ \E next \in {"status", "sending"} : pc' = [pc EXCEPT ![s] = next]
    BY <2>1 DEF SendRecords
  <2>3. pc'[s] \in {"status", "sending"} /\ \A t \in Rank \ {s} : pc'[t] = pc[t]
    BY <2>2 DEF Typed, TypeOK
  <2>4. QED
    BY <1>2, <2>2, <2>3, MergeChain
<1>7. QED
  BY <1>3, <1>4, <1>5, <1>6

\* The Allreduce of the results moves its task along the chain: all tasks go on with the
\* report, or none does.
LEMMA AgreeChain ==
  ASSUME Typed, Typed', NEW c, Chain(c), NEW r \in Rank, AgreeOnStatus(r)
  PROVE  \E d : Chain(d)'
<1>1. UNCHANGED <<opt, gen, some, snaps>> /\ pc[r] = "status" /\ pc[r] \in Collective
  BY DEF AgreeOnStatus, Collective, Joint
<1>2. PICK n \in Nat : n = Pos(r)
  BY Where
<1>3. /\ c[n] \in Place /\ At(r, c[n]) /\ Sound(c[n]) /\ gen[r] \in Nat
      /\ c[n].op = "status" /\ c[n].gen = gen[r]
  BY <1>1, <1>2, Where DEF At, Next_op
<1>4. CASE Enter(r, IF r = Collector THEN retval ELSE 1) /\ UNCHANGED <<pc, toPrint>>
  <2>1. PICK v : v = IF r = Collector THEN retval ELSE 1
    OBVIOUS
  <2>2. Enter(r, v)
    BY <1>4, <2>1
  <2>3. Bystanders(r)
    BY <1>1, <1>4, <2>2, SameCounts, EnterAlone
  <2>4. At(r, c[n])'
    BY <1>1, <1>3, <1>4, <2>2, EnterAt
  <2>5. Made(r, n, c[n])'
    <3>1. n = Len(calls[r]) + 1
      BY <1>2, <2>2, Entering DEF Pos
    <3>2. calls'[r][n].op = pc[r] /\ calls'[r][n].val = v
      BY <2>2, <3>1, Entering
    <3>3. QED
      BY <1>1, <1>3, <2>1, <3>2 DEF Made
  <2>6. QED
    BY <1>2, <2>2, <2>3, <2>4, <2>5, EnterStep
<1>5. CASE LET ok == \A s \in Rank : Contribution(r)[s] = 1 IN
           /\ Leave(r, IF ok THEN AfterMerge ELSE "run")
           /\ toPrint' = [toPrint EXCEPT ![r] = opt.publishes]
  <2>1. PICK to : to = IF \A s \in Rank : Contribution(r)[s] = 1 THEN AfterMerge ELSE "run"
    OBVIOUS
  <2>2. Leave(r, to)
    BY <1>5, <2>1
  <2>3. (\A s \in Rank : Contribution(r)[s] = 1) <=> AllOk(n)
    <3>1. n = Len(calls[r])
      BY <1>2, <2>2, LeavingFrom
    <3>2. \A s \in Rank : Contribution(r)[s] = calls[s][n].val
      BY <3>1 DEF Contribution
    <3>3. QED
      BY <3>2 DEF AllOk
  <2>4. toPrint'[r] = opt.publishes /\ \A s \in Rank \ {r} : toPrint'[s] = toPrint[s]
    BY <1>5 DEF Typed, TypeOK
  <2>5. Bystanders(r)
    BY <1>1, <2>2, <2>4, LeaveAlone
  <2>6. AfterMerge \in {"coll", "pt2pt", "publish"}
    BY DEF AfterMerge, AfterColl, AfterPt2pt
  <2>7. \A q \in Place : Follows(n, c[n], q) =>
          IF AllOk(n) THEN q.op = AfterMerge /\ q.gen = gen[r] /\ q.print = opt.publishes
          ELSE q.op = "basics" /\ q.gen = gen[r] + 1
    BY <1>3 DEF Follows
  <2>8. \A q \in Place : Follows(n, c[n], q) /\ Sound(q) => At(r, q)'
    <3>1. CASE AllOk(n)
      <4>1. pc'[r] = AfterMerge /\ ~inside'[r] /\ gen'[r] = gen[r]
        BY <1>1, <2>1, <2>2, <2>3, <3>1, Leaving
      <4>2. QED
        BY <2>4, <2>6, <2>7, <3>1, <4>1 DEF At, Next_op
    <3>2. CASE ~AllOk(n)
      <4>1. pc'[r] = "run" /\ ~inside'[r] /\ gen'[r] = gen[r]
        BY <1>1, <2>1, <2>2, <2>3, <3>2, Leaving
      <4>2. QED
        BY <2>7, <3>2, <4>1 DEF At, Next_op
    <3>3. QED
      BY <3>1, <3>2
  <2>9. QED
    BY <1>2, <2>2, <2>5, <2>8, LeaveStep
<1>6. QED
  BY <1>4, <1>5 DEF AgreeOnStatus

\* The barrier of a copy moves its task along the chain, to the next copy or report.
LEMMA PublishChain ==
  ASSUME Typed, Typed', NEW c, Chain(c), NEW r \in Rank, mpiPi_publishResults(r)
  PROVE  \E d : Chain(d)'
<1>1. UNCHANGED <<opt, gen, some, snaps>> /\ pc[r] = "publish" /\ pc[r] \in Collective
  BY DEF mpiPi_publishResults, Collective, Joint
<1>2. PICK n \in Nat : n = Pos(r)
  BY Where
<1>3. /\ c[n] \in Place /\ At(r, c[n]) /\ Sound(c[n]) /\ gen[r] \in Nat
      /\ c[n].op = "publish" /\ c[n].gen = gen[r]
      /\ toPrint[r] = IF inside[r] THEN c[n].print - 1 ELSE c[n].print
      /\ c[n].print \in {1, 2}
  BY <1>1, <1>2, Where DEF At, Next_op, Sound
<1>4. CASE Enter(r, 0) /\ toPrint' = [toPrint EXCEPT ![r] = @ - 1] /\ UNCHANGED pc
  <2>1. toPrint'[r] = toPrint[r] - 1 /\ \A s \in Rank \ {r} : toPrint'[s] = toPrint[s]
    BY <1>4 DEF Typed, TypeOK
  <2>2. Bystanders(r)
    BY <1>1, <1>4, <2>1, SameCounts, EnterAlone
  <2>3. At(r, c[n])'
    BY <1>1, <1>3, <1>4, <2>1, EnterAt
  <2>4. Made(r, n, c[n])'
    <3>1. n = Len(calls[r]) + 1
      BY <1>2, <1>4, Entering DEF Pos
    <3>2. calls'[r][n].op = pc[r]
      BY <1>4, <3>1, Entering
    <3>3. QED
      BY <1>1, <1>3, <3>2 DEF Made
  <2>5. QED
    BY <1>2, <1>4, <2>2, <2>3, <2>4, EnterStep
<1>5. CASE Leave(r, IF MoreCopies(r) THEN "publish" ELSE "run") /\ UNCHANGED toPrint
  <2>1. PICK to : to = IF MoreCopies(r) THEN "publish" ELSE "run"
    OBVIOUS
  <2>2. Leave(r, to)
    BY <1>5, <2>1
  <2>3. Bystanders(r)
    BY <1>1, <1>5, <2>2, LeaveAlone
  <2>4. toPrint[r] = c[n].print - 1 /\ (MoreCopies(r) <=> c[n].print = 2)
    <3>1. inside[r]
      BY <2>2, Leaving
    <3>2. toPrint[r] = c[n].print - 1
      BY <1>3, <3>1
    <3>3. QED
      BY <1>3, <3>2 DEF MoreCopies
  <2>5. \A q \in Place : Follows(n, c[n], q) =>
          IF MoreCopies(r) THEN q.op = "publish" /\ q.gen = gen[r] /\ q.print = toPrint[r]
          ELSE q.op = "basics" /\ q.gen = gen[r] + 1
    BY <1>3, <2>4 DEF Follows
  <2>6. \A q \in Place : Follows(n, c[n], q) /\ Sound(q) => At(r, q)'
    <3>1. CASE MoreCopies(r)
      <4>1. pc'[r] = "publish" /\ ~inside'[r] /\ gen'[r] = gen[r] /\ toPrint'[r] = toPrint[r]
        BY <1>1, <1>5, <2>1, <2>2, <3>1, Leaving
      <4>2. QED
        BY <2>5, <3>1, <4>1 DEF At, Next_op
    <3>2. CASE ~MoreCopies(r)
      <4>1. pc'[r] = "run" /\ ~inside'[r] /\ gen'[r] = gen[r]
        BY <1>1, <2>1, <2>2, <3>2, Leaving
      <4>2. QED
        BY <2>5, <3>2, <4>1 DEF At, Next_op
    <3>3. QED
      BY <3>1, <3>2
  <2>7. QED
    BY <1>2, <2>2, <2>3, <2>6, LeaveStep
<1>6. QED
  BY <1>4, <1>5 DEF mpiPi_publishResults

\* Before the first report every task is on its way to the first call of it.
LEMMA InitChain ==
  ASSUME Init
  PROVE  Typed /\ \E c : Chain(c)
<1>1. /\ opt \in Option /\ Collector \in Rank /\ MaxReports \in Nat /\ MaxRecords \in Nat
  BY ReportAssumption DEF Init
<1>2. TypeOK
  <2>1. /\ pc \in [Rank -> Stage] /\ inside \in [Rank -> BOOLEAN] /\ some \in [Rank -> BOOLEAN]
        /\ failed \in BOOLEAN
    BY DEF Init, Stage
  <2>2. /\ nrec \in [Rank -> 0 .. MaxRecords] /\ gen \in [Rank -> 0 .. MaxReports]
        /\ ac \in [Rank -> 0 .. MaxRecords] /\ toPrint \in [Rank -> 0 .. 2]
        /\ maxCount \in Nat /\ left \in Nat /\ retval \in {0, 1}
    BY <1>1 DEF Init
  <2>3. /\ calls \in [Rank -> Seq([op : Rooted \cup Joint, val : Nat])]
        /\ chan \in [Rank -> Seq([gen : Nat, n : Nat])]
        /\ merged \in [Rank -> Seq([gen : Nat, n : Nat])]
    BY DEF Init
  <2>4. QED
    BY <1>1, <2>1, <2>2, <2>3 DEF TypeOK
<1>3. Typed
  BY <1>2 DEF Init, Typed
<1> DEFINE first == [op |-> "basics", gen |-> 1, print |-> 0, some |-> FALSE]
           c == [k \in Nat |-> first]
<1>4. first \in Place
  BY DEF Place, Collective, Rooted
<1>5. c \in [Nat -> Place] /\ \A k \in Nat : c[k] = first
  BY <1>4
<1>6. first.op = "basics" /\ first.gen = 1
  OBVIOUS
<1> HIDE DEF c, first
<1>7. ASSUME NEW r \in Rank PROVE Along(r, c)
  <2>1. Len(calls[r]) = 0 /\ Pos(r) = 1
    BY DEF Init, Pos
  <2>2. c[1] = first
    BY <1>5
  <2>3. Sound(c[1])
    BY <1>6, <2>2 DEF Sound
  <2>4. At(r, c[1])
    BY <1>6, <2>2 DEF At, Next_op, Init
  <2>5. QED
    BY <2>1, <2>3, <2>4 DEF Along
<1>8. Chain(c)
  BY <1>5, <1>6, <1>7 DEF Chain
<1>9. QED
  BY <1>3, <1>8
-----------------------------------------------------------------------------
(* Counting. *)

\* The numbers of a task.
LEMMA Numbers ==
  ASSUME Typed, NEW s \in Rank
  PROVE  nrec[s] \in Nat /\ gen[s] \in Nat /\ ac[s] \in Nat /\ toPrint[s] \in 0 .. 2
BY ReportAssumption DEF Typed, TypeOK

\* Steps that neither begin a report nor count records.
LEMMA CountingKept ==
  ASSUME Typed, Typed', Counting, UNCHANGED <<gen, snaps, ac>>,
         \A s \in Rank : nrec[s] <= nrec'[s] /\ (Uncounted(s)' <=> Uncounted(s))
  PROVE  Counting'
<1>1. ASSUME NEW s \in Rank PROVE ac'[s] <= nrec'[s]
  <2>1. ac[s] \in Nat /\ nrec[s] \in Nat /\ nrec'[s] \in Nat /\ ac[s] <= nrec[s] /\ ac' = ac
    BY ReportAssumption DEF Typed, TypeOK, Counting
  <2>2. QED
    BY <2>1
<1>2. QED
  BY <1>1 DEF Counting

\* Every step of a report keeps the numbers of reports and of counts in step: a task
\* counts once between the start of a report and the first use of the count.
LEMMA CountingStep ==
  ASSUME Typed, Typed', Counting, NEW r \in Rank, NewRecord(r) \/ Report(r)
  PROVE  Counting'
<1>1. CASE NewRecord(r)
  <2>1. \A s \in Rank : nrec[s] \in Nat /\ nrec[s] <= nrec'[s]
    <3>1. nrec' = [nrec EXCEPT ![r] = nrec[r] + 1] /\ nrec \in [Rank -> 0 .. MaxRecords]
      BY <1>1 DEF NewRecord, Typed, TypeOK
    <3>2. \A s \in Rank : nrec[s] \in Nat
      BY Numbers
    <3>3. \A s \in Rank : nrec'[s] = IF s = r THEN nrec[r] + 1 ELSE nrec[s]
      BY <3>1
    <3>4. QED
      BY <3>2, <3>3
  <2>2. UNCHANGED <<gen, snaps, ac, pc, inside>>
    BY <1>1 DEF NewRecord, histVars
  <2>3. QED
    BY <2>1, <2>2, CountingKept DEF Uncounted
<1>2. CASE mpiPi_generateReport(r)
  <2>1. /\ UNCHANGED <<snaps, ac, nrec, inside>>
        /\ pc[r] = "run" /\ pc'[r] = "basics" /\ gen'[r] = gen[r] + 1 /\ gen[r] \in Nat
        /\ \A s \in Rank \ {r} : pc'[s] = pc[s] /\ gen'[s] = gen[s]
    BY <1>2, ReportAssumption DEF mpiPi_generateReport, histVars, Typed, TypeOK
  <2>2. \A s \in Rank \ {r} : Uncounted(s)' <=> Uncounted(s)
    BY <2>1 DEF Uncounted
  <2>3. Uncounted(r)' /\ ~Uncounted(r)
    BY <2>1 DEF Uncounted
  <2>4. Len(snaps[r]) = gen'[r] - 1
    BY <2>1, <2>3 DEF Counting
  <2>5. QED
    BY <2>1, <2>2, <2>3, <2>4 DEF Counting
<1>3. ASSUME UNCHANGED <<gen, snaps, ac, nrec>>,
             \A s \in Rank : Uncounted(s)' <=> Uncounted(s)
      PROVE  Counting'
  <2>1. \A s \in Rank : nrec[s] <= nrec'[s]
    BY <1>3, Numbers
  <2>2. QED
    BY <1>3, <2>1, CountingKept
<1>4. CASE CountRecords(r)
  <2>1. CASE /\ Enter(r, nrec[r])
             /\ ac' = [ac EXCEPT ![r] = nrec[r]]
             /\ snaps' = [snaps EXCEPT ![r] = Append(@, nrec[r])]
             /\ UNCHANGED <<pc, some>>
    <3>1. /\ UNCHANGED <<pc, gen, nrec>> /\ pc[r] = "count" /\ ~inside[r] /\ inside'[r] = TRUE
          /\ ac'[r] = nrec[r] /\ snaps'[r] = Append(snaps[r], nrec[r])
          /\ \A s \in Rank \ {r} :
               inside'[s] = inside[s] /\ ac'[s] = ac[s] /\ snaps'[s] = snaps[s]
      <4>1. UNCHANGED <<pc, gen, nrec>> /\ pc[r] = "count"
        BY <1>4, <2>1 DEF CountRecords
      <4>2. ~inside[r] /\ inside'[r] = TRUE /\ \A s \in Rank \ {r} : inside'[s] = inside[s]
        BY <2>1, Entering
      <4>3. /\ ac'[r] = nrec[r] /\ snaps'[r] = Append(snaps[r], nrec[r])
            /\ \A s \in Rank \ {r} : ac'[s] = ac[s] /\ snaps'[s] = snaps[s]
        BY <2>1 DEF Typed, TypeOK
      <4>4. QED
        BY <4>1, <4>2, <4>3
    <3>2. \A s \in Rank \ {r} : Uncounted(s)' <=> Uncounted(s)
      BY <3>1 DEF Uncounted
    <3>3. ~Uncounted(r)' /\ Uncounted(r)
      BY <3>1 DEF Uncounted
    <3>4. snaps[r] \in Seq(0 .. MaxRecords) /\ nrec[r] \in Nat /\ gen[r] \in Nat
      BY ReportAssumption DEF Typed, TypeOK
    <3>5. Len(snaps[r]) = gen[r] - 1
      BY <3>3 DEF Counting
    <3>6. Len(snaps'[r]) = gen[r] /\ snaps'[r][Len(snaps'[r])] = nrec[r]
      BY <3>1, <3>4, <3>5
    <3>7. QED
      BY <3>1, <3>2, <3>3, <3>4, <3>6 DEF Counting
  <2>2. CASE Leave(r, "max") /\ UNCHANGED <<ac, snaps>>
    <3>1. UNCHANGED <<gen, nrec>> /\ pc[r] = "count"
      BY <1>4 DEF CountRecords
    <3>2. /\ inside[r] /\ inside'[r] = FALSE /\ pc'[r] = "max"
          /\ \A s \in Rank \ {r} : pc'[s] = pc[s] /\ inside'[s] = inside[s]
      BY <2>2, Leaving
    <3>3. ~Uncounted(r)' /\ ~Uncounted(r)
      BY <3>1, <3>2 DEF Uncounted
    <3>4. \A s \in Rank \ {r} : Uncounted(s)' <=> Uncounted(s)
      BY <3>2 DEF Uncounted
    <3>5. \A s \in Rank : Uncounted(s)' <=> Uncounted(s)
      BY <3>3, <3>4
    <3>6. QED
      BY <1>3, <2>2, <3>1, <3>5
  <2>3. QED
    BY <1>4, <2>1, <2>2 DEF CountRecords
<1>5. CASE CollectTimes(r) \/ CollectHosts(r)
  <2>1. UNCHANGED <<gen, snaps, ac, nrec>> /\ pc[r] \in {"basics", "hosts"}
    BY <1>5 DEF CollectTimes, CollectHosts, taskVars, histVars
  <2>2. \/ Enter(r, 0) /\ UNCHANGED pc
        \/ \E to \in {"hosts", "count"} : Leave(r, to)
    BY <1>5 DEF CollectTimes, CollectHosts
  <2>3. CASE Enter(r, 0) /\ UNCHANGED pc
    <3>1. \A s \in Rank \ {r} : inside'[s] = inside[s]
      BY <2>3, Entering
    <3>2. \A s \in Rank \ {r} : Uncounted(s)' <=> Uncounted(s)
      BY <2>3, <3>1 DEF Uncounted
    <3>3. Uncounted(r)' <=> Uncounted(r)
      BY <2>1, <2>3 DEF Uncounted
    <3>4. QED
      BY <1>3, <2>1, <3>2, <3>3
  <2>4. CASE \E to \in {"hosts", "count"} : Leave(r, to)
    <3>1. PICK to \in {"hosts", "count"} : Leave(r, to)
      BY <2>4
    <3>2. /\ inside'[r] = FALSE /\ pc'[r] = to
          /\ \A s \in Rank \ {r} : pc'[s] = pc[s] /\ inside'[s] = inside[s]
      BY <3>1, Leaving
    <3>3. \A s \in Rank \ {r} : Uncounted(s)' <=> Uncounted(s)
      BY <3>2 DEF Uncounted
    <3>4. Uncounted(r)' <=> Uncounted(r)
      BY <2>1, <3>2 DEF Uncounted
    <3>5. QED
      BY <1>3, <2>1, <3>3, <3>4
  <2>5. QED
    BY <2>2, <2>3, <2>4
<1>6. CASE \/ SizeBuffer(r) \/ SendRecords(r) \/ AgreeOnStatus(r)
           \/ mpiPi_mergeCollectiveStats(r) \/ mpiPi_mergept2ptStats(r)
           \/ mpiPi_publishResults(r)
  <2>1. UNCHANGED <<gen, snaps, ac, nrec>> /\ pc[r] \in Behind
    BY <1>6 DEF SizeBuffer, SendRecords, AgreeOnStatus, mpiPi_mergeCollectiveStats,
         mpiPi_mergept2ptStats, mpiPi_publishResults, taskVars, histVars, Behind
  <2>2. /\ pc'[r] \in Behind \cup {"run"}
        /\ \A s \in Rank \ {r} : pc'[s] = pc[s] /\ inside'[s] = inside[s]
    <3>1. {AfterPt2pt, AfterColl, AfterMerge} \subseteq Behind
      BY DEF Behind, AfterPt2pt, AfterColl, AfterMerge
    <3>2. CASE SendRecords(r)
      BY <3>2 DEF SendRecords, Behind, Typed, TypeOK
    <3>3. CASE ~SendRecords(r)
      <4>1. \/ UNCHANGED pc /\ \E v : Enter(r, v)
            \/ \E to \in Behind \cup {"run"} : Leave(r, to)
        BY <1>6, <3>1, <3>3 DEF SizeBuffer, AgreeOnStatus, mpiPi_mergeCollectiveStats,
             mpiPi_mergept2ptStats, mpiPi_publishResults, Behind
      <4>2. QED
        BY <2>1, <4>1, Entering, Leaving
    <3>4. QED
      BY <3>2, <3>3
  <2>3. \A s \in Rank : Uncounted(s)' <=> Uncounted(s)
    BY <2>1, <2>2 DEF Uncounted, Behind
  <2>4. QED
    BY <1>3, <2>1, <2>3
<1>7. CASE OpenTables \/ ReceivedAll \/ \E s \in Others : ReceiveFrom(s)
  <2>1. UNCHANGED <<gen, snaps, ac, nrec, inside>> /\ pc[Collector] \in Behind
    BY <1>7 DEF OpenTables, ReceivedAll, ReceiveFrom, taskVars, histVars, Behind
  <2>2. pc'[Collector] \in Behind /\ \A s \in Rank \ {Collector} : pc'[s] = pc[s]
    BY <1>7, <2>1, ReportAssumption
       DEF OpenTables, ReceivedAll, ReceiveFrom, Behind, Typed, TypeOK
  <2>3. \A s \in Rank : Uncounted(s)' <=> Uncounted(s)
    BY <2>1, <2>2 DEF Uncounted, Behind
  <2>4. QED
    BY <1>3, <2>1, <2>3
<1>8. QED
  BY <1>1, <1>2, <1>4, <1>5, <1>6, <1>7 DEF Report, mpiPi_mergeResults
-----------------------------------------------------------------------------
(* The buffer of the collector. *)

\* The calls that only gather move their task to the next of them, to its count or to
\* the barrier, and change nothing else.
LEMMA Gathers ==
  ASSUME Typed, NEW r \in Rank,
         \/ CollectTimes(r) \/ CollectHosts(r)
         \/ mpiPi_mergeCollectiveStats(r) \/ mpiPi_mergept2ptStats(r)
  PROVE  /\ UNCHANGED <<opt, nrec, gen, ac, some, toPrint, chan, maxCount, merged, left, retval,
                        failed, snaps, log>>
         /\ \A s \in Rank \ {r} : pc'[s] = pc[s] /\ inside'[s] = inside[s]
         /\ \/ pc[r] \in {"basics", "hosts", "coll", "pt2pt"} /\ pc'[r] = pc[r]
            \/ pc[r] \in {"basics", "hosts"} /\ pc'[r] \in {"hosts", "count"} /\ ~inside'[r]
            \/ pc[r] \in {"coll", "pt2pt"} /\ pc'[r] \in {"pt2pt", "publish"} /\ ~inside'[r]
<1>1. UNCHANGED <<opt, nrec, gen, ac, some, toPrint, chan, maxCount, merged, left, retval,
                  failed, snaps, log>>
  BY DEF CollectTimes, CollectHosts, mpiPi_mergeCollectiveStats, mpiPi_mergept2ptStats,
         taskVars, collVars, histVars
<1>2. \/ /\ pc[r] \in {"basics", "hosts", "coll", "pt2pt"}
         /\ Enter(r, 0) /\ UNCHANGED pc
      \/ pc[r] \in {"basics", "hosts"} /\ \E to \in {"hosts", "count"} : Leave(r, to)
      \/ pc[r] \in {"coll", "pt2pt"} /\ \E to \in {"pt2pt", "publish"} : Leave(r, to)
  <2>1. CASE CollectTimes(r)
    BY <2>1 DEF CollectTimes
  <2>2. CASE CollectHosts(r)
    BY <2>2 DEF CollectHosts
  <2>3. CASE mpiPi_mergeCollectiveStats(r)
    BY <2>3 DEF mpiPi_mergeCollectiveStats, AfterColl, AfterPt2pt
  <2>4. CASE mpiPi_mergept2ptStats(r)
    BY <2>4 DEF mpiPi_mergept2ptStats, AfterPt2pt
  <2>5. QED
    BY <2>1, <2>2, <2>3, <2>4
<1>3. /\ \A s \in Rank \ {r} : pc'[s] = pc[s] /\ inside'[s] = inside[s]
      /\ \/ pc[r] \in {"basics", "hosts", "coll", "pt2pt"} /\ pc'[r] = pc[r]
         \/ pc[r] \in {"basics", "hosts"} /\ pc'[r] \in {"hosts", "count"} /\ ~inside'[r]
         \/ pc[r] \in {"coll", "pt2pt"} /\ pc'[r] \in {"pt2pt", "publish"} /\ ~inside'[r]
  BY <1>2, Entering, Leaving
<1>4. QED
  BY <1>1, <1>3

\* Steps that bring nobody to the receives, count nothing and send nothing.
LEMMA SizesKept ==
  ASSUME Sizes, UNCHANGED <<chan, ac>>,
         pc'[Collector] \in {"alloc", "recv"} =>
           pc[Collector] \in {"alloc", "recv"} /\ maxCount' = maxCount
  PROVE  Sizes'
BY DEF Sizes

\* When the collector sizes its buffer, every task's last count is the one of this report.
LEMMA CountsOfReport ==
  ASSUME Typed, Counting, NEW c, Chain(c), pc[Collector] = "max", some[Collector],
         NEW s \in Rank
  PROVE  /\ Len(snaps[s]) = gen[Collector] /\ gen[s] = gen[Collector]
         /\ ac[s] = snaps[s][gen[Collector]]
<1> DEFINE r == Collector
<1>1. r \in Rank
  BY ReportAssumption
<1>2. gen[r] >= 1 /\ gen[r] <= Len(snaps[s])
  BY <1>1, AllCounted DEF Behind
<1>3. Level(s) <= 12 * gen[r] + 5
  BY <1>1, NotBeyondStatus
<1>4. gen[s] \in Nat /\ gen[r] \in Nat /\ Len(snaps[s]) \in Nat
  BY <1>1, Numbers, Lengths
<1>5. Level(s) \in Int /\ Level(s) >= 12 * gen[s] + 1
  <2>1. /\ Level(s) \in Int
        /\ pc[s] \in {"run", "basics", "hosts", "count", "coll", "pt2pt"} \cup Behind
    BY Where
  <2>2. PICK n \in 1 .. 8 : n = StageNumber(pc[s])
    BY <2>1 DEF StageNumber, Behind
  <2>3. Level(s) = 12 * gen[s] + n \/ Level(s) = 12 * (gen[s] + 1) + n
    BY <2>2 DEF Level
  <2>4. QED
    BY <1>4, <2>1, <2>2, <2>3
<1>6. gen[s] <= gen[r]
  BY <1>3, <1>4, <1>5
<1>7. Len(snaps[s]) <= gen[s]
  BY <1>4 DEF Counting
<1>8. QED
  BY <1>2, <1>4, <1>6, <1>7 DEF Counting

\* Nobody counts while the collector is at its receives.
LEMMA NoCountInReceives ==
  ASSUME Typed, Counting, NEW c, Chain(c), NEW r \in Rank, pc[r] = "count", ~inside[r]
  PROVE  pc[Collector] \notin {"alloc", "recv"}
<1>1. SUFFICES ASSUME pc[Collector] \in {"alloc", "recv"} PROVE FALSE
  OBVIOUS
<1>2. Collector \in Rank /\ ~inside[Collector]
  BY <1>1, ReportAssumption, Where DEF At
<1>3. gen[Collector] <= Len(snaps[r])
  BY <1>1, <1>2, AllCounted DEF Behind
<1>4. Len(snaps[r]) = gen[r] - 1
  BY DEF Counting, Uncounted
<1>5. Level(r) <= Level(Collector)
  BY <1>1, <1>2, NobodyBeyond
<1>6. Level(r) = 12 * gen[r] + 3 /\ Level(Collector) = 12 * gen[Collector] + 5
  BY <1>1 DEF Level, StageNumber
<1>7. QED
  BY <1>2, <1>3, <1>4, <1>5, <1>6, Numbers

\* The messages of a task are no larger than its last count, and while the collector
\* receives no last count is larger than its buffer.
LEMMA SizesStep ==
  ASSUME Typed, Typed', Counting, Sizes, NEW c, Chain(c), NEW r \in Rank,
         NewRecord(r) \/ Report(r)
  PROVE  Sizes'
<1>1. Collector \in Rank
  BY ReportAssumption
<1>2. CASE NewRecord(r)
  BY <1>2, SizesKept DEF NewRecord, collVars
<1>3. CASE mpiPi_generateReport(r)
  BY <1>1, <1>3, SizesKept DEF mpiPi_generateReport, collVars, Typed, TypeOK
<1>4. CASE \/ CollectTimes(r) \/ CollectHosts(r)
           \/ mpiPi_mergeCollectiveStats(r) \/ mpiPi_mergept2ptStats(r)
  BY <1>1, <1>4, Gathers, SizesKept
<1>5. CASE CountRecords(r)
  <2>1. UNCHANGED <<chan, maxCount>> /\ pc[r] = "count"
    BY <1>5 DEF CountRecords, collVars
  <2>2. CASE Enter(r, nrec[r]) /\ ac' = [ac EXCEPT ![r] = nrec[r]] /\ UNCHANGED pc
    <3>1. pc[Collector] \notin {"alloc", "recv"}
      BY <2>1, <2>2, Entering, NoCountInReceives
    <3>2. ASSUME NEW s \in Rank PROVE ac[s] <= ac'[s] /\ ac[s] \in Nat /\ ac'[s] \in Nat
      <4>1. ac[s] \in Nat /\ nrec[s] \in Nat /\ ac[s] <= nrec[s]
        BY Numbers DEF Counting
      <4>2. ac'[s] = IF s = r THEN nrec[r] ELSE ac[s]
        BY <2>2 DEF Typed, TypeOK
      <4>3. QED
        BY <4>1, <4>2
    <3>3. ASSUME NEW s \in Rank, NEW i \in 1 .. Len(chan[s]) PROVE chan[s][i].n <= ac'[s]
      <4>1. chan[s][i].n <= ac[s] /\ chan[s][i].n \in Nat
        <5>1. chan[s] \in Seq([gen : Nat, n : Nat])
          BY DEF Typed, TypeOK
        <5>2. chan[s][i] \in [gen : Nat, n : Nat]
          BY <5>1, ElementOfSeq
        <5>3. QED
          BY <5>2 DEF Sizes
      <4>2. QED
        BY <3>2, <4>1
    <3>4. QED
      BY <2>1, <2>2, <3>1, <3>3 DEF Sizes
  <2>3. CASE Leave(r, "max") /\ UNCHANGED ac
    <3>1. pc'[Collector] = IF r = Collector THEN "max" ELSE pc[Collector]
      BY <1>1, <2>3, Leaving
    <3>2. QED
      BY <2>1, <2>3, <3>1, SizesKept
  <2>4. QED
    BY <1>5, <2>2, <2>3 DEF CountRecords
<1>6. CASE SizeBuffer(r)
  <2>1. UNCHANGED <<chan, ac>> /\ pc[r] = "max"
    BY <1>6 DEF SizeBuffer, taskVars
  <2>2. CASE UNCHANGED <<pc, maxCount>>
    BY <2>1, <2>2, SizesKept
  <2>3. CASE /\ Leave(r, IF Omits(r) THEN "run" ELSE IF r = Collector THEN "alloc" ELSE "send")
             /\ maxCount' = IF r = Collector THEN Largest(r) ELSE maxCount
    <3>1. CASE r # Collector
      BY <1>1, <2>1, <2>3, <3>1, Leaving, SizesKept
    <3>2. CASE r = Collector /\ Omits(r)
      <4>1. Leave(r, "run")
        BY <2>3, <3>2
      <4>2. pc'[Collector] = "run"
        BY <3>2, <4>1, Leaving
      <4>3. QED
        BY <2>1, <4>2, SizesKept
    <3>3. CASE r = Collector /\ ~Omits(r)
      <4>1. Leave(r, "alloc") /\ maxCount' = Largest(r) /\ some[r]
        BY <2>3, <3>3 DEF Omits
      <4>2. AllEntered(r)
        BY <3>3, <4>1 DEF Leave
      <4>3. Largest(r) \in Nat /\ \A s \in Rank : snaps[s][gen[r]] <= Largest(r)
        BY <2>1, <4>1, <4>2, LargestCount
      <4>4. \A s \in Rank : ac[s] <= maxCount'
        BY <2>1, <3>3, <4>1, <4>3, CountsOfReport
      <4>5. QED
        BY <2>1, <4>4 DEF Sizes
    <3>4. QED
      BY <3>1, <3>2, <3>3
  <2>4. QED
    BY <1>6, <2>2, <2>3 DEF SizeBuffer
<1>7. CASE OpenTables
  <2>1. UNCHANGED <<chan, ac, maxCount>> /\ pc[Collector] = "alloc"
    BY <1>7 DEF OpenTables, taskVars
  <2>2. QED
    BY <2>1, SizesKept
<1>8. CASE ReceivedAll
  <2>1. UNCHANGED <<chan, ac, maxCount>> /\ pc[Collector] = "recv"
    BY <1>8 DEF ReceivedAll, taskVars, collVars
  <2>2. QED
    BY <2>1, SizesKept
<1>9. CASE \E s \in Others : ReceiveFrom(s)
  <2>1. PICK s \in Others : ReceiveFrom(s)
    BY <1>9
  <2>2. s \in Rank /\ s # Collector
    BY DEF Others
  <2>3. /\ UNCHANGED <<ac, maxCount, pc>> /\ chan[s] # <<>> /\ chan'[s] = Tail(chan[s])
        /\ \A t \in Rank \ {s} : chan'[t] = chan[t]
    BY <2>1, <2>2 DEF ReceiveFrom, taskVars, Typed, TypeOK
  <2>4. chan[s] \in Seq([gen : Nat, n : Nat])
    BY <2>2 DEF Typed, TypeOK
  <2>5. /\ Len(chan'[s]) = Len(chan[s]) - 1 /\ Len(chan[s]) \in Nat
        /\ \A i \in 1 .. Len(chan'[s]) : chan'[s][i] = chan[s][i + 1]
    BY <2>3, <2>4
  <2>6. \A i \in 1 .. Len(chan'[s]) : chan'[s][i].n <= ac[s]
    BY <2>2, <2>5 DEF Sizes
  <2>7. QED
    BY <1>1, <2>2, <2>3, <2>6 DEF Sizes
<1>10. CASE SendRecords(r)
  <2>1. r # Collector /\ UNCHANGED <<ac, maxCount>> /\ pc[r] \in {"send", "sending"}
    BY <1>10 DEF SendRecords, taskVars, collVars
  <2>2. pc'[Collector] = pc[Collector]
    BY <1>1, <1>10, <2>1 DEF SendRecords, Typed, TypeOK
  <2>3. CASE UNCHANGED chan
    BY <2>1, <2>2, <2>3, SizesKept
  <2>4. CASE chan' = [chan EXCEPT ![r] = Append(@, [gen |-> gen[r], n |-> ac[r]])]
    <3>1. chan[r] \in Seq([gen : Nat, n : Nat])
      BY DEF Typed, TypeOK
    <3>2. /\ chan'[r] = Append(chan[r], [gen |-> gen[r], n |-> ac[r]])
          /\ \A t \in Rank \ {r} : chan'[t] = chan[t]
      BY <2>4 DEF Typed, TypeOK
    <3>3. /\ Len(chan'[r]) = Len(chan[r]) + 1 /\ Len(chan[r]) \in Nat
          /\ \A i \in 1 .. Len(chan[r]) : chan'[r][i] = chan[r][i]
          /\ chan'[r][Len(chan[r]) + 1] = [gen |-> gen[r], n |-> ac[r]]
      BY <3>1, <3>2
    <3>4. chan'[r][Len(chan[r]) + 1].n = ac[r] /\ ac[r] <= ac[r]
      BY <3>3, Numbers
    <3>5. \A i \in 1 .. Len(chan'[r]) : chan'[r][i].n <= ac[r]
      BY <3>3, <3>4 DEF Sizes
    <3>6. QED
      BY <1>1, <2>1, <2>2, <3>2, <3>5 DEF Sizes
  <2>5. QED
    BY <1>10, <2>3, <2>4 DEF SendRecords
<1>11. CASE AgreeOnStatus(r)
  <2>1. UNCHANGED <<chan, ac, maxCount>> /\ pc[r] = "status"
    BY <1>11 DEF AgreeOnStatus, collVars
  <2>2. AfterMerge \notin {"alloc", "recv"}
    BY DEF AfterMerge, AfterColl, AfterPt2pt
  <2>3. UNCHANGED pc \/ \E to \in {AfterMerge, "run"} : Leave(r, to)
    BY <1>11 DEF AgreeOnStatus
  <2>4. QED
    BY <1>1, <2>1, <2>2, <2>3, Leaving, SizesKept
<1>12. CASE mpiPi_publishResults(r)
  <2>1. UNCHANGED <<chan, ac, maxCount>>
    BY <1>12 DEF mpiPi_publishResults, collVars
  <2>2. UNCHANGED pc \/ \E to \in {"publish", "run"} : Leave(r, to)
    BY <1>12 DEF mpiPi_publishResults
  <2>3. QED
    BY <1>1, <2>1, <2>2, Leaving, SizesKept
<1>13. QED
  BY <1>2, <1>3, <1>4, <1>5, <1>6, <1>7, <1>8, <1>9, <1>10, <1>11, <1>12
     DEF Report, mpiPi_mergeResults
-----------------------------------------------------------------------------
(* The log. *)

\* Steps that leave what the log is compared with alone.
LEMMA LoggingKept ==
  ASSUME Logging, UNCHANGED <<opt, log, failed, retval>>,
         pc'[Collector] = pc[Collector], inside'[Collector] = inside[Collector],
         gen'[Collector] = gen[Collector], toPrint'[Collector] = toPrint[Collector],
         calls'[Collector] = calls[Collector]
  PROVE  Logging'
BY DEF Logging, Ended, LogHasFailed, NoBuffer

\* Steps of the collector outside the stages the log is about.
LEMMA LoggingApart ==
  ASSUME Typed, Logging, UNCHANGED <<opt, log, failed, retval, gen, toPrint>>,
         pc[Collector] \in {"basics", "hosts", "count", "max"},
         pc'[Collector] \in {"basics", "hosts", "count", "max", "alloc"}
  PROVE  Logging'
BY DEF Logging, Ended, LogHasFailed, NoBuffer

\* An entry is added behind the others.
LEMMA LongerLog ==
  ASSUME Typed, NEW e \in Entry, log' = Append(log, e)
  PROVE  /\ Len(log') = Len(log) + 1 /\ Len(log) \in Nat
         /\ \A k \in 1 .. Len(log) : log'[k] = log[k]
         /\ log'[Len(log) + 1] = e
         /\ LogHasFailed => LogHasFailed'
         /\ e.kind = "failed" => LogHasFailed'
         /\ SubSeq(log', 1, Len(log)) = log
<1>1. log \in Seq(Entry) /\ Len(log) \in Nat
  BY DEF Typed
<1>2. /\ Len(log') = Len(log) + 1
      /\ \A k \in 1 .. Len(log) : log'[k] = log[k]
      /\ log'[Len(log) + 1] = e
  BY <1>1
<1>3. LogHasFailed => LogHasFailed'
  BY <1>1, <1>2 DEF LogHasFailed
<1>4. e.kind = "failed" => LogHasFailed'
  BY <1>1, <1>2 DEF LogHasFailed
<1>5. SubSeq(log', 1, Len(log)) = log
  <2>1. log' \in Seq(Entry)
    BY <1>1, AppendProperties
  <2>2. /\ SubSeq(log', 1, Len(log)) \in Seq(Entry)
        /\ Len(SubSeq(log', 1, Len(log))) = Len(log)
        /\ \A k \in 1 .. Len(log) : SubSeq(log', 1, Len(log))[k] = log'[k]
    BY <1>1, <1>2, <2>1
  <2>3. QED
    BY <1>1, <1>2, <2>2, SeqEqual
<1>6. QED
  BY <1>1, <1>2, <1>3, <1>4, <1>5

\* There is an entry in the log for every report the collector has ended, and if it ever
\* had no buffer, an entry says so.
LEMMA LoggingStep ==
  ASSUME Typed, Typed', Logging, NEW c, Chain(c), NEW r \in Rank, NewRecord(r) \/ Report(r)
  PROVE  Logging'
<1>1. /\ Collector \in Rank /\ gen[Collector] \in Nat /\ toPrint[Collector] \in 0 .. 2
      /\ opt.publishes \in {1, 2} /\ retval \in {0, 1}
  BY ReportAssumption, Numbers DEF Typed, TypeOK, Option
<1>2. CASE NewRecord(r)
  BY <1>2, LoggingKept DEF NewRecord, collVars, histVars
<1>3. CASE mpiPi_generateReport(r)
  <2>1. /\ UNCHANGED <<opt, log, failed, retval, inside, toPrint, calls>>
        /\ \A s \in Rank \ {r} : pc'[s] = pc[s] /\ gen'[s] = gen[s]
        /\ pc[r] = "run" /\ pc'[r] = "basics" /\ gen'[r] = gen[r] + 1
    BY <1>3 DEF mpiPi_generateReport, collVars, histVars, Typed, TypeOK
  <2>2. CASE r # Collector
    BY <1>1, <2>1, <2>2, LoggingKept
  <2>3. CASE r = Collector
    <3>1. Ended = gen[Collector] /\ Ended' = gen[Collector]
      BY <1>1, <2>1, <2>3 DEF Ended
    <3>2. QED
      BY <2>1, <2>3, <3>1 DEF Logging, LogHasFailed, NoBuffer
  <2>4. QED
    BY <2>2, <2>3
<1>4. CASE \/ CollectTimes(r) \/ CollectHosts(r)
           \/ mpiPi_mergeCollectiveStats(r) \/ mpiPi_mergept2ptStats(r)
  <2>1. /\ UNCHANGED <<opt, log, failed, retval, gen, toPrint>>
        /\ \A s \in Rank \ {r} : pc'[s] = pc[s] /\ inside'[s] = inside[s]
    BY <1>4, Gathers
  <2>2. CASE r # Collector
    <3>1. calls'[Collector] = calls[Collector]
      BY <1>1, <1>4, <2>2 DEF CollectTimes, CollectHosts, mpiPi_mergeCollectiveStats,
           mpiPi_mergept2ptStats, Enter, Leave, Typed, TypeOK
    <3>2. QED
      BY <1>1, <2>1, <2>2, <3>1, LoggingKept
  <2>3. CASE r = Collector /\ pc[r] \in {"basics", "hosts"}
    <3>1. pc'[r] \in {"basics", "hosts", "count"}
      BY <1>4, <2>3, Gathers
    <3>2. QED
      BY <2>1, <2>3, <3>1, LoggingApart
  <2>4. CASE r = Collector /\ pc[r] \in {"coll", "pt2pt"}
    <3>1. pc'[r] \in {"coll", "pt2pt"} \/ (pc'[r] = "publish" /\ ~inside'[r])
      BY <1>4, <2>4, Gathers
    <3>2. toPrint[r] = opt.publishes
      BY <2>4 DEF Logging
    <3>3. Ended = gen[r] - 1 /\ Ended' = gen[r] - 1
      BY <1>1, <2>1, <2>4, <3>1, <3>2 DEF Ended
    <3>4. ~NoBuffer /\ ~NoBuffer'
      BY <2>4, <3>1 DEF NoBuffer
    <3>5. QED
      BY <2>1, <2>4, <3>1, <3>2, <3>3, <3>4 DEF Logging, LogHasFailed
  <2>5. QED
    BY <1>4, <2>2, <2>3, <2>4, Gathers
<1>5. CASE CountRecords(r)
  <2>1. UNCHANGED <<opt, log, failed, retval, gen, toPrint>> /\ pc[r] = "count"
    BY <1>5 DEF CountRecords, collVars
  <2>2. /\ \A s \in Rank \ {r} :
             pc'[s] = pc[s] /\ inside'[s] = inside[s] /\ calls'[s] = calls[s]
        /\ pc'[r] \in {"count", "max"}
    BY <1>5, Entering, Leaving DEF CountRecords
  <2>3. QED
    BY <1>1, <2>1, <2>2, LoggingKept, LoggingApart
<1>6. CASE SizeBuffer(r)
  <2>1. UNCHANGED <<opt, failed, retval, gen, toPrint>> /\ pc[r] = "max"
    BY <1>6 DEF SizeBuffer, taskVars
  <2>2. CASE r # Collector
    <3>1. UNCHANGED log
      BY <1>6, <2>2 DEF SizeBuffer
    <3>2. \A s \in Rank \ {r} :
            pc'[s] = pc[s] /\ inside'[s] = inside[s] /\ calls'[s] = calls[s]
      BY <1>6, Entering, Leaving DEF SizeBuffer
    <3>3. QED
      BY <1>1, <2>1, <2>2, <3>1, <3>2, LoggingKept
  <2>3. CASE r = Collector /\ UNCHANGED <<pc, log>>
    BY <2>1, <2>3, LoggingApart
  <2>4. CASE r = Collector /\ ~Omits(r) /\ Leave(r, "alloc") /\ UNCHANGED log
    BY <2>1, <2>4, Leaving, LoggingApart
  <2>5. CASE /\ r = Collector /\ Leave(r, "run")
             /\ log' = Append(log, [kind |-> "omitted"])
    <3>1. pc'[r] = "run"
      BY <2>5, Leaving
    <3>2. [kind |-> "omitted"] \in Entry
      BY DEF Entry
    <3>3. Len(log') = Len(log) + 1 /\ Len(log) \in Nat /\ (LogHasFailed => LogHasFailed')
      BY <2>5, <3>2, LongerLog
    <3>4. Ended = gen[r] - 1 /\ Ended' = gen[r]
      BY <1>1, <2>1, <2>5, <3>1 DEF Ended
    <3>5. ~NoBuffer /\ ~NoBuffer'
      BY <2>1, <2>5, <3>1 DEF NoBuffer
    <3>6. QED
      BY <1>1, <2>1, <2>5, <3>1, <3>3, <3>4, <3>5 DEF Logging
  <2>6. \/ UNCHANGED <<pc, log>>
        \/ r = Collector /\ ~Omits(r) /\ Leave(r, "alloc") /\ UNCHANGED log
        \/ /\ r = Collector /\ Leave(r, "run")
           /\ log' = Append(log, [kind |-> "omitted"])
        \/ r # Collector
    BY <1>6 DEF SizeBuffer
  <2>7. QED
    BY <2>2, <2>3, <2>4, <2>5, <2>6
<1>7. CASE OpenTables
  <2>1. /\ UNCHANGED <<opt, log, gen, toPrint, inside, calls>>
        /\ pc[Collector] = "alloc" /\ pc'[Collector] = "recv"
    BY <1>1, <1>7 DEF OpenTables, taskVars, Typed, TypeOK
  <2>2. Ended' = Ended /\ ~NoBuffer
    BY <2>1 DEF Ended, NoBuffer
  <2>3. \/ retval' = 1 /\ UNCHANGED failed
        \/ retval' = 0 /\ opt.scarce
    BY <1>7 DEF OpenTables
  <2>4. NoBuffer' <=> retval' = 0
    BY <2>1 DEF NoBuffer
  <2>5. QED
    BY <2>1, <2>2, <2>3, <2>4 DEF Logging, LogHasFailed
<1>8. CASE ReceivedAll
  <2>1. /\ UNCHANGED <<opt, log, failed, retval, gen, toPrint, inside, calls>>
        /\ pc[Collector] = "recv" /\ pc'[Collector] = "status"
    BY <1>1, <1>8 DEF ReceivedAll, taskVars, collVars, histVars, Typed, TypeOK
  <2>2. ~inside'[Collector]
    BY <1>1, <2>1, Where DEF At
  <2>3. QED
    BY <2>1, <2>2 DEF Logging, Ended, NoBuffer, LogHasFailed
<1>9. CASE \E s \in Others : ReceiveFrom(s)
  BY <1>9, LoggingKept DEF ReceiveFrom, taskVars, histVars
<1>10. CASE SendRecords(r)
  <2>1. /\ UNCHANGED <<opt, log, failed, retval, gen, toPrint, inside, calls>>
        /\ pc'[Collector] = pc[Collector]
    BY <1>1, <1>10 DEF SendRecords, taskVars, collVars, histVars, Typed, TypeOK
  <2>2. QED
    BY <2>1, LoggingKept
<1>11. CASE AgreeOnStatus(r)
  <2>1. UNCHANGED <<opt, failed, retval, gen>> /\ pc[r] = "status"
    BY <1>11 DEF AgreeOnStatus, collVars
  <2>2. CASE r # Collector
    <3>1. UNCHANGED log /\ toPrint'[Collector] = toPrint[Collector]
      BY <1>1, <1>11, <2>2 DEF AgreeOnStatus, Typed, TypeOK
    <3>2. \A s \in Rank \ {r} :
            pc'[s] = pc[s] /\ inside'[s] = inside[s] /\ calls'[s] = calls[s]
      BY <1>11, Entering, Leaving DEF AgreeOnStatus
    <3>3. QED
      BY <1>1, <2>1, <2>2, <3>1, <3>2, LoggingKept
  <2>3. CASE r = Collector /\ Enter(r, retval) /\ UNCHANGED <<pc, toPrint, log>>
    <3>1. calls'[r][Len(calls'[r])].val = retval
      BY <2>3, Entering
    <3>2. QED
      BY <2>1, <2>3, <3>1 DEF Logging, Ended, NoBuffer, LogHasFailed
  <2>4. CASE /\ r = Collector
             /\ LET ok == \A s \in Rank : Contribution(r)[s] = 1 IN
                /\ Leave(r, IF ok THEN AfterMerge ELSE "run")
                /\ toPrint' = [toPrint EXCEPT ![r] = opt.publishes]
                /\ log' = IF r = Collector /\ ~ok
                          THEN Append(log, [kind |-> "failed"]) ELSE log
    <3>1. toPrint'[r] = opt.publishes
      BY <2>4 DEF Typed, TypeOK
    <3>2. AfterMerge \in {"coll", "pt2pt", "publish"}
      BY DEF AfterMerge, AfterColl, AfterPt2pt
    <3>3. CASE \A s \in Rank : Contribution(r)[s] = 1
      <4>1. Leave(r, AfterMerge) /\ log' = log
        BY <2>4, <3>3
      <4>2. pc'[r] = AfterMerge /\ ~inside'[r] /\ inside[r]
        BY <4>1, Leaving
      <4>3. retval = 1
        <5>1. Contribution(r)[r] = 1
          BY <3>3
        <5>2. calls[r][Len(calls[r])].val = 1
          BY <5>1 DEF Contribution
        <5>3. QED
          BY <2>1, <2>4, <4>2, <5>2 DEF Logging
      <4>4. ~NoBuffer /\ ~NoBuffer'
        BY <2>1, <4>3 DEF NoBuffer
      <4>5. Ended = gen[r] - 1 /\ Ended' = gen[r] - 1
        BY <1>1, <2>1, <2>4, <3>1, <3>2, <4>2 DEF Ended
      <4>6. QED
        BY <1>1, <2>1, <2>4, <3>1, <3>2, <4>1, <4>2, <4>4, <4>5 DEF Logging, LogHasFailed
    <3>4. CASE ~(\A s \in Rank : Contribution(r)[s] = 1)
      <4>1. Leave(r, "run") /\ log' = Append(log, [kind |-> "failed"])
        BY <2>4, <3>4
      <4>2. pc'[r] = "run"
        BY <4>1, Leaving
      <4>3. [kind |-> "failed"] \in Entry /\ [kind |-> "failed"].kind = "failed"
        BY DEF Entry
      <4>4. Len(log') = Len(log) + 1 /\ Len(log) \in Nat /\ LogHasFailed'
        BY <4>1, <4>3, LongerLog
      <4>5. Ended = gen[r] - 1 /\ Ended' = gen[r]
        BY <1>1, <2>1, <2>4, <4>2 DEF Ended
      <4>6. ~NoBuffer'
        BY <2>4, <4>2 DEF NoBuffer
      <4>7. QED
        BY <1>1, <2>1, <2>4, <3>1, <4>2, <4>4, <4>5, <4>6 DEF Logging
    <3>5. QED
      BY <3>3, <3>4
  <2>5. QED
    BY <1>11, <2>2, <2>3, <2>4 DEF AgreeOnStatus
<1>12. CASE mpiPi_publishResults(r)
  <2>1. UNCHANGED <<opt, failed, retval, gen>> /\ pc[r] = "publish"
    BY <1>12 DEF mpiPi_publishResults, collVars
  <2>2. CASE r # Collector
    <3>1. UNCHANGED log /\ toPrint'[Collector] = toPrint[Collector]
      BY <1>1, <1>12, <2>2 DEF mpiPi_publishResults, Typed, TypeOK
    <3>2. \A s \in Rank \ {r} :
            pc'[s] = pc[s] /\ inside'[s] = inside[s] /\ calls'[s] = calls[s]
      BY <1>12, Entering, Leaving DEF mpiPi_publishResults
    <3>3. QED
      BY <1>1, <2>1, <2>2, <3>1, <3>2, LoggingKept
  <2>3. CASE /\ r = Collector /\ Enter(r, 0)
             /\ toPrint' = [toPrint EXCEPT ![r] = @ - 1]
             /\ log' = IF r = Collector /\ toPrint[r] = opt.publishes
                       THEN Append(log, [kind |-> "published", parts |-> merged])
                       ELSE log
             /\ UNCHANGED pc
    <3>1. toPrint'[r] = toPrint[r] - 1 /\ toPrint[r] \in {1, 2} /\ toPrint[r] <= opt.publishes
          /\ toPrint'[r] < opt.publishes
      <4>1. toPrint'[r] = toPrint[r] - 1
        BY <2>3 DEF Typed, TypeOK
      <4>2. toPrint[r] \in {1, 2}
        BY <2>1, <2>3, Entering, CopiesLeft
      <4>3. toPrint[r] <= opt.publishes
        BY <2>3 DEF Logging
      <4>4. QED
        BY <1>1, <4>1, <4>2, <4>3
    <3>2. ~NoBuffer /\ ~NoBuffer' /\ Ended' = gen[r]
      BY <1>1, <2>1, <2>3, <3>1 DEF NoBuffer, Ended
    <3>3. CASE toPrint[r] = opt.publishes
      <4>1. Ended = gen[r] - 1
        BY <1>1, <2>1, <2>3, <3>3 DEF Ended
      <4>2. [kind |-> "published", parts |-> merged] \in Entry
        BY DEF Entry, Typed, TypeOK
      <4>3. Len(log') = Len(log) + 1 /\ Len(log) \in Nat /\ (LogHasFailed => LogHasFailed')
        BY <2>3, <3>3, <4>2, LongerLog
      <4>4. QED
        BY <1>1, <2>1, <2>3, <3>1, <3>2, <4>1, <4>3 DEF Logging
    <3>4. CASE toPrint[r] # opt.publishes
      <4>1. toPrint[r] < opt.publishes
        BY <1>1, <3>1, <3>4
      <4>2. Ended = gen[r]
        BY <1>1, <2>1, <2>3, <4>1 DEF Ended
      <4>3. log' = log
        BY <2>3, <3>4
      <4>4. QED
        BY <1>1, <2>1, <2>3, <3>1, <3>2, <4>2, <4>3 DEF Logging, LogHasFailed
    <3>5. QED
      BY <3>3, <3>4
  <2>4. CASE /\ r = Collector
             /\ Leave(r, IF MoreCopies(r) THEN "publish" ELSE "run")
             /\ UNCHANGED <<toPrint, log>>
    <3>1. inside[r] /\ ~inside'[r] /\ pc'[r] \in {"publish", "run"}
      BY <2>4, Leaving
    <3>2. toPrint[r] < opt.publishes
      BY <2>1, <2>4, <3>1 DEF Logging
    <3>3. Ended = gen[r] /\ Ended' = gen[r] /\ ~NoBuffer /\ ~NoBuffer'
      BY <2>1, <2>4, <3>1, <3>2 DEF Ended, NoBuffer
    <3>4. QED
      BY <1>1, <2>1, <2>4, <3>1, <3>2, <3>3 DEF Logging, LogHasFailed
  <2>5. QED
    BY <1>12, <2>2, <2>3, <2>4 DEF mpiPi_publishResults
<1>13. QED
  BY <1>2, <1>3, <1>4, <1>5, <1>6, <1>7, <1>8, <1>9, <1>10, <1>11, <1>12
     DEF Report, mpiPi_mergeResults
-----------------------------------------------------------------------------
(* What is on its way to the collector. *)

\* Steps that neither send nor receive: a task's message stays as it is while it is in
\* flight or in the tables, and the collector's tables stay those of its report.
LEMMA DeliveryKept ==
  ASSUME Delivery, UNCHANGED <<failed, chan, merged, left>>,
         \A s \in Rank : InFlight(s)' <=> InFlight(s),
         \A s \in Rank : InFlight(s) => Message(s)' = Message(s),
         pc'[Collector] = "recv" =>
           /\ pc[Collector] = "recv" /\ Message(Collector)' = Message(Collector)
           /\ \A s \in Others : merged[s] # <<>> /\ Sent(s) => Sent(s)' /\ Message(s)' = Message(s),
         pc'[Collector] \in {"status", "coll", "pt2pt", "publish"} =>
           /\ pc[Collector] \in {"status", "coll", "pt2pt", "publish"}
           /\ gen'[Collector] = gen[Collector]
           /\ \A s \in Rank : snaps'[s][gen[Collector]] = snaps[s][gen[Collector]],
         pc'[Collector] = "status" =>
           pc[Collector] = "status" /\ \A s \in Others : Late(s)' => Late(s)
  PROVE  Delivery'
<1>1. SUFFICES ASSUME ~failed' PROVE Delivery'
  BY DEF Delivery
<1>2. ~failed
  BY <1>1
<1>3. \A r \in Rank : /\ InFlight(r)' => chan'[r] = <<Message(r)'>>
                      /\ ~InFlight(r)' => chan'[r] = <<>>
  BY <1>2 DEF Delivery
<1>4. pc'[Collector] = "recv" =>
        /\ merged'[Collector] = <<Message(Collector)'>>
        /\ \A r \in Others :
             merged'[r] # <<>> => Sent(r)' /\ merged'[r] = <<Message(r)'>>
        /\ left' = Cardinality(Waiting')
  BY <1>2 DEF Delivery, Waiting
<1>5. pc'[Collector] \in {"status", "coll", "pt2pt", "publish"} =>
        \A r \in Rank : merged'[r] = << [gen |-> gen'[Collector],
                                         n |-> snaps'[r][gen'[Collector]]] >>
  BY <1>2 DEF Delivery
<1>6. pc'[Collector] = "status" => \A r \in Others : ~Late(r)'
  BY <1>2 DEF Delivery
<1>7. QED
  BY <1>3, <1>4, <1>5, <1>6 DEF Delivery

\* Nobody has sent for the report in which the collector has still to count.
LEMMA NothingSentYet ==
  ASSUME Typed, Counting, NEW c, Chain(c), pc[Collector] = "count", ~inside[Collector],
         NEW s \in Rank
  PROVE  ~Sent(s)
<1>1. SUFFICES ASSUME Sent(s) PROVE FALSE
  OBVIOUS
<1>2. gen[s] = gen[Collector] /\ pc[s] \in Behind /\ Collector \in Rank
  BY <1>1, ReportAssumption DEF Sent, Behind
<1>3. gen[s] <= Len(snaps[Collector])
  BY <1>2, AllCounted
<1>4. Len(snaps[Collector]) = gen[Collector] - 1
  BY <1>2 DEF Counting, Uncounted
<1>5. QED
  BY <1>2, <1>3, <1>4, Numbers

\* Nobody sends for a report that the collector knows to be empty.
LEMMA NothingToSend ==
  ASSUME Typed, NEW c, Chain(c), pc[Collector] = "max", ~some[Collector], NEW s \in Rank
  PROVE  ~Sent(s)
<1>1. SUFFICES ASSUME Sent(s) PROVE FALSE
  OBVIOUS
<1>2. gen[s] = gen[Collector] /\ pc[s] \in Behind /\ pc[s] # "max" /\ Collector \in Rank
  BY <1>1, ReportAssumption DEF Sent, Behind
<1>3. \E t \in Rank : snaps[t][gen[s]] > 0
  BY <1>2, AllCounted
<1>4. ~(\E t \in Rank : snaps[t][gen[Collector]] > 0)
  BY <1>2, AllCounted DEF Behind
<1>5. QED
  BY <1>2, <1>3, <1>4

\* Whoever counts, or begins a report, is neither late nor waited for by a collector that
\* is through with its receives.
LEMMA PastReceives ==
  ASSUME Typed, Counting, NEW c, Chain(c), pc[Collector] \in {"status", "coll", "pt2pt", "publish"},
         NEW s \in Rank
  PROVE  /\ gen[Collector] \in 1 .. Len(snaps[s])
         /\ gen[Collector] <= gen[s]
         /\ Uncounted(s) => gen[Collector] < gen[s]
<1>1. Collector \in Rank
  BY ReportAssumption
<1>2. gen[Collector] >= 1 /\ gen[Collector] <= Len(snaps[s])
  BY <1>1, AllCounted DEF Behind
<1>3. gen[Collector] \in Nat /\ gen[s] \in Nat /\ Len(snaps[s]) \in Nat
  BY <1>1, Numbers, Lengths
<1>4. Len(snaps[s]) = IF Uncounted(s) THEN gen[s] - 1 ELSE gen[s]
  BY DEF Counting
<1>5. QED
  BY <1>2, <1>3, <1>4

\* Nobody leaves the Allreduce of the results of a report whose records the collector has
\* still to receive.
LEMMA NotLeftYet ==
  ASSUME Typed, NEW c, Chain(c), NEW r \in Rank, r # Collector, NEW to, Leave(r, to),
         pc[r] = "status", Window
  PROVE  ~Sent(r)
<1>1. SUFFICES ASSUME Sent(r) PROVE FALSE
  OBVIOUS
<1>2. Collector \in Rank /\ gen[r] = gen[Collector] /\ gen[r] \in Nat
  BY <1>1, ReportAssumption, Numbers DEF Sent
<1>3. Level(r) = 12 * gen[r] + 5
  BY DEF Level, StageNumber
<1>4. Level(r) <= Level(Collector) /\ (Level(r) = Level(Collector) => inside[Collector])
  BY <1>2, NobodyBefore
<1>5. CASE pc[Collector] = "count" \/ pc[Collector] = "max"
  <2>1. Level(Collector) = 12 * gen[r] + 3 \/ Level(Collector) = 12 * gen[r] + 4
    BY <1>2, <1>5 DEF Level, StageNumber
  <2>2. QED
    BY <1>2, <1>3, <1>4, <2>1
<1>6. CASE pc[Collector] \in {"alloc", "recv"}
  <2>1. Level(Collector) = 12 * gen[r] + 5
    BY <1>2, <1>6 DEF Level, StageNumber
  <2>2. ~inside[Collector]
    BY <1>2, <1>6, Where DEF At
  <2>3. QED
    BY <1>3, <1>4, <2>1, <2>2
<1>7. QED
  BY <1>5, <1>6 DEF Window

\* The collector waits for whoever is to send.
LEMMA WaitedFor ==
  ASSUME Typed, Counting, Delivery, ~failed, NEW c, Chain(c), NEW r \in Rank, r # Collector,
         pc[r] = "send"
  PROVE  /\ gen[r] = gen[Collector] /\ Window
         /\ ~InFlight(r) /\ chan[r] = <<>>
         /\ pc[Collector] = "recv" => merged[r] = <<>>
<1>1. Collector \in Rank /\ gen[r] \in Nat /\ gen[Collector] \in Nat
  BY ReportAssumption, Numbers
<1>2. ~inside[r]
  BY Where DEF At
<1>3. Level(Collector) <= Level(r)
  BY <1>1, <1>2, NobodyBeyond
<1>4. Level(r) = 12 * gen[r] + 5
  BY DEF Level, StageNumber
<1>5. gen[r] <= Len(snaps[Collector])
  BY <1>1, AllCounted DEF Behind
<1>6. Len(snaps[Collector]) = IF Uncounted(Collector) THEN gen[Collector] - 1 ELSE gen[Collector]
  BY <1>1 DEF Counting
<1>7. pc[Collector] \in {"run", "basics", "hosts", "count", "coll", "pt2pt"} \cup Behind
  BY <1>1, Where
<1>8. PICK n \in 1 .. 8 : n = StageNumber(pc[Collector])
  BY <1>7 DEF StageNumber, Behind
<1>9. IF pc[Collector] = "run" THEN Level(Collector) = 12 * (gen[Collector] + 1) + n
      ELSE Level(Collector) = 12 * gen[Collector] + n
  BY <1>8 DEF Level
<1>10. gen[r] = gen[Collector] /\ ~Uncounted(Collector) /\ pc[Collector] # "run" /\ n <= 5
  <2>1. gen[r] <= gen[Collector]
    BY <1>1, <1>5, <1>6
  <2>2. pc[Collector] # "run"
    BY <1>1, <1>3, <1>4, <1>8, <1>9, <2>1
  <2>3. Level(Collector) = 12 * gen[Collector] + n
    BY <1>9, <2>2
  <2>4. gen[r] = gen[Collector] /\ n <= 5
    BY <1>1, <1>3, <1>4, <1>8, <2>1, <2>3
  <2>5. ~Uncounted(Collector)
    BY <1>1, <1>5, <1>6, <2>4
  <2>6. QED
    BY <2>2, <2>4, <2>5
<1>11. Late(r)
  BY <1>10 DEF Late
<1>12. pc[Collector] # "status"
  BY <1>11 DEF Delivery, Others
<1>13. Window
  <2>1. pc[Collector] \notin {"coll", "pt2pt", "publish"}
    BY <1>8, <1>10 DEF StageNumber
  <2>2. pc[Collector] \notin {"send", "sending"}
    BY <1>1, Where DEF At
  <2>3. QED
    BY <1>7, <1>10, <1>12, <2>1, <2>2 DEF Window, Behind, Uncounted
<1>14. ~Sent(r)
  BY DEF Sent
<1>15. ~InFlight(r)
  BY <1>14 DEF InFlight
<1>16. pc[Collector] = "recv" => merged[r] = <<>>
  BY <1>14 DEF Delivery, Others
<1>17. QED
  BY <1>10, <1>13, <1>15, <1>16 DEF Delivery

\* The collector opens its tables: none of the messages in flight is in them yet.
LEMMA OpenDelivery ==
  ASSUME Typed, Delivery, OpenTables
  PROVE  Delivery'
<1>1. /\ Collector \in Rank /\ UNCHANGED <<gen, ac, chan, snaps>>
      /\ pc[Collector] = "alloc" /\ pc'[Collector] = "recv"
      /\ \A s \in Rank \ {Collector} : pc'[s] = pc[s]
  BY ReportAssumption DEF OpenTables, taskVars, Typed, TypeOK
<1>2. SUFFICES ASSUME ~failed' PROVE Delivery'
  BY DEF Delivery
<1>3. /\ UNCHANGED failed /\ left' = Expected
      /\ merged' = [FreshTables EXCEPT ![Collector] =
           Append(@, [gen |-> gen[Collector], n |-> ac[Collector]])]
  BY <1>2 DEF OpenTables
<1>4. /\ merged'[Collector] = <<Message(Collector)>>
      /\ \A s \in Others : merged'[s] = <<>>
  <2>1. FreshTables[Collector] = <<>> /\ FreshTables = [s \in Rank |-> <<>>]
    BY <1>1 DEF FreshTables
  <2>2. Append(<<>>, Message(Collector)) = <<Message(Collector)>>
    OBVIOUS
  <2>3. QED
    BY <1>1, <1>3, <2>1, <2>2 DEF Others, Message
<1>5. \A s \in Rank : Message(s)' = Message(s)
  BY <1>1 DEF Message
<1>6. \A s \in Rank : InFlight(s)' <=> InFlight(s)
  <2>1. Window /\ Window'
    BY <1>1 DEF Window
  <2>2. \A s \in Others : ~Received(s) /\ ~Received(s)'
    BY <1>1, <1>4 DEF Received
  <2>3. \A s \in Others : Sent(s)' <=> Sent(s)
    BY <1>1 DEF Sent, Others
  <2>4. QED
    BY <2>1, <2>2, <2>3 DEF InFlight, Others
<1>7. ~failed
  BY <1>2, <1>3
<1>8. \A s \in Rank : /\ InFlight(s)' => chan'[s] = <<Message(s)'>>
                      /\ ~InFlight(s)' => chan'[s] = <<>>
  BY <1>1, <1>5, <1>6, <1>7 DEF Delivery
<1>9. left' = Cardinality(Waiting')
  <2>1. Waiting' = Others
    BY <1>4 DEF Waiting
  <2>2. QED
    BY <1>3, <2>1, ExpectedCount
<1>10. QED
  BY <1>1, <1>4, <1>5, <1>8, <1>9 DEF Delivery

\* A receive takes the message of a task that is waited for, whichever it is.
LEMMA ReceiveDelivery ==
  ASSUME Typed, Delivery, NEW s \in Others, ReceiveFrom(s)
  PROVE  Delivery'
<1>1. /\ UNCHANGED <<gen, ac, snaps, pc, inside, failed>> /\ pc[Collector] = "recv"
      /\ chan[s] # <<>> /\ left' = left - 1 /\ left \in Nat
      /\ s \in Rank /\ s # Collector
  BY DEF ReceiveFrom, taskVars, histVars, Others, Typed, TypeOK
<1>2. SUFFICES ASSUME ~failed PROVE Delivery'
  BY <1>1 DEF Delivery
<1>3. InFlight(s) /\ chan[s] = <<Message(s)>>
  BY <1>1, <1>2 DEF Delivery
<1>4. merged[s] = <<>> /\ Sent(s)
  BY <1>1, <1>3 DEF InFlight, Received
<1>5. /\ merged'[s] = <<Message(s)>> /\ chan'[s] = <<>>
      /\ \A t \in Rank \ {s} : merged'[t] = merged[t] /\ chan'[t] = chan[t]
  <2>1. /\ merged'[s] = Append(merged[s], Head(chan[s])) /\ chan'[s] = Tail(chan[s])
        /\ \A t \in Rank \ {s} : merged'[t] = merged[t] /\ chan'[t] = chan[t]
    BY <1>1 DEF ReceiveFrom, Typed, TypeOK
  <2>2. PICK m : m = Message(s)
    OBVIOUS
  <2>3. Head(<<m>>) = m /\ Tail(<<m>>) = <<>> /\ Append(<<>>, m) = <<m>>
    OBVIOUS
  <2>4. QED
    BY <1>3, <1>4, <2>1, <2>2, <2>3
<1>6. \A t \in Rank : Message(t)' = Message(t) /\ (Sent(t)' <=> Sent(t))
  BY <1>1 DEF Message, Sent
<1>7. ~InFlight(s)'
  <2>1. merged'[s] # <<>>
    BY <1>5
  <2>2. QED
    BY <1>1, <2>1 DEF InFlight, Received
<1>8. \A t \in Rank \ {s} : InFlight(t)' <=> InFlight(t)
  BY <1>1, <1>5, <1>6 DEF InFlight, Received, Window
<1>9. \A t \in Rank : /\ InFlight(t)' => chan'[t] = <<Message(t)'>>
                      /\ ~InFlight(t)' => chan'[t] = <<>>
  BY <1>2, <1>5, <1>6, <1>7, <1>8 DEF Delivery
<1>10. left' = Cardinality(Waiting')
  <2>1. Waiting' = Waiting \ {s}
    BY <1>1, <1>5 DEF Waiting, Others
  <2>2. s \in Waiting /\ IsFiniteSet(Waiting)
    BY <1>4, ExpectedCount, FS_Subset DEF Waiting
  <2>3. Cardinality(Waiting') = Cardinality(Waiting) - 1
    BY <2>1, <2>2, FS_RemoveElement
  <2>4. QED
    BY <1>1, <1>2, <2>3 DEF Delivery
<1>11. /\ merged'[Collector] = <<Message(Collector)'>>
       /\ \A t \in Others : merged'[t] # <<>> => Sent(t)' /\ merged'[t] = <<Message(t)'>>
  BY <1>1, <1>2, <1>4, <1>5, <1>6, ReportAssumption DEF Delivery, Others
<1>12. QED
  BY <1>1, <1>9, <1>10, <1>11 DEF Delivery

\* When no receive is left, every task's message is in the tables, and it is of this report.
LEMMA ReceivedDelivery ==
  ASSUME Typed, Counting, Delivery, NEW c, Chain(c), ReceivedAll
  PROVE  Delivery'
<1>1. /\ Collector \in Rank /\ UNCHANGED <<gen, ac, snaps, chan, merged, failed, inside>>
      /\ pc[Collector] = "recv" /\ pc'[Collector] = "status" /\ left = 0
      /\ \A s \in Rank \ {Collector} : pc'[s] = pc[s]
  BY ReportAssumption DEF ReceivedAll, taskVars, collVars, histVars, Typed, TypeOK
<1>2. SUFFICES ASSUME ~failed PROVE Delivery'
  BY <1>1 DEF Delivery
<1>3. Waiting = {}
  <2>1. IsFiniteSet(Waiting) /\ Cardinality(Waiting) = 0
    BY <1>1, <1>2, ExpectedCount, FS_Subset DEF Waiting, Delivery
  <2>2. QED
    BY <2>1, FS_EmptySet
<1>4. \A s \in Others : Sent(s) /\ merged[s] = <<Message(s)>>
  BY <1>1, <1>2, <1>3 DEF Waiting, Delivery
<1>5. ASSUME NEW s \in Rank
      PROVE  merged[s] = << [gen |-> gen[Collector], n |-> snaps[s][gen[Collector]]] >>
  <2>1. pc[s] \in {"sending", "status", "recv"} /\ gen[s] = gen[Collector]
        /\ merged[s] = <<Message(s)>>
    BY <1>1, <1>2, <1>4 DEF Sent, Others, Delivery
  <2>2. Len(snaps[s]) = gen[s] /\ gen[s] >= 1
    BY <2>1, AllCounted DEF Counting, Uncounted, Behind
  <2>3. ac[s] = snaps[s][gen[s]]
    BY <2>2 DEF Counting
  <2>4. QED
    BY <2>1, <2>3 DEF Message
<1>6. \A s \in Rank : ~InFlight(s) /\ ~InFlight(s)'
  <2>1. \A s \in Others : Received(s)
    <3>1. \A s \in Others : merged[s] # <<>>
      BY <1>4
    <3>2. QED
      BY <1>1, <3>1 DEF Received
  <2>2. QED
    BY <1>1, <2>1 DEF InFlight, Window, Others
<1>7. \A s \in Others : ~Late(s)'
  BY <1>1, <1>4 DEF Sent, Late, Others
<1>8. QED
  BY <1>1, <1>2, <1>5, <1>6, <1>7 DEF Delivery

\* What a task sends finds the collector in the same report and waiting for it.
LEMMA SendDelivery ==
  ASSUME Typed, Counting, Delivery, NEW c, Chain(c), NEW r \in Rank, SendRecords(r)
  PROVE  Delivery'
<1>1. /\ Collector \in Rank /\ r # Collector
      /\ UNCHANGED <<gen, ac, snaps, merged, left, failed, inside>>
      /\ pc'[r] \in {"sending", "status"} /\ \A s \in Rank \ {r} : pc'[s] = pc[s]
  BY ReportAssumption DEF SendRecords, taskVars, collVars, histVars, Typed, TypeOK
<1>2. SUFFICES ASSUME ~failed PROVE Delivery'
  BY <1>1 DEF Delivery
<1>3. CASE pc[r] = "sending"
  <2>1. UNCHANGED chan
    BY <1>3 DEF SendRecords
  <2>2. \A s \in Rank : /\ Sent(s)' <=> Sent(s)
                        /\ Message(s)' = Message(s)
                        /\ Late(s)' <=> Late(s)
    BY <1>1, <1>3 DEF Sent, Message, Late
  <2>3. \A s \in Rank : InFlight(s)' <=> InFlight(s)
    BY <1>1, <2>2 DEF InFlight, Window, Received
  <2>4. pc'[Collector] = pc[Collector] /\ UNCHANGED <<failed, chan, merged, left>>
        /\ gen'[Collector] = gen[Collector] /\ Message(Collector)' = Message(Collector)
    BY <1>1, <2>1, <2>2
  <2>5. \A s \in Others : Late(s)' => Late(s)
    BY <2>2 DEF Others
  <2>6. \A s \in Others : merged[s] # <<>> /\ Sent(s) => Sent(s)' /\ Message(s)' = Message(s)
    BY <2>2 DEF Others
  <2>7. \A s \in Rank : snaps'[s][gen[Collector]] = snaps[s][gen[Collector]]
    BY <1>1
  <2>8. QED
    BY <2>2, <2>3, <2>4, <2>5, <2>6, <2>7, DeliveryKept
<1>4. CASE pc[r] = "send"
  <2>1. /\ gen[r] = gen[Collector] /\ Window
        /\ ~InFlight(r) /\ chan[r] = <<>>
        /\ pc[Collector] = "recv" => merged[r] = <<>>
    BY <1>1, <1>2, <1>4, WaitedFor
  <2>2. /\ chan'[r] = <<Message(r)>>
        /\ \A s \in Rank \ {r} : chan'[s] = chan[s]
    <3>1. /\ chan'[r] = Append(chan[r], Message(r))
          /\ \A s \in Rank \ {r} : chan'[s] = chan[s]
      BY <1>4 DEF SendRecords, Message, Typed, TypeOK
    <3>2. Append(<<>>, Message(r)) = <<Message(r)>>
      OBVIOUS
    <3>3. QED
      BY <2>1, <3>1, <3>2
  <2>3. Sent(r)' /\ \A s \in Rank \ {r} : Sent(s)' <=> Sent(s)
    BY <1>1, <2>1 DEF Sent
  <2>4. /\ \A s \in Rank : Message(s)' = Message(s)
        /\ Window' /\ pc'[Collector] = pc[Collector]
    BY <1>1, <2>1 DEF Message, Window
  <2>5. InFlight(r)' /\ \A s \in Rank \ {r} : InFlight(s)' <=> InFlight(s)
    BY <1>1, <2>1, <2>3, <2>4 DEF InFlight, Received
  <2>6. \A s \in Rank : /\ InFlight(s)' => chan'[s] = <<Message(s)'>>
                        /\ ~InFlight(s)' => chan'[s] = <<>>
    BY <1>2, <2>2, <2>4, <2>5 DEF Delivery
  <2>7. pc[Collector] = "recv" =>
          /\ merged'[Collector] = <<Message(Collector)'>>
          /\ \A s \in Others :
               merged'[s] # <<>> => Sent(s)' /\ merged'[s] = <<Message(s)'>>
          /\ left' = Cardinality(Waiting')
    BY <1>1, <1>2, <2>1, <2>3, <2>4 DEF Delivery, Others, Waiting
  <2>8. pc[Collector] \notin {"status", "coll", "pt2pt", "publish"}
    BY <2>1 DEF Window
  <2>9. QED
    BY <2>4, <2>6, <2>7, <2>8 DEF Delivery
<1>5. QED
  BY <1>3, <1>4 DEF SendRecords

\* A step of a task other than the collector, outside the sends.
LEMMA DeliveryOfOther ==
  ASSUME Typed, Delivery, UNCHANGED <<failed, chan, merged, left>>, NEW r \in Others,
         \A s \in Rank \ {r} : /\ pc'[s] = pc[s] /\ inside'[s] = inside[s]
                               /\ gen'[s] = gen[s] /\ ac'[s] = ac[s],
         Window \/ pc[Collector] = "recv" => ~Sent(r) /\ ~Sent(r)',
         pc[Collector] = "status" => (Late(r)' => Late(r)),
         pc[Collector] \in {"status", "coll", "pt2pt", "publish"} =>
           \A s \in Rank : snaps'[s][gen[Collector]] = snaps[s][gen[Collector]]
  PROVE  Delivery'
<1>1. r \in Rank /\ r # Collector /\ Collector \in Rank \ {r}
  BY ReportAssumption DEF Others
<1>2. /\ pc'[Collector] = pc[Collector] /\ gen'[Collector] = gen[Collector]
      /\ Window' <=> Window
  BY <1>1 DEF Window
<1>3. \A s \in Rank \ {r} : /\ Sent(s)' <=> Sent(s)
                            /\ Message(s)' = Message(s)
                            /\ Late(s)' <=> Late(s)
                            /\ Received(s)' <=> Received(s)
  BY <1>1, <1>2 DEF Sent, Message, Late, Received
<1>4. \A s \in Rank : InFlight(s)' <=> InFlight(s)
  BY <1>2, <1>3 DEF InFlight
<1>5. \A s \in Rank : InFlight(s) => Message(s)' = Message(s)
  BY <1>2, <1>3 DEF InFlight
<1>6. pc'[Collector] = "recv" =>
        /\ pc[Collector] = "recv" /\ Message(Collector)' = Message(Collector)
        /\ \A s \in Others : merged[s] # <<>> /\ Sent(s) => Sent(s)' /\ Message(s)' = Message(s)
  BY <1>1, <1>2, <1>3 DEF Others
<1>7. pc'[Collector] = "status" =>
        pc[Collector] = "status" /\ \A s \in Others : Late(s)' => Late(s)
  BY <1>1, <1>2, <1>3 DEF Others
<1>8. QED
  BY <1>2, <1>4, <1>5, <1>6, <1>7, DeliveryKept

\* A step of the collector, outside the receives.
LEMMA DeliveryOfCollector ==
  ASSUME Typed, Delivery, UNCHANGED <<failed, chan, merged, left, snaps>>,
         \A s \in Others : pc'[s] = pc[s] /\ gen'[s] = gen[s] /\ ac'[s] = ac[s],
         gen'[Collector] = gen[Collector],
         pc'[Collector] \notin {"recv"}, pc[Collector] \notin {"recv"},
         (Window' <=> Window) \/ \A s \in Others : ~Sent(s),
         pc'[Collector] \in {"status", "coll", "pt2pt", "publish"} =>
           pc[Collector] \in {"status", "coll", "pt2pt", "publish"},
         pc'[Collector] = "status" => pc[Collector] = "status"
  PROVE  Delivery'
<1>1. Collector \in Rank
  BY ReportAssumption
<1>2. \A s \in Others : /\ Sent(s)' <=> Sent(s)
                        /\ Message(s)' = Message(s)
                        /\ Late(s)' <=> Late(s)
                        /\ Received(s)' <=> Received(s)
  BY <1>1 DEF Sent, Message, Late, Received, Others
<1>3. \A s \in Rank : InFlight(s)' <=> InFlight(s)
  BY <1>2 DEF InFlight, Others, Window
<1>4. \A s \in Rank : InFlight(s) => Message(s)' = Message(s)
  BY <1>2 DEF InFlight, Others
<1>5. QED
  BY <1>2, <1>3, <1>4, DeliveryKept

\* Every step keeps the messages where they belong.
LEMMA DeliveryStep ==
  ASSUME Typed, Typed', Counting, Delivery, NEW c, Chain(c), NEW r \in Rank,
         NewRecord(r) \/ Report(r)
  PROVE  Delivery'
<1>1. Collector \in Rank /\ (r # Collector => r \in Others)
  BY ReportAssumption DEF Others
<1>2. CASE NewRecord(r)
  <2>1. UNCHANGED <<pc, inside, gen, ac, chan, merged, left, failed, snaps>>
    BY <1>2 DEF NewRecord, collVars, histVars
  <2>2. QED
    BY <2>1 DEF Delivery, InFlight, Window, Sent, Received, Message, Late, Waiting
<1>3. CASE mpiPi_generateReport(r)
  <2>1. /\ UNCHANGED <<inside, ac, chan, merged, left, failed, snaps>>
        /\ \A s \in Rank \ {r} : pc'[s] = pc[s] /\ gen'[s] = gen[s]
        /\ pc[r] = "run" /\ pc'[r] = "basics" /\ gen'[r] = gen[r] + 1
    BY <1>3 DEF mpiPi_generateReport, collVars, histVars, Typed, TypeOK
  <2>2. CASE r # Collector
    <3>1. ~Sent(r) /\ ~Sent(r)'
      BY <2>1 DEF Sent
    <3>2. pc[Collector] = "status" => ~Late(r)'
      <4>1. SUFFICES ASSUME pc[Collector] = "status" PROVE gen'[r] # gen'[Collector]
        BY DEF Late
      <4>2. gen[Collector] <= gen[r]
        BY <4>1, PastReceives
      <4>3. gen[Collector] \in Nat /\ gen[r] \in Nat /\ gen'[Collector] = gen[Collector]
        BY <1>1, <2>1, <2>2, Numbers
      <4>4. QED
        BY <2>1, <4>2, <4>3
    <3>3. QED
      BY <1>1, <2>1, <2>2, <3>1, <3>2, DeliveryOfOther
  <2>3. CASE r = Collector
    <3>1. ~Window /\ ~Window'
      BY <2>1, <2>3 DEF Window
    <3>2. QED
      BY <2>1, <2>3, <3>1 DEF Delivery, InFlight
  <2>4. QED
    BY <2>2, <2>3
<1>4. CASE \/ CollectTimes(r) \/ CollectHosts(r)
           \/ mpiPi_mergeCollectiveStats(r) \/ mpiPi_mergept2ptStats(r)
  <2>1. /\ UNCHANGED <<gen, ac, chan, merged, left, failed, snaps>>
        /\ \A s \in Rank \ {r} : pc'[s] = pc[s] /\ inside'[s] = inside[s]
    BY <1>4, Gathers
  <2>2. \/ pc[r] \in {"basics", "hosts"} /\ pc'[r] \in {"basics", "hosts"}
        \/ pc[r] \in {"basics", "hosts"} /\ pc'[r] = "count" /\ ~inside'[r]
        \/ pc[r] \in {"coll", "pt2pt"} /\ pc'[r] \in {"coll", "pt2pt", "publish"}
    BY <1>4, Gathers
  <2>3. CASE r # Collector
    <3>1. ~Sent(r) /\ ~Sent(r)'
      BY <2>2 DEF Sent
    <3>2. Late(r)' => Late(r)
      BY <1>1, <2>1, <2>2 DEF Late
    <3>3. QED
      BY <1>1, <2>1, <2>3, <3>1, <3>2, DeliveryOfOther
  <2>4. CASE r = Collector
    <3>1. ~Window /\ ~Window' /\ pc[r] # "recv" /\ pc'[r] # "recv"
      BY <2>2, <2>4 DEF Window
    <3>2. QED
      BY <2>1, <2>2, <2>4, <3>1, DeliveryOfCollector DEF Others
  <2>5. QED
    BY <2>3, <2>4
<1>5. CASE CountRecords(r)
  <2>1. UNCHANGED <<gen, chan, merged, left, failed>> /\ pc[r] = "count"
    BY <1>5 DEF CountRecords, collVars
  <2>2. /\ pc'[r] \in {"count", "max"}
        /\ \A s \in Rank \ {r} : /\ pc'[s] = pc[s] /\ inside'[s] = inside[s]
                                 /\ ac'[s] = ac[s] /\ snaps'[s] = snaps[s]
    <3>1. /\ pc'[r] \in {"count", "max"}
          /\ \A s \in Rank \ {r} : pc'[s] = pc[s] /\ inside'[s] = inside[s]
      BY <1>5, Entering, Leaving DEF CountRecords
    <3>2. \A s \in Rank \ {r} : ac'[s] = ac[s] /\ snaps'[s] = snaps[s]
      BY <1>5 DEF CountRecords, Typed, TypeOK
    <3>3. QED
      BY <3>1, <3>2
  <2>3. CASE r # Collector
    <3>1. ~Sent(r) /\ ~Sent(r)' /\ (Late(r)' => Late(r))
      BY <1>1, <2>1, <2>2 DEF Sent, Late
    <3>2. ASSUME pc[Collector] \in {"status", "coll", "pt2pt", "publish"}
          PROVE  snaps'[r][gen[Collector]] = snaps[r][gen[Collector]]
      <4>1. gen[Collector] \in 1 .. Len(snaps[r])
        BY <3>2, PastReceives
      <4>2. snaps'[r] = snaps[r] \/ snaps'[r] = Append(snaps[r], nrec[r])
        BY <1>5 DEF CountRecords, Typed
      <4>3. snaps[r] \in Seq(0 .. MaxRecords)
        BY DEF Typed
      <4>4. QED
        BY <4>1, <4>2, <4>3
    <3>3. QED
      BY <1>1, <2>1, <2>2, <2>3, <3>1, <3>2, DeliveryOfOther
  <2>4. CASE r = Collector
    <3>1. ~Received(r) /\ pc[r] # "recv" /\ pc'[r] \notin {"recv", "status", "coll", "pt2pt", "publish"}
      BY <2>1, <2>2, <2>4 DEF Received
    <3>2. \A s \in Others : /\ Sent(s)' <=> Sent(s)
                            /\ Message(s)' = Message(s)
                            /\ ~Received(s) /\ ~Received(s)'
      BY <2>1, <2>2, <2>4, <3>1 DEF Sent, Message, Received, Others
    <3>3. Window' = Window \/ \A s \in Others : ~Sent(s)
      <4>1. CASE inside[r]
        <5>1. Leave(r, "max")
          BY <1>5, <4>1 DEF CountRecords, Enter
        <5>2. Window /\ Window'
          BY <2>1, <2>4, <4>1, <5>1, Leaving DEF Window
        <5>3. QED
          BY <5>2
      <4>2. CASE ~inside[r]
        BY <2>1, <2>4, <4>2, NothingSentYet DEF Others
      <4>3. QED
        BY <4>1, <4>2
    <3>4. \A s \in Rank : InFlight(s)' <=> InFlight(s)
      BY <3>2, <3>3 DEF InFlight, Others
    <3>5. \A s \in Rank : InFlight(s) => Message(s)' = Message(s)
      BY <3>2 DEF InFlight, Others
    <3>6. QED
      BY <2>1, <2>4, <3>1, <3>4, <3>5, DeliveryKept
  <2>5. QED
    BY <2>3, <2>4
<1>6. CASE SizeBuffer(r)
  <2>1. UNCHANGED <<gen, ac, chan, merged, left, failed, snaps>> /\ pc[r] = "max"
    BY <1>6 DEF SizeBuffer, taskVars
  <2>2. \A s \in Rank \ {r} : pc'[s] = pc[s] /\ inside'[s] = inside[s]
    BY <1>6, Entering, Leaving DEF SizeBuffer
  <2>3. /\ pc'[r] \in {"max", "run"} \/ pc'[r] = IF r = Collector THEN "alloc" ELSE "send"
        /\ pc'[r] = "run" => ~some[r]
    <3>1. CASE UNCHANGED pc
      BY <2>1, <3>1
    <3>2. CASE Leave(r, IF Omits(r) THEN "run" ELSE IF r = Collector THEN "alloc" ELSE "send")
      <4>1. PICK to : to = IF Omits(r) THEN "run" ELSE IF r = Collector THEN "alloc" ELSE "send"
        OBVIOUS
      <4>2. Leave(r, to)
        BY <3>2, <4>1
      <4>3. pc'[r] = to
        BY <4>2, Leaving
      <4>4. to = "run" \/ to = IF r = Collector THEN "alloc" ELSE "send"
        BY <4>1
      <4>5. to = "run" => ~some[r]
        BY <4>1 DEF Omits
      <4>6. QED
        BY <4>3, <4>4, <4>5
    <3>3. QED
      BY <1>6, <3>1, <3>2 DEF SizeBuffer
  <2>4. CASE r # Collector
    <3>1. ~Sent(r) /\ ~Sent(r)' /\ (Late(r)' => Late(r))
      BY <1>1, <2>1, <2>2, <2>3, <2>4 DEF Sent, Late
    <3>2. QED
      BY <1>1, <2>1, <2>2, <2>4, <3>1, DeliveryOfOther
  <2>5. CASE r = Collector
    <3>1. pc'[r] \in {"max", "alloc"} \/ (pc'[r] = "run" /\ ~some[r])
      BY <2>3, <2>5
    <3>2. (Window' <=> Window) \/ \A s \in Others : ~Sent(s)
      <4>1. CASE pc'[r] \in {"max", "alloc"}
        <5>1. Window /\ Window'
          BY <2>1, <2>5, <4>1 DEF Window
        <5>2. QED
          BY <5>1
      <4>2. CASE ~some[r]
        BY <2>1, <2>5, <4>2, NothingToSend DEF Others
      <4>3. QED
        BY <3>1, <4>1, <4>2
    <3>3. QED
      BY <2>1, <2>2, <2>5, <3>1, <3>2, DeliveryOfCollector DEF Others
  <2>6. QED
    BY <2>4, <2>5
<1>7. CASE OpenTables
  BY <1>7, OpenDelivery
<1>8. CASE ReceivedAll
  BY <1>8, ReceivedDelivery
<1>9. CASE \E s \in Others : ReceiveFrom(s)
  BY <1>9, ReceiveDelivery
<1>10. CASE SendRecords(r)
  BY <1>10, SendDelivery
<1>11. CASE AgreeOnStatus(r)
  <2>1. UNCHANGED <<gen, ac, chan, merged, left, failed, snaps>> /\ pc[r] = "status"
    BY <1>11 DEF AgreeOnStatus, collVars
  <2>2. AfterMerge \in {"coll", "pt2pt", "publish"}
    BY DEF AfterMerge, AfterColl, AfterPt2pt
  <2>3. /\ \A s \in Rank \ {r} : pc'[s] = pc[s] /\ inside'[s] = inside[s]
        /\ \/ UNCHANGED pc
           \/ /\ pc'[r] \in {"coll", "pt2pt", "publish", "run"}
              /\ \E to : Leave(r, to)
    BY <1>11, <2>2, Entering, Leaving DEF AgreeOnStatus
  <2>4. CASE r # Collector /\ UNCHANGED pc
    <3>1. UNCHANGED <<pc, gen, ac, chan, merged, left, failed, snaps>>
      BY <2>1, <2>4
    <3>2. Window' <=> Window
      BY <1>1, <2>3, <2>4 DEF Window
    <3>3. \A s \in Rank : InFlight(s)' <=> InFlight(s)
      BY <3>1, <3>2 DEF InFlight, Sent, Received
    <3>4. QED
      BY <3>1, <3>3 DEF Delivery, Sent, Message, Late, Waiting
  <2>5. CASE r # Collector /\ \E to : Leave(r, to)
    <3>1. Window => ~Sent(r)
      BY <2>1, <2>5, NotLeftYet
    <3>2. pc[Collector] = "recv" => Window
      BY DEF Window
    <3>3. (Sent(r)' => Sent(r)) /\ (Late(r)' => Late(r))
      <4>1. gen' = gen /\ pc[r] = "status"
        BY <2>1
      <4>2. pc'[r] \in {"status", "coll", "pt2pt", "publish", "run"}
        BY <2>1, <2>3
      <4>3. QED
        BY <4>1, <4>2 DEF Sent, Late
    <3>4. QED
      BY <1>1, <2>1, <2>3, <2>5, <3>1, <3>2, <3>3, DeliveryOfOther
  <2>6. CASE r = Collector
    <3>1. ~Window /\ ~Window'
      BY <2>1, <2>3, <2>6 DEF Window
    <3>2. pc'[r] \in {"status", "coll", "pt2pt", "publish", "run"}
      BY <2>1, <2>3
    <3>3. QED
      BY <2>1, <2>3, <2>6, <3>1, <3>2, DeliveryOfCollector DEF Others
  <2>7. QED
    BY <2>3, <2>4, <2>5, <2>6
<1>12. CASE mpiPi_publishResults(r)
  <2>1. UNCHANGED <<gen, ac, chan, merged, left, failed, snaps>> /\ pc[r] = "publish"
    BY <1>12 DEF mpiPi_publishResults, collVars
  <2>2. /\ \A s \in Rank \ {r} : pc'[s] = pc[s] /\ inside'[s] = inside[s]
        /\ pc'[r] \in {"publish", "run"}
    BY <1>12, <2>1, Entering, Leaving DEF mpiPi_publishResults
  <2>3. CASE r # Collector
    <3>1. ~Sent(r) /\ ~Sent(r)' /\ ~Late(r)'
      BY <2>1, <2>2 DEF Sent, Late
    <3>2. QED
      BY <1>1, <2>1, <2>2, <2>3, <3>1, DeliveryOfOther
  <2>4. CASE r = Collector
    <3>1. ~Window /\ ~Window'
      BY <2>1, <2>2, <2>4 DEF Window
    <3>2. QED
      BY <2>1, <2>2, <2>4, <3>1, DeliveryOfCollector DEF Others
  <2>5. QED
    BY <2>3, <2>4
<1>13. QED
  BY <1>2, <1>3, <1>4, <1>5, <1>6, <1>7, <1>8, <1>9, <1>10, <1>11, <1>12
     DEF Report, mpiPi_mergeResults
-----------------------------------------------------------------------------
(* The inductive invariant. *)

\* It holds before the first report.
LEMMA InitHolds ==
  ASSUME Init
  PROVE  IInv
<1>1. Typed /\ \E c : Chain(c)
  BY InitChain
<1>2. /\ Collector \in Rank /\ \A r \in Rank : pc[r] = "run"
      /\ \A r \in Rank : inside[r] = FALSE
      /\ \A r \in Rank : /\ gen[r] = 0 /\ ac[r] = 0 /\ nrec[r] = 0
                         /\ snaps[r] = <<>> /\ chan[r] = <<>> /\ toPrint[r] = 0
      /\ log = <<>> /\ failed = FALSE
  BY ReportAssumption DEF Init
<1>3. Counting
  BY <1>2 DEF Counting, Uncounted
<1>4. ~Window
  BY <1>2 DEF Window
<1>5. Delivery
  BY <1>2, <1>4 DEF Delivery, InFlight
<1>6. Sizes
  BY <1>2 DEF Sizes
<1>7. Logging
  <2>1. opt.publishes \in {1, 2}
    BY <1>1 DEF Typed, TypeOK, Option
  <2>2. QED
    BY <1>2, <2>1 DEF Logging, Ended, NoBuffer
<1>8. QED
  BY <1>1, <1>3, <1>5, <1>6, <1>7 DEF IInv

\* The types, by action.
LEMMA TypedStep ==
  ASSUME Typed, NEW c, Chain(c), NEW r \in Rank, NewRecord(r) \/ Report(r)
  PROVE  Typed'
<1>1. CASE NewRecord(r)
  BY <1>1, RecordTyped
<1>2. CASE mpiPi_generateReport(r)
  BY <1>2, GenerateTyped
<1>3. CASE \/ CollectTimes(r) \/ CollectHosts(r)
           \/ mpiPi_mergeCollectiveStats(r) \/ mpiPi_mergept2ptStats(r)
  BY <1>3, GatherTyped
<1>4. CASE CountRecords(r)
  BY <1>4, CountTyped
<1>5. CASE SizeBuffer(r)
  BY <1>5, SizeTyped
<1>6. CASE OpenTables
  BY <1>6, OpenTyped
<1>7. CASE ReceivedAll
  BY <1>7, ReceivedTyped
<1>8. CASE \E s \in Others : ReceiveFrom(s)
  BY <1>8, ReceiveTyped
<1>9. CASE SendRecords(r)
  BY <1>9, SendTyped
<1>10. CASE AgreeOnStatus(r)
  BY <1>10, AgreeTyped
<1>11. CASE mpiPi_publishResults(r)
  BY <1>11, PublishTyped
<1>12. QED
  BY <1>1, <1>2, <1>3, <1>4, <1>5, <1>6, <1>7, <1>8, <1>9, <1>10, <1>11
     DEF Report, mpiPi_mergeResults

\* The chain, by action.
LEMMA ChainStep ==
  ASSUME Typed, Typed', Counting, NEW c, Chain(c), NEW r \in Rank, NewRecord(r) \/ Report(r)
  PROVE  \E d : Chain(d)'
<1>1. CASE NewRecord(r)
  BY <1>1, RecordChain
<1>2. CASE mpiPi_generateReport(r)
  BY <1>2, GenerateChain
<1>3. CASE \/ CollectTimes(r) \/ CollectHosts(r)
           \/ mpiPi_mergeCollectiveStats(r) \/ mpiPi_mergept2ptStats(r)
  BY <1>3, GatherChain
<1>4. CASE CountRecords(r)
  BY <1>4, CountChain
<1>5. CASE SizeBuffer(r)
  BY <1>5, SizeChain
<1>6. CASE OpenTables \/ ReceivedAll \/ (\E s \in Others : ReceiveFrom(s)) \/ SendRecords(r)
  BY <1>6, TransferChain
<1>7. CASE AgreeOnStatus(r)
  BY <1>7, AgreeChain
<1>8. CASE mpiPi_publishResults(r)
  BY <1>8, PublishChain
<1>9. QED
  BY <1>1, <1>2, <1>3, <1>4, <1>5, <1>6, <1>7, <1>8 DEF Report, mpiPi_mergeResults

\* A step that changes nothing keeps the invariant.
LEMMA NothingChanges ==
  ASSUME IInv, UNCHANGED vars
  PROVE  IInv'
<1>1. UNCHANGED <<opt, pc, calls, inside, nrec, gen, ac, some, toPrint, chan, maxCount, merged,
                  left, retval, failed, snaps, log>>
  BY DEF vars, taskVars, collVars, histVars
<1>2. Typed'
  BY <1>1 DEF IInv, Typed, TypeOK
<1>3. \E c : Chain(c)'
  <2>1. PICK c : Chain(c)
    BY DEF IInv
  <2>2. Chain(c)'
    BY <1>1, <2>1 DEF Chain, Along, Pos, Sound, Follows, Made, At, Entered, NonZero, AllOk,
         AfterMerge, AfterColl, AfterPt2pt
  <2>3. QED
    BY <2>2
<1>4. Counting'
  BY <1>1 DEF IInv, Counting, Uncounted
<1>5. Delivery'
  BY <1>1 DEF IInv, Delivery, InFlight, Window, Sent, Received, Message, Late, Waiting
<1>6. Sizes'
  BY <1>1 DEF IInv, Sizes
<1>7. Logging'
  BY <1>1 DEF IInv, Logging, Ended, LogHasFailed, NoBuffer
<1>8. QED
  BY <1>2, <1>3, <1>4, <1>5, <1>6, <1>7 DEF IInv

\* Every step keeps it.
LEMMA NextHolds ==
  ASSUME IInv, [Next]_vars
  PROVE  IInv'
<1>1. CASE UNCHANGED vars
  BY <1>1, NothingChanges
<1>2. ASSUME NEW r \in Rank, NewRecord(r) \/ Report(r) PROVE IInv'
  <2>1. PICK c : Chain(c)
    BY DEF IInv
  <2>2. Typed /\ Counting /\ Delivery /\ Sizes /\ Logging
    BY DEF IInv
  <2>3. Typed'
    BY <1>2, <2>1, <2>2, TypedStep
  <2>4. \E d : Chain(d)'
    BY <1>2, <2>1, <2>2, <2>3, ChainStep
  <2>5. Counting'
    BY <1>2, <2>2, <2>3, CountingStep
  <2>6. Delivery'
    BY <1>2, <2>1, <2>2, <2>3, DeliveryStep
  <2>7. Sizes'
    BY <1>2, <2>1, <2>2, <2>3, SizesStep
  <2>8. Logging'
    BY <1>2, <2>1, <2>2, <2>3, LoggingStep
  <2>9. QED
    BY <2>3, <2>4, <2>5, <2>6, <2>7, <2>8 DEF IInv
<1>3. QED
  BY <1>1, <1>2 DEF Next, Finished

\* In every state of every run the tasks are on a common chain of collective calls, and
\* the counts, the messages, the buffer and the log are those of that chain.
THEOREM Invariance == Spec => []IInv
<1>1. Init => IInv
  BY InitHolds
<1>2. IInv /\ [Next]_vars => IInv'
  BY NextHolds
<1>3. QED
  BY <1>1, <1>2, PTL DEF Spec

-----------------------------------------------------------------------------
(* The properties. *)

\* Every variable has its type: no task counts beyond its table or prints a third copy,
\* and the number of receives left is never negative.
THEOREM TypeCorrect == Spec => []TypeOK
<1>1. IInv => TypeOK
  BY DEF IInv, Typed
<1>2. QED
  BY <1>1, Invariance, PTL

\* Whatever stages the options and the reports leave out, the calls of any two tasks at
\* one position are the same operation.
THEOREM CallsMatch == Spec => []MatchedCalls
<1>1. IInv => MatchedCalls
  <2>1. SUFFICES ASSUME IInv, NEW r \in Rank, NEW s \in Rank,
                        NEW k \in DOMAIN calls[r] \cap DOMAIN calls[s]
                 PROVE  calls[r][k].op = calls[s][k].op
    BY DEF MatchedCalls
  <2>2. PICK c : Chain(c)
    BY <2>1 DEF IInv
  <2>3. k \in 1 .. Len(calls[r]) /\ k \in 1 .. Len(calls[s])
    <3>1. /\ calls[r] \in Seq([op : Rooted \cup Joint, val : Nat])
          /\ calls[s] \in Seq([op : Rooted \cup Joint, val : Nat])
      BY <2>1 DEF IInv, Typed, TypeOK
    <3>2. QED
      BY <3>1
  <2>4. Made(r, k, c[k]) /\ Made(s, k, c[k])
    BY <2>2, <2>3 DEF Chain, Along
  <2>5. QED
    BY <2>4 DEF Made
<1>2. QED
  BY <1>1, Invariance, PTL

\* The tables a report is written from hold one message of every task, of this report.
THEOREM OneMessageEach == Spec => []MergedOnce
<1>1. IInv => MergedOnce
  BY DEF IInv, Delivery, MergedOnce
<1>2. QED
  BY <1>1, Invariance, PTL

\* No message is larger than the buffer it is received into.
THEOREM BufferSuffices == Spec => []RecvFits
<1>1. IInv => RecvFits
  <2>1. SUFFICES ASSUME IInv, pc[Collector] = "recv", NEW r \in Rank, chan[r] # <<>>
                 PROVE  Head(chan[r]).n <= maxCount
    BY DEF RecvFits
  <2>2. chan[r] \in Seq([gen : Nat, n : Nat]) /\ ac[r] \in Nat /\ maxCount \in Nat
    BY <2>1, Numbers DEF IInv, Typed, TypeOK
  <2>3. 1 \in 1 .. Len(chan[r]) /\ Head(chan[r]) = chan[r][1] /\ chan[r][1].n \in Nat
    <3>1. Head(chan[r]) = chan[r][1] /\ 1 \in 1 .. Len(chan[r])
      BY <2>1, <2>2
    <3>2. chan[r][1] \in [gen : Nat, n : Nat]
      BY <2>2, <3>1, ElementOfSeq
    <3>3. QED
      BY <3>1, <3>2
  <2>4. chan[r][1].n <= ac[r] /\ ac[r] <= maxCount
    BY <2>1, <2>3 DEF IInv, Sizes
  <2>5. QED
    BY <2>2, <2>3, <2>4
<1>2. QED
  BY <1>1, Invariance, PTL

\* A task that has begun the next report has no message of the last one in flight.
THEOREM MessagesEnd == Spec => []NothingLeftBehind
<1>1. IInv => NothingLeftBehind
  <2>1. SUFFICES ASSUME IInv, ~failed, NEW r \in Rank,
                        pc[r] \in {"run", "basics", "hosts", "count", "max"}
                 PROVE  chan[r] = <<>>
    BY DEF NothingLeftBehind
  <2>2. ~InFlight(r)
    BY <2>1 DEF InFlight, Sent
  <2>3. QED
    BY <2>1, <2>2 DEF IInv, Delivery
<1>2. QED
  BY <1>1, Invariance, PTL
-----------------------------------------------------------------------------
(* The reports are atomic. *)

\* The report that ends now is the next one of the log; the counts for it are all there.
LEMMA CurrentReport ==
  ASSUME IInv, pc[Collector] \in {"max", "status", "publish"}, Ended = gen[Collector] - 1
  PROVE  /\ Abstract!Current = gen[Collector] /\ Abstract!Ready
         /\ pc[Collector] # "max" => ~Abstract!Empty
         /\ pc[Collector] = "max" /\ ~some[Collector] => Abstract!Empty
<1>1. PICK c : Chain(c)
  BY DEF IInv
<1>2. Collector \in Rank /\ Typed /\ gen[Collector] \in Nat
  BY ReportAssumption, Numbers DEF IInv
<1>3. Abstract!Current = gen[Collector]
  BY <1>2 DEF IInv, Logging, Abstract!Current
<1>4. /\ gen[Collector] >= 1
      /\ \A s \in Rank : gen[Collector] <= Len(snaps[s])
      /\ pc[Collector] # "max" => \E s \in Rank : snaps[s][gen[Collector]] > 0
      /\ pc[Collector] = "max" => (some[Collector] <=> \E s \in Rank : snaps[s][gen[Collector]] > 0)
  BY <1>1, <1>2, AllCounted DEF Behind
<1>5. \A s \in Rank : snaps[s][gen[Collector]] \in Nat /\ Len(snaps[s]) \in Nat
  BY <1>2, <1>4, Lengths, ReportAssumption
<1>6. Abstract!Ready
  BY <1>2, <1>3, <1>4, <1>5 DEF Abstract!Ready
<1>7. pc[Collector] # "max" => ~Abstract!Empty
  BY <1>3, <1>4, <1>5 DEF Abstract!Empty
<1>8. pc[Collector] = "max" /\ ~some[Collector] => Abstract!Empty
  BY <1>3, <1>4, <1>5 DEF Abstract!Empty
<1>9. QED
  BY <1>3, <1>6, <1>7, <1>8

\* An entry added to the log ends the current report.
LEMMA EntryEnds ==
  ASSUME IInv, pc[Collector] \in {"max", "status", "publish"}, Ended = gen[Collector] - 1,
         NEW e \in Entry, log' = Append(log, e), UNCHANGED <<opt, snaps>>
  PROVE  Abstract!Ends(e.kind) /\ log'[Abstract!Current] = e
<1>1. /\ Len(log') = Len(log) + 1
      /\ log'[Len(log) + 1] = e
      /\ SubSeq(log', 1, Len(log)) = log
  BY LongerLog DEF IInv
<1>2. Abstract!Ready
  BY CurrentReport
<1>3. QED
  BY <1>1, <1>2 DEF Abstract!Ends, Abstract!Current

\* The collector omits a report if and only if it is empty.
LEMMA OmitStep ==
  ASSUME IInv, SizeBuffer(Collector), log' # log
  PROVE  Abstract!Omit
<1>1. /\ pc[Collector] = "max" /\ UNCHANGED <<opt, snaps>>
      /\ log' = Append(log, [kind |-> "omitted"]) /\ Omits(Collector)
  BY DEF SizeBuffer
<1>2. Ended = gen[Collector] - 1
  BY <1>1 DEF Ended
<1>3. PICK e \in Entry : e = [kind |-> "omitted"]
  BY DEF Entry
<1>4. e.kind = "omitted" /\ log' = Append(log, e)
  BY <1>1, <1>3
<1>5. Abstract!Ends(e.kind)
  BY <1>1, <1>2, <1>4, EntryEnds
<1>6. Abstract!Empty
  BY <1>1, <1>2, CurrentReport DEF Omits
<1>7. QED
  BY <1>4, <1>5, <1>6 DEF Abstract!Omit

\* A report fails only on a machine short of memory: the one task that may contribute
\* other than 1 to the Allreduce of the results is the collector.
LEMMA FailStep ==
  ASSUME IInv, AgreeOnStatus(Collector), log' # log
  PROVE  Abstract!Fail
<1>1. PICK c : Chain(c)
  BY DEF IInv
<1>2. /\ pc[Collector] = "status" /\ UNCHANGED <<opt, snaps>> /\ Collector \in Rank
      /\ log' = Append(log, [kind |-> "failed"])
      /\ Leave(Collector, "run")
      /\ ~(\A s \in Rank : Contribution(Collector)[s] = 1)
  BY ReportAssumption DEF AgreeOnStatus
<1>3. Ended = gen[Collector] - 1
  BY <1>2 DEF Ended
<1>4. PICK e \in Entry : e = [kind |-> "failed"]
  BY DEF Entry
<1>5. e.kind = "failed" /\ log' = Append(log, e)
  BY <1>2, <1>4
<1>6. Abstract!Ends(e.kind)
  BY <1>2, <1>3, <1>5, EntryEnds
<1>7. ~Abstract!Empty
  BY <1>2, <1>3, CurrentReport
<1>8. opt.scarce
  <2>1. inside[Collector] /\ AllEntered(Collector)
    BY <1>2 DEF Leave, Rooted
  <2>2. \A s \in Rank : s # Collector => Contribution(Collector)[s] = 1
    BY <1>1, <1>2, <2>1, Contributed DEF IInv
  <2>3. Contribution(Collector)[Collector] # 1
    BY <1>2, <2>2
  <2>4. calls[Collector][Len(calls[Collector])].val # 1
    BY <1>2, <2>3 DEF Contribution
  <2>5. retval = 0
    BY <1>2, <2>1, <2>4 DEF IInv, Logging, Typed, TypeOK
  <2>6. QED
    BY <1>2, <2>5 DEF IInv, Logging, NoBuffer
<1>9. QED
  BY <1>5, <1>6, <1>7, <1>8 DEF Abstract!Fail

\* The collector writes a report from one message of every task, that of its count for
\* this report.
LEMMA PublishStep ==
  ASSUME IInv, mpiPi_publishResults(Collector), log' # log
  PROVE  Abstract!Publish
<1>1. /\ pc[Collector] = "publish" /\ UNCHANGED <<opt, snaps>> /\ Collector \in Rank
      /\ log' = Append(log, [kind |-> "published", parts |-> merged])
      /\ toPrint[Collector] = opt.publishes
  BY ReportAssumption DEF mpiPi_publishResults
<1>2. Ended = gen[Collector] - 1
  <2>1. ~(toPrint[Collector] < opt.publishes)
    BY <1>1, Numbers DEF IInv
  <2>2. QED
    BY <1>1, <2>1 DEF Ended
<1>3. PICK e \in Entry : e = [kind |-> "published", parts |-> merged]
  BY DEF Entry, IInv, Typed, TypeOK
<1>4. e.kind = "published" /\ e.parts = merged /\ log' = Append(log, e)
  BY <1>1, <1>3
<1>5. Abstract!Ends(e.kind) /\ log'[Abstract!Current] = e
  BY <1>1, <1>2, <1>4, EntryEnds
<1>6. Abstract!Current = gen[Collector] /\ ~Abstract!Empty
  BY <1>1, <1>2, CurrentReport
<1>7. CASE ~failed
  <2>1. \A r \in Rank : merged[r] = << [gen |-> gen[Collector],
                                        n |-> snaps[r][gen[Collector]]] >>
    BY <1>1, <1>7 DEF IInv, Delivery
  <2>2. merged \in [Rank -> Seq([gen : Nat, n : Nat])]
    BY DEF IInv, Typed, TypeOK
  <2>3. merged = Abstract!Parts(gen[Collector])
    BY <2>1, <2>2 DEF Abstract!Parts
  <2>4. QED
    BY <1>4, <1>5, <1>6, <2>3 DEF Abstract!Publish
<1>8. CASE failed
  <2>1. ~NoBuffer
    BY <1>1 DEF NoBuffer
  <2>2. LogHasFailed
    BY <1>8, <2>1 DEF IInv, Logging
  <2>3. log \in Seq(Entry)
    BY DEF IInv, Typed
  <2>4. Abstract!HasFailed
    BY <2>2, <2>3 DEF LogHasFailed, Abstract!HasFailed
  <2>5. QED
    BY <1>4, <1>5, <1>6, <2>4 DEF Abstract!Publish
<1>9. QED
  BY <1>7, <1>8

\* A count is a snapshot of the task.
LEMMA SnapshotStep ==
  ASSUME IInv, NEW r \in Rank, CountRecords(r)
  PROVE  Abstract!Snapshot(r) \/ UNCHANGED <<opt, snaps, log>>
<1>1. UNCHANGED <<opt, log>>
  BY DEF CountRecords
<1>2. CASE snaps' = [snaps EXCEPT ![r] = Append(@, nrec[r])]
  <2>1. nrec[r] \in 0 .. MaxRecords
    BY DEF IInv, Typed, TypeOK
  <2>2. QED
    BY <1>1, <1>2, <2>1 DEF Abstract!Snapshot
<1>3. QED
  BY <1>1, <1>2 DEF CountRecords

\* Every step of the tasks is a step of the atomic report, or none.
LEMMA AbstractStep ==
  ASSUME IInv, [Next]_vars
  PROVE  [Abstract!Next]_(Abstract!vars)
<1>1. ASSUME UNCHANGED <<opt, snaps, log>> PROVE UNCHANGED Abstract!vars
  BY <1>1 DEF Abstract!vars
<1>2. CASE UNCHANGED vars
  BY <1>1, <1>2 DEF vars, histVars
<1>3. ASSUME NEW r \in Rank, NewRecord(r) \/ Report(r)
      PROVE  Abstract!Next \/ UNCHANGED <<opt, snaps, log>>
  <2>1. CASE NewRecord(r) \/ mpiPi_generateReport(r)
    BY <2>1 DEF NewRecord, mpiPi_generateReport, histVars
  <2>2. CASE \/ CollectTimes(r) \/ CollectHosts(r)
             \/ mpiPi_mergeCollectiveStats(r) \/ mpiPi_mergept2ptStats(r)
    BY <2>2 DEF CollectTimes, CollectHosts, mpiPi_mergeCollectiveStats, mpiPi_mergept2ptStats,
         histVars
  <2>3. CASE CountRecords(r)
    BY <2>3, SnapshotStep DEF Abstract!Next
  <2>4. CASE SizeBuffer(r)
    <3>1. UNCHANGED <<opt, snaps>> /\ (log' = log \/ r = Collector)
      BY <2>4 DEF SizeBuffer
    <3>2. QED
      BY <2>4, <3>1, OmitStep DEF Abstract!Next
  <2>5. CASE OpenTables \/ ReceivedAll \/ (\E s \in Others : ReceiveFrom(s)) \/ SendRecords(r)
    BY <2>5 DEF OpenTables, ReceivedAll, ReceiveFrom, SendRecords, histVars
  <2>6. CASE AgreeOnStatus(r)
    <3>1. UNCHANGED <<opt, snaps>> /\ (log' = log \/ r = Collector)
      BY <2>6 DEF AgreeOnStatus
    <3>2. QED
      BY <2>6, <3>1, FailStep DEF Abstract!Next
  <2>7. CASE mpiPi_publishResults(r)
    <3>1. UNCHANGED <<opt, snaps>> /\ (log' = log \/ r = Collector)
      BY <2>7 DEF mpiPi_publishResults
    <3>2. QED
      BY <2>7, <3>1, PublishStep DEF Abstract!Next
  <2>8. QED
    BY <1>3, <2>1, <2>2, <2>3, <2>4, <2>5, <2>6, <2>7 DEF Report, mpiPi_mergeResults
<1>4. QED
  BY <1>1, <1>2, <1>3 DEF Next, Finished

\* The protocol of counts, messages and collective calls delivers atomic reports, whatever
\* the numbers of tasks, of reports and of records and the order of the tasks' steps.
THEOREM ReportsAreAtomic == Spec => RefinesAtomicReport
<1>1. Init => Abstract!Init
  <2>1. Init => opt \in Option
    BY ReportAssumption DEF Init
  <2>2. QED
    BY <2>1 DEF Init, Abstract!Init, Option
<1>2. IInv /\ [Next]_vars => [Abstract!Next]_(Abstract!vars)
  BY AbstractStep
<1>3. QED
  BY <1>1, <1>2, Invariance, PTL DEF Spec, RefinesAtomicReport, Abstract!Spec
=============================================================================
