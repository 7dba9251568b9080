--------------------------- MODULE Printing_proofs ---------------------------
(***************************************************************************)
(* Theorems of module Printing, for any number of tasks and call sites,    *)
(* any records and any sequence of reports.                                *)
(*                                                                         *)
(* The tasks of a report with -l start at the same place, and what decides *)
(* where a task goes next is what the collector broadcast: so they stay at *)
(* the same place, and the place is one in the list the collector walks    *)
(* (Invariance, SameCalls).                                                *)
(*                                                                         *)
(* What is printed is exact because a walk through sorted records, when it *)
(* has visited the records D, has the rows of those of D and the summary   *)
(* of the last call site of D (Walked, ConciseWalked): that gives the      *)
(* sections the collector prints alone.  With -l the records gathered of a *)
(* call site stand for those of the collector (StandsFor), and when a task *)
(* is at the k-th call site of a section the rows are those of the k - 1   *)
(* before it, in the order of the list (Progress, Sound).                  *)
(***************************************************************************)
EXTENDS Printing, SumTheorems

-----------------------------------------------------------------------------
(* The inductive invariant. *)

Steps   == {"gate", "malloc", "count", "total", "site", "gather", "min", "max", "sum", "tasks"}
OfASite == {"total", "site", "gather", "min", "max", "sum", "tasks"}

\* A place has its fields.
Shaped(x) == x = [sec |-> x.sec, step |-> x.step, i |-> x.i, n |-> x.n, site |-> x.site]

\* A place is one of a report in print: in a section, or behind the last one; and where it is
\* about a call site, about one of those the collector has listed.
Proper(x) ==
  /\ x.sec \in 1 .. 5 /\ x.i \in Nat /\ x.n \in Nat /\ x.i <= x.n
  /\ x.step \in Steps \cup {"end"}
  /\ x.step = "end" <=> x.sec = 5
  /\ x.step \in OfASite => x.n = Cardinality(Listed(Order[x.sec])) /\ x.i \in 1 .. x.n

\* All tasks are at the place the collector is at.
Together == \A t \in Rank : st[t] = st[Collector]

\* The records are of the call sites there are.
OfSites == \A t \in Rank : \A r \in table[t] : r.site \in Site

IInv == Together /\ Shaped(st[Collector]) /\ Proper(st[Collector]) /\ OfSites

-----------------------------------------------------------------------------
(* The places of a report. *)

\* The collector's lists are finite.
LEMMA ListedFinite ==
  ASSUME OfSites, NEW sec
  PROVE  Cardinality(Listed(sec)) \in Nat
<1>1. Listed(sec) \subseteq 1 .. Sites
  BY DEF Listed, AggSites, Records, OfSites, Site
<1>2. IsFiniteSet(1 .. Sites)
  BY FS_Interval, PrintingAssumption
<1>3. QED
  BY <1>1, <1>2, FS_Subset, FS_CardinalityType

\* The beginning of a section, or the end.
LEMMA StartProper ==
  ASSUME NEW sec \in 1 .. 5
  PROVE  Shaped(Start(sec)) /\ Proper(Start(sec))
<1>1. PICK step : step = (IF sec > 4 THEN "end" ELSE IF style = "concise" THEN "count"
                          ELSE IF Order[sec] = "time" THEN "malloc" ELSE "gate")
  OBVIOUS
<1>2. step \in Steps \cup {"end"} /\ (step = "end" <=> sec = 5) /\ step \notin OfASite
  BY <1>1 DEF Steps, OfASite
<1>3. Start(sec) = [[Outside EXCEPT !.sec = sec] EXCEPT !.step = step]
  BY <1>1 DEF Start
<1>4. Start(sec) = [sec |-> sec, step |-> step, i |-> 0, n |-> 0, site |-> 0]
  BY <1>3 DEF Outside
<1>5. QED
  BY <1>2, <1>4 DEF Shaped, Proper

\* The next call site, or the next section.
LEMMA NextSiteProper ==
  ASSUME NEW x, Shaped(x), x.sec \in 1 .. 4, x.i \in Nat, x.n \in Nat,
         x.n = Cardinality(Listed(Order[x.sec]))
  PROVE  Shaped(NextSite(x)) /\ Proper(NextSite(x))
<1>1. CASE x.i >= x.n
  <2>1. x.sec + 1 \in 1 .. 5 /\ NextSite(x) = Start(x.sec + 1)
    BY <1>1 DEF NextSite
  <2>2. QED
    BY <2>1, StartProper
<1>2. CASE ~(x.i >= x.n)
  <2>1. PICK step : step = IF style = "concise" \/ Order[x.sec] = "time" THEN "site" ELSE "total"
    OBVIOUS
  <2>2. step \in Steps /\ step \in OfASite /\ step # "end"
    BY <2>1 DEF Steps, OfASite
  <2>3. NextSite(x) = [x EXCEPT !.i = x.i + 1, !.step = step]
    BY <1>2, <2>1 DEF NextSite
  <2>4. NextSite(x) = [sec |-> x.sec, step |-> step, i |-> x.i + 1, n |-> x.n, site |-> x.site]
    BY <2>3 DEF Shaped
  <2>5. x.i + 1 \in 1 .. x.n /\ x.i + 1 <= x.n /\ x.i + 1 \in Nat /\ x.sec \in 1 .. 5 /\ x.sec # 5
    BY <1>2
  <2>6. QED
    BY <2>2, <2>4, <2>5 DEF Shaped, Proper
<1>3. QED
  BY <1>1, <1>2

\* Where a task goes after the next call, if it has got the number of sites that are listed.
LEMMA AfterProper ==
  ASSUME NEW x, Shaped(x), Proper(x), x.step # "end", NEW v,
         x.step = "count" => v \in Nat /\ v = Cardinality(Listed(Order[x.sec]))
  PROVE  Shaped(After(x, v)) /\ Proper(After(x, v))
<1>1. x.sec \in 1 .. 4 /\ x.i \in Nat /\ x.n \in Nat /\ x.i <= x.n /\ x.step \in Steps
  BY DEF Proper
<1>2. Shaped(Start(x.sec + 1)) /\ Proper(Start(x.sec + 1))
  <2>1. x.sec + 1 \in 1 .. 5
    BY <1>1
  <2>2. QED
    BY <2>1, StartProper
<1>3. x.step \in OfASite => Shaped(NextSite(x)) /\ Proper(NextSite(x))
  BY <1>1, NextSiteProper DEF Proper
<1>4. ASSUME NEW step \in Steps, step \in OfASite => x.step \in OfASite, NEW s,
             NEW y, y = [x EXCEPT !.step = step] \/ y = [x EXCEPT !.site = s, !.step = step]
      PROVE  Shaped(y) /\ Proper(y)
  <2>1. y.sec = x.sec /\ y.step = step /\ y.i = x.i /\ y.n = x.n
    BY <1>4 DEF Shaped
  <2>2. Shaped(y)
    BY <1>4 DEF Shaped
  <2>3. step # "end" /\ x.sec # 5
    BY <1>1 DEF Steps
  <2>4. QED
    BY <1>1, <1>4, <2>1, <2>2, <2>3 DEF Proper
<1>5. CASE x.step = "gate"
  <2>1. After(x, v) = IF v > 0 THEN [x EXCEPT !.step = "malloc"] ELSE Start(x.sec + 1)
    BY <1>5 DEF After, AfterHeader, KindOf
  <2>2. "malloc" \in Steps /\ "malloc" \notin OfASite
    BY DEF Steps, OfASite
  <2>3. QED
    BY <1>2, <1>4, <2>1, <2>2
<1>6. CASE x.step = "malloc"
  <2>1. After(x, v) = IF v = 1 THEN [x EXCEPT !.step = "count"] ELSE Start(x.sec + 1)
    BY <1>6 DEF After, AfterHeader, KindOf
  <2>2. "count" \in Steps /\ "count" \notin OfASite
    BY DEF Steps, OfASite
  <2>3. QED
    BY <1>2, <1>4, <2>1, <2>2
<1>7. CASE x.step = "count"
  <2>1. After(x, v) = NextSite([x EXCEPT !.n = v])
    BY <1>7 DEF After, AfterHeader, KindOf
  <2>2. PICK y : y = [x EXCEPT !.n = v]
    OBVIOUS
  <2>3. Shaped(y) /\ y.sec = x.sec /\ y.i = x.i /\ y.n = v
    BY <2>2 DEF Shaped
  <2>4. Shaped(NextSite(y)) /\ Proper(NextSite(y))
    BY <1>1, <1>7, <2>3, NextSiteProper
  <2>5. QED
    BY <2>1, <2>2, <2>4
<1>8. CASE x.step = "total"
  <2>1. After(x, v) = IF v > 0 THEN [x EXCEPT !.step = "site"] ELSE NextSite(x)
    BY <1>8 DEF After, AfterSite, KindOf
  <2>2. "site" \in Steps /\ x.step \in OfASite
    BY <1>8 DEF Steps, OfASite
  <2>3. QED
    BY <1>3, <1>4, <2>1, <2>2
<1>9. CASE x.step = "site"
  <2>1. PICK step : step = IF style = "verbose" THEN "gather" ELSE "min"
    OBVIOUS
  <2>2. After(x, v) = [x EXCEPT !.site = v, !.step = step]
    BY <1>9, <2>1 DEF After, AfterSite, KindOf
  <2>3. step \in Steps /\ x.step \in OfASite
    BY <1>9, <2>1 DEF Steps, OfASite
  <2>4. QED
    BY <1>4, <2>2, <2>3
<1>10. CASE x.step = "gather"
  <2>1. After(x, v) = NextSite(x) /\ x.step \in OfASite
    BY <1>10 DEF After, AfterSite, KindOf, OfASite
  <2>2. QED
    BY <1>3, <2>1
<1>11. CASE x.step \in {"min", "max", "sum"}
  <2>1. After(x, v) = AfterReduction(x)
    BY <1>11 DEF After, KindOf
  <2>2. PICK step : step = IF x.step = "min" THEN "max" ELSE IF x.step = "max" THEN "sum" ELSE "tasks"
    OBVIOUS
  <2>3. AfterReduction(x) = [x EXCEPT !.step = step]
    BY <1>11, <2>2 DEF AfterReduction
  <2>4. step \in Steps /\ x.step \in OfASite
    BY <1>11, <2>2 DEF Steps, OfASite
  <2>5. QED
    BY <1>4, <2>1, <2>3, <2>4
<1>12. CASE x.step = "tasks"
  <2>1. After(x, v) = NextSite(x) /\ x.step \in OfASite
    BY <1>12 DEF After, AfterReduction, KindOf, OfASite
  <2>2. QED
    BY <1>3, <2>1
<1>13. QED
  BY <1>1, <1>5, <1>6, <1>7, <1>8, <1>9, <1>10, <1>11, <1>12 DEF Steps

-----------------------------------------------------------------------------
(* The steps. *)

\* Nothing is printed before the first report.
LEMMA InitHolds == Init => IInv
<1> SUFFICES ASSUME Init PROVE IInv
  OBVIOUS
<1>1. st = [t \in Rank |-> Outside] /\ Collector \in Rank
  BY PrintingAssumption DEF Init
<1>2. Together /\ st[Collector] = Outside
  BY <1>1 DEF Together
<1>3. Shaped(Outside) /\ Proper(Outside)
  BY DEF Outside, Shaped, Proper, OfASite
<1>4. OfSites
  <2>1. PICK fig \in Figures, m \in [Rank \X Site -> Measures \cup {<<>>}] :
          table = [t \in Rank |-> {RecordFrom(s, t, fig[s], m[<<t, s>>]) :
                                     s \in {x \in Site : m[<<t, x>>] # <<>>}}]
    BY DEF Init
  <2>2. \A s, t, f, e : RecordFrom(s, t, f, e).site = s
    BY DEF RecordFrom
  <2>3. ASSUME NEW t \in Rank, NEW r \in table[t] PROVE r.site \in Site
    <3>1. r \in {RecordFrom(s, t, fig[s], m[<<t, s>>]) :
                   s \in {x \in Site : m[<<t, x>>] # <<>>}}
      BY <2>1, <2>3
    <3>2. PICK s \in Site : r = RecordFrom(s, t, fig[s], m[<<t, s>>])
      BY <3>1
    <3>3. QED
      BY <2>2, <3>2
  <2>4. QED
    BY <2>3 DEF OfSites
<1>5. QED
  BY <1>2, <1>3, <1>4 DEF IInv

\* A step of a report leaves the lists the collector walks.
LEMMA ListsStay ==
  ASSUME table' = table, style' = style
  PROVE  /\ \A y : Proper(y)' <=> Proper(y)
         /\ OfSites => OfSites'
<1>1. \A sec : Listed(sec)' = Listed(sec)
  BY DEF Listed, AggSites, AggTotal, Records
<1>2. \A y : Proper(y)' <=> Proper(y)
  BY <1>1 DEF Proper
<1>3. QED
  BY <1>2 DEF OfSites

\* A collective call takes all tasks from one place to one place.
LEMMA CallHolds ==
  ASSUME IInv, NEW v, st[Collector].step # "end",
         st[Collector].step = "count" =>
           v \in Nat /\ v = Cardinality(Listed(Order[st[Collector].sec])),
         st' = [t \in Rank |-> After(st[t], v)],
         table' = table, style' = style
  PROVE  IInv'
<1>1. Collector \in Rank
  BY PrintingAssumption
<1>2. PICK x : x = st[Collector]
  OBVIOUS
<1>3. \A t \in Rank : st'[t] = After(x, v)
  BY <1>2 DEF IInv, Together
<1>4. Shaped(After(x, v)) /\ Proper(After(x, v))
  BY <1>2, AfterProper DEF IInv
<1>5. PICK y : y = After(x, v)
  OBVIOUS
<1>6. st'[Collector] = y /\ Together'
  BY <1>1, <1>3, <1>5 DEF Together
<1>7. Proper(y)' /\ OfSites'
  BY <1>4, <1>5, ListsStay DEF IInv
<1>8. Shaped(st[Collector])' /\ Proper(st[Collector])'
  <2>1. Shaped(y)
    BY <1>4, <1>5
  <2>2. Shaped(st[Collector])'
    BY <1>6, <2>1 DEF Shaped
  <2>3. Proper(st[Collector])'
    BY <1>6, <1>7 DEF Proper
  <2>4. QED
    BY <2>2, <2>3
<1>9. QED
  BY <1>6, <1>7, <1>8 DEF IInv

\* The collector broadcasts.
LEMMA BcastHolds ==
  ASSUME IInv, NEW memory \in 0 .. 1, BcastCall(memory)
  PROVE  IInv'
<1>1. PICK x : x = st[Collector]
  OBVIOUS
<1>2. PICK v : v = Sent(x, memory)
  OBVIOUS
<1>3. /\ KindOf(x.step) = "Bcast"
      /\ st' = [t \in Rank |-> After(st[t], v)]
      /\ table' = table /\ style' = style
  BY <1>1, <1>2 DEF BcastCall, Got
<1>4. x.step # "end"
  BY <1>3 DEF KindOf
<1>5. x.step = "count" => v \in Nat /\ v = Cardinality(Listed(Order[x.sec]))
  BY <1>2, ListedFinite DEF Sent, IInv
<1>6. QED
  BY <1>1, <1>3, <1>4, <1>5, CallHolds

\* The collector gathers, or all tasks reduce.
LEMMA GatherHolds ==
  ASSUME IInv, GatherCall \/ ReduceCall
  PROVE  IInv'
<1>1. /\ st[Collector].step # "end" /\ st[Collector].step # "count"
      /\ st' = [t \in Rank |-> After(st[t], 0)]
      /\ table' = table /\ style' = style
  <2>1. CASE GatherCall
    BY <2>1 DEF GatherCall
  <2>2. CASE ReduceCall
    BY <2>2 DEF ReduceCall, KindOf
  <2>3. QED
    BY <2>1, <2>2
<1>2. QED
  BY <1>1, CallHolds

\* The next report begins at the first section.
LEMMA PrintHolds ==
  ASSUME IInv, mpiPi_profile_print
  PROVE  IInv'
<1>1. PICK x : x = IF opt.detail /\ opt.collective
                   THEN [Outside EXCEPT !.sec = 1,
                                        !.step = IF style' = "concise" THEN "count" ELSE "malloc"]
                   ELSE Outside
  OBVIOUS
<1>2. st' = [t \in Rank |-> x] /\ table' = table
  BY <1>1 DEF mpiPi_profile_print
<1>3. st'[Collector] = x /\ Together'
  BY <1>2, PrintingAssumption DEF Together
<1>4. PICK step : step = IF style' = "concise" THEN "count" ELSE "malloc"
  OBVIOUS
<1>5. x = Outside \/ x = [sec |-> 1, step |-> step, i |-> 0, n |-> 0, site |-> 0]
  BY <1>1, <1>4 DEF Outside
<1>6. step \in Steps /\ step # "end" /\ step \notin OfASite
  BY <1>4 DEF Steps, OfASite
<1>7. /\ Shaped(x) /\ x.sec \in 1 .. 5 /\ x.i \in Nat /\ x.n \in Nat /\ x.i <= x.n
      /\ x.step \in Steps \cup {"end"} /\ (x.step = "end" <=> x.sec = 5)
      /\ x.step \notin OfASite
  <2>1. CASE x = Outside
    BY <2>1 DEF Outside, Shaped, OfASite
  <2>2. CASE x = [sec |-> 1, step |-> step, i |-> 0, n |-> 0, site |-> 0]
    BY <1>6, <2>2 DEF Shaped
  <2>3. QED
    BY <1>5, <2>1, <2>2
<1>8. Shaped(st[Collector])' /\ Proper(st[Collector])'
  <2>1. Shaped(st[Collector])'
    BY <1>3, <1>7 DEF Shaped
  <2>2. Proper(st[Collector])'
    BY <1>3, <1>7 DEF Proper
  <2>3. QED
    BY <2>1, <2>2
<1>9. OfSites'
  BY <1>2 DEF IInv, OfSites
<1>10. QED
  BY <1>3, <1>8, <1>9 DEF IInv

\* A step that changes nothing.
LEMMA StutterHolds ==
  ASSUME IInv, UNCHANGED vars
  PROVE  IInv'
<1>1. UNCHANGED <<st, table, style>>
  BY DEF vars
<1>2. PICK x : x = st[Collector]
  OBVIOUS
<1>3. Proper(x)' /\ OfSites'
  BY <1>1, <1>2, ListsStay DEF IInv
<1>4. Proper(st[Collector])'
  BY <1>1, <1>2, <1>3 DEF Proper
<1>5. Shaped(st[Collector])' /\ Together'
  BY <1>1 DEF IInv, Shaped, Together
<1>6. QED
  BY <1>3, <1>4, <1>5 DEF IInv

-----------------------------------------------------------------------------
\* The invariant holds in every state of a sequence of reports.
THEOREM Invariance == Spec => []IInv
<1>1. IInv /\ [Next]_vars => IInv'
  BY PrintHolds, BcastHolds, GatherHolds, StutterHolds DEF Next, Goes
<1>2. QED
  BY InitHolds, <1>1, PTL DEF Spec

\* With -l, tasks of which each has records of other call sites are always in the same
\* collective call about the same call site, also where the collector finds no memory.
THEOREM SameCalls == Spec => []MatchedCalls
<1>1. IInv => MatchedCalls
  BY DEF IInv, Together, MatchedCalls
<1>2. QED
  BY Invariance, <1>1, PTL

\* A task is at a call site only while the collector walks the list of the section, at an index
\* of that list; and it is behind the last section just when it has left the report.
THEOREM PlacesListed == Spec => [](\A t \in Rank : Proper(st[t]))
<1>1. IInv => \A t \in Rank : Proper(st[t])
  <2> SUFFICES ASSUME IInv, NEW t \in Rank PROVE Proper(st[t])
    OBVIOUS
  <2>1. st[t] = st[Collector]
    BY DEF IInv, Together
  <2>2. QED
    BY <2>1 DEF IInv
<1>2. QED
  BY Invariance, <1>1, PTL
-----------------------------------------------------------------------------
(* Lists in order, and walks through them. *)

\* A relation that has of any two elements of S one before the other.
StrictOrder(S, R) ==
  /\ \A a \in S : <<a, a>> \notin R
  /\ \A a, b, c \in S : <<a, b>> \in R /\ <<b, c>> \in R => <<a, c>> \in R
  /\ \A a, b \in S : a = b \/ <<a, b>> \in R \/ <<b, a>> \in R

\* A list of all elements of S, in the order R.
Lists(f, S, R) ==
  /\ f \in [1 .. Cardinality(S) -> S]
  /\ \A a \in S : \E i \in 1 .. Cardinality(S) : f[i] = a
  /\ \A i, j \in 1 .. Cardinality(S) : i < j => <<f[i], f[j]>> \in R

\* The element with i - 1 others before it is the i-th one.
LEMMA Listing ==
  ASSUME NEW S, IsFiniteSet(S), NEW R, StrictOrder(S, R), NEW f,
         f \in [1 .. Cardinality(S) -> {f[i] : i \in 1 .. Cardinality(S)}],
         \A i \in 1 .. Cardinality(S), a \in S :
           Cardinality({q \in S : <<q, a>> \in R}) = i - 1 =>
             f[i] \in S /\ Cardinality({q \in S : <<q, f[i]>> \in R}) = i - 1
  PROVE  Lists(f, S, R)
<1> DEFINE Behind(a) == {q \in S : <<q, a>> \in R}
<1>1. PICK n \in Nat : n = Cardinality(S)
  BY FS_CardinalityType
<1>2. PICK rank : rank = [a \in S |-> Cardinality(Behind(a))]
  OBVIOUS
<1>3. ASSUME NEW a \in S PROVE IsFiniteSet(Behind(a)) /\ rank[a] \in 0 .. n - 1
  <2>1. IsFiniteSet(Behind(a)) /\ Cardinality(Behind(a)) \in Nat
    BY FS_Subset, FS_CardinalityType
  <2>2. Cardinality(Behind(a)) <= n /\ (Cardinality(Behind(a)) = n => S = Behind(a))
    BY <1>1, FS_Subset
  <2>3. a \notin Behind(a)
    BY DEF StrictOrder
  <2>4. QED
    BY <1>1, <1>2, <2>1, <2>2, <2>3
<1>4. ASSUME NEW a \in S, NEW b \in S, <<a, b>> \in R PROVE rank[a] < rank[b]
  <2>1. Behind(a) \subseteq Behind(b) /\ a \in Behind(b) /\ a \notin Behind(a)
    BY <1>4 DEF StrictOrder
  <2>2. /\ Cardinality(Behind(a)) <= Cardinality(Behind(b))
        /\ Cardinality(Behind(a)) # Cardinality(Behind(b))
    BY <1>3, <2>1, FS_Subset
  <2>3. rank[a] = Cardinality(Behind(a)) /\ rank[b] = Cardinality(Behind(b))
    BY <1>2
  <2> HIDE DEF Behind
  <2>4. rank[a] \in Int /\ rank[b] \in Int
    BY <1>1, <1>3
  <2>5. QED
    BY <2>2, <2>3, <2>4
<1> HIDE DEF Behind
<1>5. ASSUME NEW a \in S, NEW b \in S, a # b PROVE rank[a] # rank[b]
  <2>1. <<a, b>> \in R \/ <<b, a>> \in R
    BY <1>5 DEF StrictOrder
  <2>2. rank[a] \in Int /\ rank[b] \in Int
    BY <1>1, <1>3
  <2>3. rank[a] < rank[b] \/ rank[b] < rank[a]
    BY <1>4, <2>1
  <2>4. QED
    BY <2>2, <2>3
<1>6. rank \in [S -> 0 .. n - 1]
  BY <1>2, <1>3
<1>7. rank \in Injection(S, 0 .. n - 1)
  BY <1>5, <1>6 DEF Injection, IsInjective
<1>8. IsFiniteSet(0 .. n - 1) /\ Cardinality(0 .. n - 1) = n
  <2>1. 0 \in Int /\ n - 1 \in Int
    BY <1>1
  <2>2. /\ IsFiniteSet(0 .. n - 1)
        /\ Cardinality(0 .. n - 1) = IF 0 > n - 1 THEN 0 ELSE n - 1 - 0 + 1
    BY <2>1, FS_Interval
  <2>3. QED
    BY <1>1, <2>2
<1>9. rank \in Surjection(S, 0 .. n - 1)
  BY <1>1, <1>7, <1>8, FS_Injection
<1>10. ASSUME NEW i \in 1 .. n PROVE f[i] \in S /\ rank[f[i]] = i - 1
  <2>1. i - 1 \in 0 .. n - 1
    BY <1>1
  <2>2. PICK a \in S : rank[a] = i - 1
    BY <1>9, <2>1 DEF Surjection
  <2>3. Cardinality(Behind(a)) = i - 1
    BY <1>2, <2>2
  <2>4. f[i] \in S /\ Cardinality(Behind(f[i])) = i - 1
    BY <1>1, <2>3 DEF Behind
  <2>5. QED
    BY <1>2, <2>4
<1>11. f \in [1 .. n -> S]
  BY <1>1, <1>10
<1>12. ASSUME NEW a \in S PROVE \E i \in 1 .. n : f[i] = a
  <2>1. rank[a] + 1 \in 1 .. n /\ rank[a] \in Int
    BY <1>1, <1>3
  <2>2. PICK i \in 1 .. n : i = rank[a] + 1
    BY <2>1
  <2>3. f[i] \in S /\ rank[f[i]] = rank[a]
    <3>1. f[i] \in S /\ rank[f[i]] = i - 1
      BY <1>10
    <3>2. QED
      BY <2>1, <2>2, <3>1
  <2>4. QED
    BY <1>5, <2>3
<1>13. ASSUME NEW i \in 1 .. n, NEW j \in 1 .. n, i < j PROVE <<f[i], f[j]>> \in R
  <2>1. rank[f[i]] = i - 1 /\ rank[f[j]] = j - 1 /\ f[i] \in S /\ f[j] \in S
    BY <1>10
  <2>2. i - 1 # j - 1 /\ ~(j - 1 < i - 1)
    BY <1>13
  <2>3. f[i] # f[j] /\ <<f[j], f[i]>> \notin R
    BY <1>4, <2>1, <2>2
  <2>4. QED
    BY <2>1, <2>3 DEF StrictOrder
<1>14. QED
  BY <1>1, <1>11, <1>12, <1>13 DEF Lists

\* The first k elements of a list.
UpTo(f, k) == {f[i] : i \in 1 .. k}

\* The front of a list grows by one element, which comes behind all others.
LEMMA UpToGrows ==
  ASSUME NEW S, IsFiniteSet(S), NEW R, StrictOrder(S, R), NEW f, Lists(f, S, R), NEW k \in Nat,
         k < Cardinality(S)
  PROVE  /\ UpTo(f, k + 1) = UpTo(f, k) \cup {f[k + 1]}
         /\ f[k + 1] \in S /\ f[k + 1] \notin UpTo(f, k)
         /\ \A a \in UpTo(f, k) : a \in S /\ <<a, f[k + 1]>> \in R
         /\ \A a \in S : a \in UpTo(f, k + 1) \/ <<f[k + 1], a>> \in R
<1>1. Cardinality(S) \in Nat /\ k + 1 \in 1 .. Cardinality(S)
  BY FS_CardinalityType
<1>2. \A i \in 1 .. k : i \in 1 .. Cardinality(S) /\ i < k + 1
  BY <1>1
<1>3. f[k + 1] \in S
  BY <1>1 DEF Lists
<1>4. \A i \in 1 .. k : f[i] \in S /\ <<f[i], f[k + 1]>> \in R
  BY <1>1, <1>2 DEF Lists
<1>5. 1 .. k + 1 = (1 .. k) \cup {k + 1}
  OBVIOUS
<1>6. UpTo(f, k + 1) = UpTo(f, k) \cup {f[k + 1]}
  BY <1>5 DEF UpTo
<1>7. \A a \in UpTo(f, k) : a \in S /\ <<a, f[k + 1]>> \in R
  BY <1>4 DEF UpTo
<1>8. \A a \in S : a \in UpTo(f, k + 1) \/ <<f[k + 1], a>> \in R
  <2>1. SUFFICES ASSUME NEW a \in S PROVE a \in UpTo(f, k + 1) \/ <<f[k + 1], a>> \in R
    OBVIOUS
  <2>2. PICK i \in 1 .. Cardinality(S) : f[i] = a
    BY DEF Lists
  <2>3. i \in 1 .. k + 1 \/ k + 1 < i
    OBVIOUS
  <2>4. QED
    BY <1>1, <2>2, <2>3 DEF Lists, UpTo
<1>9. QED
  BY <1>3, <1>6, <1>7, <1>8 DEF StrictOrder

\* All elements are in a list, none before its beginning.
LEMMA UpToEnds ==
  ASSUME NEW S, NEW R, NEW f, Lists(f, S, R)
  PROVE  UpTo(f, 0) = {} /\ UpTo(f, Cardinality(S)) = S
BY DEF UpTo, Lists

\* The places of a walk of n steps.
IsWalk(at, n, start, step) == at = [k \in 0 .. n |-> IF k = 0 THEN start ELSE step[k][at[k - 1]]]

\* A walk whose k-th step goes from A[k - 1] to A[k] has a result.
LEMMA WalkExists ==
  ASSUME NEW n \in Nat, NEW A, NEW start \in A[0], NEW step, \A k \in 1 .. n : step[k] \in [A[k - 1] -> A[k]]
  PROVE  \E at : IsWalk(at, n, start, step) /\ \A k \in 0 .. n : at[k] \in A[k]
<1> DEFINE Is(at, m) == /\ at = [k \in 0 .. m |-> IF k = 0 THEN start ELSE step[k][at[k - 1]]]
                        /\ \A k \in 0 .. m : at[k] \in A[k]
           P == {m \in Nat : m <= n => \E at : Is(at, m)}
<1>1. 0 \in P
  <2> DEFINE at == [k \in 0 .. 0 |-> start]
  <2>1. /\ at = [k \in 0 .. 0 |-> IF k = 0 THEN start ELSE step[k][at[k - 1]]]
        /\ \A k \in 0 .. 0 : at[k] \in A[k]
    OBVIOUS
  <2>2. QED
    BY <2>1
<1>2. ASSUME NEW m \in Nat, m \in P PROVE m + 1 \in P
  <2>1. SUFFICES ASSUME m + 1 <= n PROVE \E at : Is(at, m + 1)
    <3> HIDE DEF Is
    <3>1. QED
      OBVIOUS
  <2>2. PICK at : Is(at, m)
    BY <1>2, <2>1
  <2>3. /\ at = [k \in 0 .. m |-> IF k = 0 THEN start ELSE step[k][at[k - 1]]]
        /\ \A k \in 0 .. m : at[k] \in A[k]
    BY <2>2
  <2>4. PICK new : new = [k \in 0 .. m + 1 |-> IF k = 0 THEN start ELSE step[k][at[k - 1]]]
    OBVIOUS
  <2>5. \A k \in 0 .. m : new[k] = at[k]
    BY <2>3, <2>4
  <2>6. \A k \in 0 .. m + 1 : k # 0 => k - 1 \in 0 .. m
    OBVIOUS
  <2>7. new = [k \in 0 .. m + 1 |-> IF k = 0 THEN start ELSE step[k][new[k - 1]]]
    BY <2>4, <2>5, <2>6
  <2>8. ASSUME NEW k \in 0 .. m + 1 PROVE new[k] \in A[k]
    <3>1. CASE k = 0
      BY <2>4, <3>1
    <3>2. CASE k # 0
      <4>1. k \in 1 .. n /\ at[k - 1] \in A[k - 1]
        BY <2>1, <2>3, <2>6, <3>2
      <4>2. step[k][at[k - 1]] \in A[k]
        BY <4>1
      <4>3. QED
        BY <2>4, <3>2, <4>2
    <3>3. QED
      BY <3>1, <3>2
  <2>9. QED
    BY <2>7, <2>8
<1>3. n \in P
  <2> HIDE DEF P
  <2>1. QED
    BY <1>1, <1>2, SetInduction
<1>4. QED
  BY <1>3 DEF IsWalk

-----------------------------------------------------------------------------
(* Records and their sums. *)

\* Records of call sites, one for each task that has any.
RecordSet(S) ==
  /\ IsFiniteSet(S) /\ S \subseteq Record(Site, Rank)
  /\ \A r, q \in S : r.site = q.site /\ r.rank = q.rank => r = q
  /\ \A r \in S, sec \in Sections :
       r.cum[sec] < DBL_MAX /\ r.max[sec] <= DBL_MAX /\ r.min[sec] <= DBL_MAX

SortOrder(S) == {p \in S \X S : Before(p[1], p[2])}

\* The fields of a record.
LEMMA RecordFields ==
  ASSUME NEW r \in Record(Site, Rank), NEW sec \in Sections
  PROVE  /\ r.site \in Site /\ r.rank \in Rank /\ r.count \in Nat
         /\ r.site \in Nat \ {0} /\ r.rank \in Nat
         /\ r.cum[sec] \in Nat /\ r.max[sec] \in Nat /\ r.min[sec] \in Nat
<1>1. /\ r.site \in Site /\ r.rank \in Rank /\ r.count \in Nat
      /\ r.cum \in [Sections -> Nat] /\ r.max \in [Sections -> Nat] /\ r.min \in [Sections -> Nat]
  BY DEF Record
<1>2. r.site \in Nat \ {0} /\ r.rank \in Nat
  <2>1. Sites \in Nat /\ Rank \subseteq Nat
    BY PrintingAssumption
  <2>2. 1 .. Sites \subseteq Nat \ {0}
    BY <2>1
  <2>3. QED
    BY <1>1, <2>1, <2>2 DEF Site
<1>3. QED
  BY <1>1, <1>2

\* Any part of a set of records is one.
LEMMA RecordSubset ==
  ASSUME NEW S, RecordSet(S), NEW T, T \subseteq S
  PROVE  RecordSet(T)
BY FS_Subset DEF RecordSet

\* Records are sorted by call site and rank.
LEMMA SortedLists ==
  ASSUME NEW S, RecordSet(S)
  PROVE  StrictOrder(S, SortOrder(S)) /\ Lists(Sorted(S), S, SortOrder(S))
<1>1. PICK R : R = SortOrder(S)
  OBVIOUS
<1>2. \A a, b \in S : <<a, b>> \in R <=> Before(a, b)
  BY <1>1 DEF SortOrder
<1>3. \A a \in S : a.site \in Nat /\ a.rank \in Nat
  <2>1. "time" \in Sections
    BY DEF Sections
  <2>2. QED
    BY <2>1, RecordFields DEF RecordSet
<1>4. \A a, b \in S : a.site = b.site /\ a.rank = b.rank => a = b
  BY DEF RecordSet
<1>5. StrictOrder(S, R)
  <2>1. \A a \in S : <<a, a>> \notin R
    BY <1>2, <1>3 DEF Before
  <2>2. \A a, b, c \in S : <<a, b>> \in R /\ <<b, c>> \in R => <<a, c>> \in R
    BY <1>2, <1>3 DEF Before
  <2>3. \A a, b \in S : a = b \/ <<a, b>> \in R \/ <<b, a>> \in R
    <3>1. SUFFICES ASSUME NEW a \in S, NEW b \in S, a # b, ~Before(a, b) PROVE Before(b, a)
      BY <1>2
    <3>2. /\ a.site \in Nat /\ a.rank \in Nat /\ b.site \in Nat /\ b.rank \in Nat
          /\ ~(a.site = b.site /\ a.rank = b.rank)
      BY <1>3, <1>4, <3>1
    <3>3. QED
      BY <3>1, <3>2 DEF Before
  <2>4. QED
    BY <2>1, <2>2, <2>3 DEF StrictOrder
<1>6. \A a \in S : {q \in S : <<q, a>> \in R} = {q \in S : Before(q, a)}
  BY <1>2
<1>7. PICK f : f = Sorted(S)
  OBVIOUS
<1>8. f = [i \in 1 .. Cardinality(S) |->
             CHOOSE a \in S : Cardinality({q \in S : Before(q, a)}) = i - 1]
  BY <1>7 DEF Sorted
<1>9. ASSUME NEW i \in 1 .. Cardinality(S), NEW a \in S,
             Cardinality({q \in S : <<q, a>> \in R}) = i - 1
      PROVE  f[i] \in S /\ Cardinality({q \in S : <<q, f[i]>> \in R}) = i - 1
  <2>1. Cardinality({q \in S : Before(q, a)}) = i - 1
    BY <1>6, <1>9
  <2>2. f[i] = CHOOSE b \in S : Cardinality({q \in S : Before(q, b)}) = i - 1
    BY <1>8
  <2>3. f[i] \in S /\ Cardinality({q \in S : Before(q, f[i])}) = i - 1
    BY <2>1, <2>2
  <2>4. QED
    BY <1>6, <2>3
<1>10. f \in [1 .. Cardinality(S) -> {f[i] : i \in 1 .. Cardinality(S)}]
  BY <1>8
<1>11. Lists(f, S, R)
  BY <1>5, <1>9, <1>10, Listing DEF RecordSet
<1>12. QED
  BY <1>1, <1>5, <1>7, <1>11

\* A summary of records.
Sums(sum, S, sec) ==
  /\ sum.count = CallsOf(S)
  /\ sum.cum = TotalOf(S, sec)
  /\ S = {} => sum.max = 0 /\ sum.min = DBL_MAX
  /\ S # {} => /\ \E r \in S : sum.max = r.max[sec]
               /\ \E r \in S : sum.min = r.min[sec]
               /\ \A r \in S : r.max[sec] <= sum.max /\ sum.min <= r.min[sec]

\* Counts and totals are natural numbers; totals of nothing are 0.
LEMMA TotalType ==
  ASSUME NEW S, RecordSet(S), NEW sec \in Sections
  PROVE  /\ TotalOf(S, sec) \in Nat /\ CallsOf(S) \in Nat
         /\ S = {} => TotalOf(S, sec) = 0 /\ CallsOf(S) = 0
<1>1. PICK w, c : w = [r \in S |-> r.cum[sec]] /\ c = [r \in S |-> r.count]
  OBVIOUS
<1>2. \A r \in S : w[r] \in Nat /\ c[r] \in Nat
  BY <1>1, RecordFields DEF RecordSet
<1>3. SumFunctionOnSet(w, S) \in Nat /\ SumFunctionOnSet(c, S) \in Nat
  BY <1>2, SumType DEF RecordSet
<1>4. S = {} => SumFunctionOnSet(w, S) = 0 /\ SumFunctionOnSet(c, S) = 0
  BY SumNothing
<1>5. QED
  BY <1>1, <1>3, <1>4 DEF TotalOf, CallsOf

\* What g has more than f: the summand of r.
OneMore(g, f, S, r, n) == (\A q \in S : f[q] \in Int /\ g[q] = f[q]) /\ r \notin S /\ g[r] = n

\* A summand more.
LEMMA OneMoreSum ==
  ASSUME NEW S, IsFiniteSet(S), NEW f, NEW g, NEW r, NEW n \in Nat, OneMore(g, f, S, r, n)
  PROVE  SumFunctionOnSet(g, S \cup {r}) = SumFunctionOnSet(f, S) + n
<1>1. (\A q \in S : f[q] \in Int) /\ (\A q \in S \ {r} : g[q] = f[q])
  BY DEF OneMore
<1>2. (r \in S => g[r] = f[r] + n) /\ (r \notin S => g[r] = n)
  BY DEF OneMore
<1>3. QED
  BY <1>1, <1>2, SumGrow

\* One record more.
LEMMA TotalGrows ==
  ASSUME NEW S, RecordSet(S), NEW r \in Record(Site, Rank), r \notin S, NEW sec \in Sections
  PROVE  /\ TotalOf(S \cup {r}, sec) = TotalOf(S, sec) + r.cum[sec]
         /\ CallsOf(S \cup {r}) = CallsOf(S) + r.count
<1>1. PICK w, c : w = [q \in S |-> q.cum[sec]] /\ c = [q \in S |-> q.count]
  OBVIOUS
<1>2. PICK v, d : v = [q \in S \cup {r} |-> q.cum[sec]] /\ d = [q \in S \cup {r} |-> q.count]
  OBVIOUS
<1>3. \A q \in S : w[q] \in Int /\ c[q] \in Int /\ v[q] = w[q] /\ d[q] = c[q]
  BY <1>1, <1>2, RecordFields DEF RecordSet
<1>4. v[r] = r.cum[sec] /\ d[r] = r.count /\ v[r] \in Nat /\ d[r] \in Nat
  BY <1>2, RecordFields
<1>5. IsFiniteSet(S)
  BY DEF RecordSet
<1>6. OneMore(v, w, S, r, v[r]) /\ OneMore(d, c, S, r, d[r])
  BY <1>3 DEF OneMore
<1>7. /\ SumFunctionOnSet(v, S \cup {r}) = SumFunctionOnSet(w, S) + v[r]
      /\ SumFunctionOnSet(d, S \cup {r}) = SumFunctionOnSet(c, S) + d[r]
  BY <1>4, <1>5, <1>6, OneMoreSum
<1>8. QED
  BY <1>1, <1>2, <1>4, <1>7 DEF TotalOf, CallsOf

\* A summary with one record more.
LEMMA AddedSums ==
  ASSUME NEW S, RecordSet(S), NEW r \in Record(Site, Rank), r \notin S, NEW sec \in Sections,
         r.min[sec] <= DBL_MAX, NEW sum, sum.max \in Nat, sum.min \in Nat, Sums(sum, S, sec)
  PROVE  Sums(Added(sum, r, sec), S \cup {r}, sec)
<1>1. PICK new : new = Added(sum, r, sec)
  OBVIOUS
<1>2. /\ new.count = sum.count + r.count /\ new.cum = sum.cum + r.cum[sec]
      /\ new.max = IF sum.max > r.max[sec] THEN sum.max ELSE r.max[sec]
      /\ new.min = IF sum.min < r.min[sec] THEN sum.min ELSE r.min[sec]
  BY <1>1 DEF Added, Larger, Smaller
<1>3. r.max[sec] \in Nat /\ r.min[sec] \in Nat
      /\ \A q \in S : q.max[sec] \in Nat /\ q.min[sec] \in Nat
  BY RecordFields DEF RecordSet
<1>4. /\ new.count = CallsOf(S \cup {r})
      /\ new.cum = TotalOf(S \cup {r}, sec)
  BY <1>2, TotalGrows DEF Sums
<1>5. \A q \in S \cup {r} : q.max[sec] <= new.max /\ new.min <= q.min[sec]
  BY <1>2, <1>3 DEF Sums
<1>6. (\E q \in S \cup {r} : new.max = q.max[sec]) /\ (\E q \in S \cup {r} : new.min = q.min[sec])
  <2>1. CASE S = {}
    <3>1. sum.max = 0 /\ sum.min = DBL_MAX
      BY <2>1 DEF Sums
    <3>2. new.max = r.max[sec] /\ new.min = r.min[sec]
      BY <1>2, <1>3, <3>1, DBL_MAXAssumption
    <3>3. QED
      BY <3>2
  <2>2. CASE S # {}
    <3>1. PICK a \in S, b \in S : sum.max = a.max[sec] /\ sum.min = b.min[sec]
      BY <2>2 DEF Sums
    <3>2. (new.max = r.max[sec] \/ new.max = a.max[sec]) /\ (new.min = r.min[sec] \/ new.min = b.min[sec])
      BY <1>2, <3>1
    <3>3. QED
      BY <3>2
  <2>3. QED
    BY <2>1, <2>2
<1>7. QED
  BY <1>1, <1>4, <1>5, <1>6 DEF Sums

\* The beginning of a summary, and a summary of one record.
LEMMA EmptySums ==
  ASSUME NEW sec \in Sections
  PROVE  /\ Sums(Empty, {}, sec)
         /\ \A r \in Record(Site, Rank) : r.min[sec] <= DBL_MAX =>
              Added(Empty, r, sec) = [count |-> r.count, cum |-> r.cum[sec],
                                      max |-> r.max[sec], min |-> r.min[sec]]
<1>1. RecordSet({})
  BY FS_EmptySet DEF RecordSet
<1>2. Sums(Empty, {}, sec)
  BY <1>1, TotalType DEF Sums, Empty
<1>3. ASSUME NEW r \in Record(Site, Rank), r.min[sec] <= DBL_MAX
      PROVE  Added(Empty, r, sec) = [count |-> r.count, cum |-> r.cum[sec],
                                     max |-> r.max[sec], min |-> r.min[sec]]
  <2>1. r.count \in Nat /\ r.cum[sec] \in Nat /\ r.max[sec] \in Nat /\ r.min[sec] \in Nat
    BY RecordFields
  <2>2. 0 + r.count = r.count /\ 0 + r.cum[sec] = r.cum[sec]
    BY <2>1
  <2>3. Larger(0, r.max[sec]) = r.max[sec] /\ Smaller(DBL_MAX, r.min[sec]) = r.min[sec]
    BY <1>3, <2>1, DBL_MAXAssumption DEF Larger, Smaller
  <2>4. QED
    BY <2>2, <2>3 DEF Added, Empty
<1>4. QED
  BY <1>2, <1>3

-----------------------------------------------------------------------------
(* The rows of a verbose section. *)

SummaryType == [count : Nat, cum : Nat, max : Nat, min : Nat]

\* The records of a call site that count in a section.
Group(S, s, sec) == {r \in S : r.site = s /\ Counts(r, sec)}

\* A section of bytes has no row of a call site without records that count.
Fills(S, s, sec) == sec # "time" => Group(S, s, sec) # {}

\* The row of a call site, summed over its records.
SiteRow(x, S, s, sec) ==
  x.site = s /\ x.rank = AllTasks /\ Sums(x, Group(S, s, sec), sec) /\ Fills(S, s, sec)

\* A record or a row that counts: one of times does if there were calls.
Live(r, sec) == sec = "time" => r.count > 0

\* A call site that has to have a row in a section.
Weighs(S, s, sec) ==
  IF sec = "time" THEN CallsOf(Group(S, s, sec)) > 0 ELSE Group(S, s, sec) # {}

\* Rows in order: those of a call site, with its summary last, before those of the next.
RowBefore(x, y) ==
  \/ x.site < y.site
  \/ x.site = y.site /\ x.rank # AllTasks /\ (y.rank = AllTasks \/ x.rank < y.rank)

\* The rows are those of the records R and of the call sites C of S.
RowsAre(rows, S, sec, R, C) ==
  /\ rows \in Seq(RowType)
  /\ \A i \in DOMAIN rows : \/ \E r \in R : rows[i] = RankRow(r, sec)
                            \/ \E s \in C : SiteRow(rows[i], S, s, sec)
  /\ \A r \in R : \E i \in DOMAIN rows : rows[i] = RankRow(r, sec)
  /\ \A s \in C : Weighs(S, s, sec) => \E i \in DOMAIN rows : SiteRow(rows[i], S, s, sec)
  /\ \A i, j \in DOMAIN rows : i < j => RowBefore(rows[i], rows[j])

\* The fields of a row.
LEMMA RowFields ==
  ASSUME NEW sec \in Sections
  PROVE  /\ \A s, k, sum : Row(s, k, sum).site = s /\ Row(s, k, sum).rank = k
         /\ \A s, k, sum : /\ Row(s, k, sum).count = sum.count /\ Row(s, k, sum).cum = sum.cum
                           /\ Row(s, k, sum).max = sum.max /\ Row(s, k, sum).min = sum.min
         /\ \A s \in Site, k \in Rank \cup {AllTasks}, sum \in SummaryType : Row(s, k, sum) \in RowType
         /\ \A r \in Record(Site, Rank) : r.min[sec] <= DBL_MAX =>
              /\ RankRow(r, sec) \in RowType
              /\ RankRow(r, sec) = [site |-> r.site, rank |-> r.rank, count |-> r.count,
                                    cum |-> r.cum[sec], max |-> r.max[sec], min |-> r.min[sec]]
         /\ AllTasks \notin Rank
<1>1. \A s, k, sum : /\ Row(s, k, sum).site = s /\ Row(s, k, sum).rank = k
                     /\ Row(s, k, sum).count = sum.count /\ Row(s, k, sum).cum = sum.cum
                     /\ Row(s, k, sum).max = sum.max /\ Row(s, k, sum).min = sum.min
  BY DEF Row
<1>2. \A s \in Site, k \in Rank \cup {AllTasks}, sum \in SummaryType : Row(s, k, sum) \in RowType
  BY DEF Row, RowType, SummaryType
<1>3. ASSUME NEW r \in Record(Site, Rank), r.min[sec] <= DBL_MAX
      PROVE  /\ RankRow(r, sec) \in RowType
             /\ RankRow(r, sec) = [site |-> r.site, rank |-> r.rank, count |-> r.count,
                                   cum |-> r.cum[sec], max |-> r.max[sec], min |-> r.min[sec]]
  <2>1. RankRow(r, sec) = [site |-> r.site, rank |-> r.rank, count |-> r.count,
                           cum |-> r.cum[sec], max |-> r.max[sec], min |-> r.min[sec]]
    BY <1>3, EmptySums DEF RankRow, Row
  <2>2. /\ r.site \in Site /\ r.rank \in Rank /\ r.count \in Nat
        /\ r.cum[sec] \in Nat /\ r.max[sec] \in Nat /\ r.min[sec] \in Nat
    BY RecordFields
  <2>3. QED
    BY <2>1, <2>2 DEF RowType
<1>4. AllTasks \notin Rank
  <2>1. Rank \subseteq Nat
    BY PrintingAssumption
  <2>2. QED
    BY <2>1 DEF AllTasks
<1>5. QED
  BY <1>1, <1>2, <1>3, <1>4

\* A row more behind the others.
LEMMA AppendOrdered ==
  ASSUME NEW rows \in Seq(RowType), NEW x \in RowType,
         \A i, j \in DOMAIN rows : i < j => RowBefore(rows[i], rows[j]),
         \A i \in DOMAIN rows : RowBefore(rows[i], x),
         NEW all, all = Append(rows, x)
  PROVE  /\ all \in Seq(RowType)
         /\ DOMAIN all = DOMAIN rows \cup {Len(rows) + 1} /\ all[Len(rows) + 1] = x
         /\ \A i \in DOMAIN rows : i # Len(rows) + 1 /\ all[i] = rows[i]
         /\ \A i, j \in DOMAIN all : i < j => RowBefore(all[i], all[j])
<1>1. PICK n \in Nat : n = Len(rows)
  OBVIOUS
<1>2. DOMAIN rows = 1 .. n /\ DOMAIN all = 1 .. n + 1 /\ all \in Seq(RowType) /\ all[n + 1] = x
  BY <1>1
<1>3. \A i \in 1 .. n : i # n + 1 /\ all[i] = rows[i]
  BY <1>1, <1>2
<1>4. 1 .. n + 1 = (1 .. n) \cup {n + 1}
  OBVIOUS
<1>5. ASSUME NEW i \in 1 .. n + 1, NEW j \in 1 .. n + 1, i < j PROVE RowBefore(all[i], all[j])
  <2>1. i \in 1 .. n /\ (j \in 1 .. n \/ j = n + 1)
    BY <1>5
  <2>2. QED
    BY <1>2, <1>3, <1>5, <2>1
<1>6. QED
  BY <1>1, <1>2, <1>3, <1>4, <1>5

\* The row of a task.
LEMMA RowsGrow ==
  ASSUME NEW S, RecordSet(S), NEW sec \in Sections, NEW R, R \subseteq S, NEW C, C \subseteq Site, NEW rows,
         RowsAre(rows, S, sec, R, C), NEW r \in S,
         \A q \in R : Before(q, r), \A s \in C : s < r.site
  PROVE  RowsAre(Append(rows, RankRow(r, sec)), S, sec, R \cup {r}, C)
<1>1. PICK x : x = RankRow(r, sec)
  OBVIOUS
<1>2. PICK all : all = Append(rows, x)
  OBVIOUS
<1>3. \A q \in S : /\ q \in Record(Site, Rank) /\ q.min[sec] <= DBL_MAX
                   /\ RankRow(q, sec).site = q.site /\ RankRow(q, sec).rank = q.rank
                   /\ q.rank \in Rank
  <2>1. SUFFICES ASSUME NEW q \in S
                 PROVE  /\ q \in Record(Site, Rank) /\ q.min[sec] <= DBL_MAX
                        /\ RankRow(q, sec).site = q.site /\ RankRow(q, sec).rank = q.rank
                        /\ q.rank \in Rank
    OBVIOUS
  <2>2. q \in Record(Site, Rank) /\ q.min[sec] <= DBL_MAX
    BY DEF RecordSet
  <2>3. QED
    BY <2>2, RowFields, RecordFields DEF RankRow
<1>4. x \in RowType /\ x.site = r.site /\ x.rank = r.rank /\ x.rank # AllTasks
  BY <1>1, <1>3, RowFields
<1>5. ASSUME NEW i \in DOMAIN rows PROVE RowBefore(rows[i], x)
  <2>1. CASE \E q \in R : rows[i] = RankRow(q, sec)
    <3>1. PICK q \in R : rows[i] = RankRow(q, sec)
      BY <2>1
    <3>2. rows[i].site = q.site /\ rows[i].rank = q.rank /\ q.rank # AllTasks /\ Before(q, r)
      BY <1>3, <3>1, RowFields
    <3>3. QED
      BY <1>4, <3>2 DEF Before, RowBefore
  <2>2. CASE \E s \in C : SiteRow(rows[i], S, s, sec)
    BY <1>4, <2>2 DEF SiteRow, RowBefore
  <2>3. QED
    BY <2>1, <2>2 DEF RowsAre
<1>6. /\ all \in Seq(RowType)
      /\ DOMAIN all = DOMAIN rows \cup {Len(rows) + 1} /\ all[Len(rows) + 1] = x
      /\ \A i \in DOMAIN rows : i # Len(rows) + 1 /\ all[i] = rows[i]
      /\ \A i, j \in DOMAIN all : i < j => RowBefore(all[i], all[j])
  BY <1>2, <1>4, <1>5, AppendOrdered DEF RowsAre
<1>7. \A i \in DOMAIN all : \/ \E q \in R \cup {r} : all[i] = RankRow(q, sec)
                            \/ \E s \in C : SiteRow(all[i], S, s, sec)
  BY <1>1, <1>6 DEF RowsAre
<1>8. \A q \in R \cup {r} : \E i \in DOMAIN all : all[i] = RankRow(q, sec)
  BY <1>1, <1>6 DEF RowsAre
<1>9. \A s \in C : Weighs(S, s, sec) => \E i \in DOMAIN all : SiteRow(all[i], S, s, sec)
  BY <1>6 DEF RowsAre
<1>10. QED
  BY <1>1, <1>2, <1>6, <1>7, <1>8, <1>9 DEF RowsAre

\* The row of a call site.
LEMMA RowsClose ==
  ASSUME NEW S, RecordSet(S), NEW sec \in Sections, NEW R, R \subseteq S, NEW C, C \subseteq Site, NEW rows,
         RowsAre(rows, S, sec, R, C), NEW s \in Site, NEW sum \in SummaryType,
         Sums(sum, Group(S, s, sec), sec), Fills(S, s, sec),
         \A q \in R : q.site <= s, \A c \in C : c < s
  PROVE  RowsAre(Append(rows, Row(s, AllTasks, sum)), S, sec, R, C \cup {s})
<1>1. PICK x : x = Row(s, AllTasks, sum)
  OBVIOUS
<1>2. PICK all : all = Append(rows, x)
  OBVIOUS
<1>3. x \in RowType /\ x.site = s /\ x.rank = AllTasks
  BY <1>1, RowFields
<1>4. SiteRow(x, S, s, sec)
  <2>1. x.count = sum.count /\ x.cum = sum.cum /\ x.max = sum.max /\ x.min = sum.min
    BY <1>1, RowFields
  <2>2. QED
    BY <1>3, <2>1 DEF SiteRow, Sums
<1>5. ASSUME NEW i \in DOMAIN rows PROVE RowBefore(rows[i], x)
  <2>1. CASE \E q \in R : rows[i] = RankRow(q, sec)
    <3>1. PICK q \in R : rows[i] = RankRow(q, sec)
      BY <2>1
    <3>2. q \in Record(Site, Rank)
      BY DEF RecordSet
    <3>3. rows[i].site = q.site /\ rows[i].rank = q.rank /\ q.rank # AllTasks /\ q.site <= s
      BY <3>1, <3>2, RowFields, RecordFields DEF RankRow
    <3>4. q.site \in Nat /\ s \in Int
      BY <3>2, RecordFields DEF Site
    <3>5. QED
      BY <1>3, <3>3, <3>4 DEF RowBefore
  <2>2. CASE \E c \in C : SiteRow(rows[i], S, c, sec)
    BY <1>3, <2>2 DEF SiteRow, RowBefore
  <2>3. QED
    BY <2>1, <2>2 DEF RowsAre
<1>6. /\ all \in Seq(RowType)
      /\ DOMAIN all = DOMAIN rows \cup {Len(rows) + 1} /\ all[Len(rows) + 1] = x
      /\ \A i \in DOMAIN rows : i # Len(rows) + 1 /\ all[i] = rows[i]
      /\ \A i, j \in DOMAIN all : i < j => RowBefore(all[i], all[j])
  BY <1>2, <1>3, <1>5, AppendOrdered DEF RowsAre
<1>7. \A i \in DOMAIN all : \/ \E q \in R : all[i] = RankRow(q, sec)
                            \/ \E c \in C \cup {s} : SiteRow(all[i], S, c, sec)
  BY <1>4, <1>6 DEF RowsAre
<1>8. \A q \in R : \E i \in DOMAIN all : all[i] = RankRow(q, sec)
  BY <1>6 DEF RowsAre
<1>9. \A c \in C \cup {s} : Weighs(S, c, sec) =>
        \E i \in DOMAIN all : SiteRow(all[i], S, c, sec)
  BY <1>4, <1>6 DEF RowsAre
<1>10. QED
  BY <1>1, <1>2, <1>6, <1>7, <1>8, <1>9 DEF RowsAre

\* A total is not less than a record of it.
LEMMA TotalAbove ==
  ASSUME NEW S, RecordSet(S), NEW r \in S, NEW sec \in Sections
  PROVE  r.cum[sec] <= TotalOf(S, sec) /\ r.count <= CallsOf(S)
<1>1. PICK T : T = S \ {r}
  OBVIOUS
<1>2. RecordSet(T) /\ r \notin T /\ T \cup {r} = S
  BY <1>1, RecordSubset
<1>3. r \in Record(Site, Rank)
  BY DEF RecordSet
<1>4. TotalOf(S, sec) = TotalOf(T, sec) + r.cum[sec] /\ CallsOf(S) = CallsOf(T) + r.count
  BY <1>2, <1>3, TotalGrows
<1>5. TotalOf(T, sec) \in Nat /\ CallsOf(T) \in Nat /\ r.cum[sec] \in Nat /\ r.count \in Nat
  BY <1>2, <1>3, TotalType, RecordFields
<1>6. QED
  BY <1>4, <1>5

\* The sites of records.
SitesOf(D) == {q.site : q \in D}

\* The accumulators of a walk, and what they are when the records D of S have been visited.
Walking == [rows : Seq(RowType), sum : SummaryType, prev : Site \cup {0}]
Walked(a, D, S, sec, shown) ==
  /\ a \in Walking
  /\ a.prev # 0 <=> D # {}
  /\ D # {} => a.prev \in SitesOf(D)
  /\ \A q \in D : q.site <= a.prev
  /\ Sums(a.sum, Group(D, a.prev, sec), sec)
  /\ RowsAre(a.rows, S, sec, D \cap shown, SitesOf(D) \ {a.prev})

\* A group that is not closed is empty, and has no row.
LEMMA NothingToClose ==
  ASSUME NEW S, RecordSet(S), NEW s, NEW sec \in Sections, NEW sum \in SummaryType,
         Sums(sum, Group(S, s, sec), sec), ~Closes(sum, sec)
  PROVE  Group(S, s, sec) = {} /\ ~Weighs(S, s, sec)
<1>1. RecordSet(Group(S, s, sec))
  <2>1. Group(S, s, sec) \subseteq S
    BY DEF Group
  <2>2. QED
    BY <2>1, RecordSubset
<1>2. sec # "time" /\ ~(TotalOf(Group(S, s, sec), sec) > 0)
  BY DEF Closes, Sums
<1>3. ASSUME NEW r \in Group(S, s, sec) PROVE FALSE
  <2>1. r.cum[sec] <= TotalOf(Group(S, s, sec), sec)
    BY <1>1, TotalAbove
  <2>2. r.cum[sec] > 0
    BY <1>2 DEF Group, Counts
  <2>3. r.cum[sec] \in Nat /\ TotalOf(Group(S, s, sec), sec) \in Nat
    <3>1. r \in Record(Site, Rank)
      BY <1>1 DEF RecordSet
    <3>2. QED
      BY <1>1, <3>1, RecordFields, TotalType
  <2>4. QED
    BY <1>2, <2>1, <2>2, <2>3
<1>4. Group(S, s, sec) = {}
  BY <1>3
<1>5. QED
  BY <1>2, <1>4 DEF Weighs

\* A group that is closed is not empty.
LEMMA SomethingToClose ==
  ASSUME NEW S, RecordSet(S), NEW s, NEW sec \in Sections, NEW sum,
         Sums(sum, Group(S, s, sec), sec), Closes(sum, sec)
  PROVE  Fills(S, s, sec)
<1>1. SUFFICES ASSUME sec # "time", Group(S, s, sec) = {} PROVE FALSE
  BY DEF Fills
<1>2. RecordSet({})
  BY FS_EmptySet DEF RecordSet
<1>3. TotalOf({}, sec) = 0
  BY <1>2, TotalType
<1>4. sum.cum = 0
  BY <1>1, <1>3 DEF Sums
<1>5. QED
  BY <1>1, <1>4 DEF Closes

\* Closing a group, if that is done.
LEMMA CloseHolds ==
  ASSUME NEW S, RecordSet(S), NEW sec \in Sections, NEW D, D \subseteq S, NEW shown,
         NEW a, Walked(a, D, S, sec, shown), D # {},
         Group(D, a.prev, sec) = Group(S, a.prev, sec)
  PROVE  /\ CloseGroup(a) = [rows |-> Append(a.rows, Row(a.prev, AllTasks, a.sum)), sum |-> Empty, prev |-> a.prev]
         /\ Fills(S, a.prev, sec) => RowsAre(CloseGroup(a).rows, S, sec, D \cap shown, SitesOf(D))
         /\ ~Weighs(S, a.prev, sec) => RowsAre(a.rows, S, sec, D \cap shown, SitesOf(D))
<1>1. a = [rows |-> a.rows, sum |-> a.sum, prev |-> a.prev] /\ a.sum \in SummaryType
      /\ a.prev \in Site
  BY DEF Walked, Walking
<1>2. PICK b : b = CloseGroup(a)
  OBVIOUS
<1>3. b = [rows |-> Append(a.rows, Row(a.prev, AllTasks, a.sum)), sum |-> Empty, prev |-> a.prev]
  BY <1>1, <1>2 DEF CloseGroup
<1>4. \A q \in S : q.site \in Site /\ q.site \in Nat
  BY RecordFields DEF RecordSet, Sections
<1>5. PICK C : C = SitesOf(D) \ {a.prev}
  OBVIOUS
<1>6. C \subseteq Site /\ \A c \in C : c < a.prev
  <2>1. \A c \in C : c \in Site /\ c \in Nat /\ c <= a.prev /\ c # a.prev
    BY <1>4, <1>5 DEF SitesOf, Walked
  <2>2. a.prev \in Int
    BY <1>1 DEF Site
  <2>3. QED
    BY <2>1, <2>2
<1>7. SitesOf(D) = C \cup {a.prev}
  BY <1>5 DEF Walked
<1>8. RowsAre(a.rows, S, sec, D \cap shown, C) /\ Sums(a.sum, Group(S, a.prev, sec), sec)
      /\ \A q \in D \cap shown : q.site <= a.prev
  BY <1>5 DEF Walked
<1>9. Fills(S, a.prev, sec) =>
        RowsAre(Append(a.rows, Row(a.prev, AllTasks, a.sum)), S, sec, D \cap shown, C \cup {a.prev})
  <2>1. PICK R : R = D \cap shown /\ R \subseteq S
    OBVIOUS
  <2>2. QED
    BY <1>1, <1>6, <1>8, <2>1, RowsClose
<1>10. b.rows = Append(a.rows, Row(a.prev, AllTasks, a.sum))
  BY <1>3
<1>11. ~Weighs(S, a.prev, sec) => RowsAre(a.rows, S, sec, D \cap shown, C \cup {a.prev})
  BY <1>8 DEF RowsAre
<1>12. QED
  BY <1>2, <1>3, <1>7, <1>9, <1>10, <1>11

\* The accumulators before the first record.
LEMMA WalkStarts ==
  ASSUME NEW S, NEW sec \in Sections, NEW shown
  PROVE  Walked([rows |-> <<>>, sum |-> Empty, prev |-> 0], {}, S, sec, shown)
<1>1. PICK a : a = [rows |-> <<>>, sum |-> Empty, prev |-> 0]
  OBVIOUS
<1>2. Empty \in SummaryType
  BY DBL_MAXAssumption DEF Empty, SummaryType
<1>3. a \in Walking
  BY <1>1, <1>2 DEF Walking
<1>4. Group({}, a.prev, sec) = {} /\ SitesOf({}) = {}
  BY DEF Group, SitesOf
<1>5. Sums(a.sum, {}, sec)
  BY <1>1, EmptySums
<1>6. RowsAre(a.rows, S, sec, {}, {})
  <2>1. a.rows = <<>> /\ a.rows \in Seq(RowType) /\ DOMAIN a.rows = {}
    BY <1>1
  <2>2. QED
    BY <2>1 DEF RowsAre
<1>7. {} \cap shown = {} /\ SitesOf({}) \ {a.prev} = {} /\ a.prev = 0
  BY <1>1, <1>4
<1>8. QED
  BY <1>1, <1>3, <1>4, <1>5, <1>6, <1>7 DEF Walked

\* The accumulators when the group before has been closed, if there is one.
LEMMA TurnHolds ==
  ASSUME NEW S, RecordSet(S), NEW sec \in Sections, NEW shown, NEW D, D \subseteq S,
         NEW r \in S, \A q \in D : Before(q, r), \A q \in S : q \in D \cup {r} \/ Before(r, q),
         NEW a, Walked(a, D, S, sec, shown),
         NEW b, b = IF a.prev \notin {0, r.site} /\ Closes(a.sum, sec) THEN CloseGroup(a) ELSE a
  PROVE  /\ b.sum \in SummaryType /\ Sums(b.sum, Group(D, r.site, sec), sec)
         /\ RowsAre(b.rows, S, sec, D \cap shown, SitesOf(D) \ {r.site})
         /\ \A q \in D : q.site <= r.site
<1>1. a \in Walking /\ a.sum \in SummaryType /\ a.prev \in Nat
  BY DEF Walked, Walking, Site
<1>2. \A q \in S : q.site \in Site /\ q.site \in Nat /\ q.site # 0
  BY RecordFields DEF RecordSet, Sections
<1>3. \A q \in D : q.site <= r.site
  BY <1>2 DEF Before
<1>4. CASE D = {}
  <2>1. a.prev = 0 /\ b = a
    BY <1>4 DEF Walked
  <2>2. Group(D, a.prev, sec) = {} /\ Group(D, r.site, sec) = {} /\ SitesOf(D) = {}
    BY <1>4 DEF Group, SitesOf
  <2>3. QED
    BY <1>1, <1>3, <2>1, <2>2 DEF Walked
<1>5. CASE a.prev = r.site
  <2>1. b = a
    BY <1>5
  <2>2. QED
    BY <1>1, <1>3, <1>5, <2>1 DEF Walked
<1>6. CASE D # {} /\ a.prev # r.site
  <2>1. a.prev # 0 /\ a.prev \in SitesOf(D)
    BY <1>6 DEF Walked
  <2>2. a.prev < r.site
    <3>1. a.prev <= r.site
      BY <1>3, <2>1 DEF SitesOf
    <3>2. r.site \in Nat
      BY <1>2
    <3>3. QED
      BY <1>1, <1>6, <3>1, <3>2
  <2>3. \A q \in D : q.site < r.site
    BY <1>1, <1>2, <2>2 DEF Walked
  <2>4. r.site \notin SitesOf(D) /\ Group(D, r.site, sec) = {}
    BY <1>2, <2>3 DEF SitesOf, Group
  <2>5. Group(D, a.prev, sec) = Group(S, a.prev, sec)
    <3>1. ASSUME NEW q \in S, q.site = a.prev PROVE q \in D
      <4>1. ~Before(r, q) /\ q # r
        BY <1>1, <1>2, <2>2, <3>1 DEF Before
      <4>2. QED
        BY <4>1
    <3>2. QED
      BY <3>1 DEF Group
  <2>6. /\ CloseGroup(a) = [rows |-> Append(a.rows, Row(a.prev, AllTasks, a.sum)),
                             sum |-> Empty, prev |-> a.prev]
        /\ Fills(S, a.prev, sec) => RowsAre(CloseGroup(a).rows, S, sec, D \cap shown, SitesOf(D))
        /\ ~Weighs(S, a.prev, sec) => RowsAre(a.rows, S, sec, D \cap shown, SitesOf(D))
    BY <1>6, <2>5, CloseHolds
  <2>7. SitesOf(D) \ {r.site} = SitesOf(D)
    BY <2>4
  <2>8. CASE Closes(a.sum, sec)
    <3>1. b = CloseGroup(a)
      BY <1>6, <2>1, <2>8
    <3>2. b.sum = Empty
      BY <2>6, <3>1
    <3>3. Empty \in SummaryType
      BY DBL_MAXAssumption DEF Empty, SummaryType
    <3>4. RowsAre(b.rows, S, sec, D \cap shown, SitesOf(D))
      <4>1. Sums(a.sum, Group(S, a.prev, sec), sec)
        BY <2>5 DEF Walked
      <4>2. Fills(S, a.prev, sec)
        BY <2>8, <4>1, SomethingToClose
      <4>3. QED
        BY <2>6, <3>1, <4>2
    <3>5. QED
      BY <1>3, <2>4, <2>7, <3>2, <3>3, <3>4, EmptySums
  <2>9. CASE ~Closes(a.sum, sec)
    <3>1. b = a
      BY <2>9
    <3>2. Sums(a.sum, Group(S, a.prev, sec), sec)
      BY <2>5 DEF Walked
    <3>3. Group(S, a.prev, sec) = {} /\ ~Weighs(S, a.prev, sec)
      BY <1>1, <2>9, <3>2, NothingToClose
    <3>4. RowsAre(a.rows, S, sec, D \cap shown, SitesOf(D)) /\ Sums(a.sum, {}, sec)
      BY <2>6, <3>2, <3>3
    <3>5. QED
      BY <1>1, <1>3, <2>4, <2>7, <3>1, <3>4
  <2>10. QED
    BY <2>8, <2>9
<1>7. QED
  BY <1>4, <1>5, <1>6

\* A record is visited.
LEMMA VisitHolds ==
  ASSUME NEW S, RecordSet(S), NEW sec \in Sections, NEW shown, NEW D, D \subseteq S,
         NEW r \in S, r \notin D, \A q \in D : Before(q, r), \A q \in S : q \in D \cup {r} \/ Before(r, q),
         NEW a, Walked(a, D, S, sec, shown)
  PROVE  Walked(Visit(a, r, sec, shown), D \cup {r}, S, sec, shown)
<1>1. PICK b : b = IF a.prev \notin {0, r.site} /\ Closes(a.sum, sec) THEN CloseGroup(a) ELSE a
  OBVIOUS
<1>2. PICK v : v = Visit(a, r, sec, shown)
  OBVIOUS
<1>3. v = [rows |-> IF r \in shown THEN Append(b.rows, RankRow(r, sec)) ELSE b.rows,
           sum  |-> IF Counts(r, sec) THEN Added(b.sum, r, sec) ELSE b.sum,
           prev |-> r.site]
  BY <1>1, <1>2 DEF Visit
<1>4. /\ b.sum \in SummaryType /\ Sums(b.sum, Group(D, r.site, sec), sec)
      /\ RowsAre(b.rows, S, sec, D \cap shown, SitesOf(D) \ {r.site})
      /\ \A q \in D : q.site <= r.site
  BY <1>1, TurnHolds
<1>5. /\ r \in Record(Site, Rank) /\ r.site \in Site /\ r.site \in Nat /\ r.site # 0
      /\ r.count \in Nat /\ r.cum[sec] \in Nat /\ r.max[sec] \in Nat /\ r.min[sec] \in Nat
      /\ r.min[sec] <= DBL_MAX
  BY RecordFields DEF RecordSet
<1>6. v.sum \in SummaryType /\ Sums(v.sum, Group(D \cup {r}, r.site, sec), sec)
  <2>1. RecordSet(Group(D, r.site, sec)) /\ r \notin Group(D, r.site, sec)
    <3>1. Group(D, r.site, sec) \subseteq S
      BY DEF Group
    <3>2. QED
      BY <3>1, RecordSubset DEF Group
  <2>2. CASE Counts(r, sec)
    <3>1. v.sum = Added(b.sum, r, sec)
      BY <1>3, <2>2
    <3>2. Group(D \cup {r}, r.site, sec) = Group(D, r.site, sec) \cup {r}
      BY <2>2 DEF Group
    <3>3. b.sum.count \in Nat /\ b.sum.cum \in Nat /\ b.sum.max \in Nat /\ b.sum.min \in Nat
      BY <1>4 DEF SummaryType
    <3>4. Added(b.sum, r, sec) \in SummaryType
      BY <1>5, <3>3 DEF Added, SummaryType, Larger, Smaller
    <3>5. Sums(Added(b.sum, r, sec), Group(D, r.site, sec) \cup {r}, sec)
      BY <1>4, <1>5, <2>1, <3>3, AddedSums
    <3>6. QED
      BY <3>1, <3>2, <3>4, <3>5
  <2>3. CASE ~Counts(r, sec)
    <3>1. v.sum = b.sum /\ Group(D \cup {r}, r.site, sec) = Group(D, r.site, sec)
      BY <1>3, <2>3 DEF Group
    <3>2. QED
      BY <1>4, <3>1
  <2>4. QED
    BY <2>2, <2>3
<1>7. PICK C : C = SitesOf(D) \ {r.site}
  OBVIOUS
<1>8. SitesOf(D \cup {r}) \ {r.site} = C /\ r.site \in SitesOf(D \cup {r})
  BY <1>7 DEF SitesOf
<1>9. \A q \in D : q.site \in Site /\ q.site \in Nat
  BY RecordFields DEF RecordSet, Sections
<1>10. C \subseteq Site /\ \A c \in C : c < r.site
  BY <1>4, <1>5, <1>7, <1>9 DEF SitesOf
<1>11. RowsAre(v.rows, S, sec, (D \cup {r}) \cap shown, C)
  <2>1. PICK R : R = D \cap shown
    OBVIOUS
  <2>2. R \subseteq S /\ RowsAre(b.rows, S, sec, R, C) /\ \A q \in R : Before(q, r)
    BY <1>4, <1>7, <2>1
  <2>3. CASE r \in shown
    <3>1. v.rows = Append(b.rows, RankRow(r, sec)) /\ (D \cup {r}) \cap shown = R \cup {r}
      BY <1>3, <2>1, <2>3
    <3>2. RowsAre(Append(b.rows, RankRow(r, sec)), S, sec, R \cup {r}, C)
      BY <1>10, <2>2, RowsGrow
    <3>3. QED
      BY <3>1, <3>2
  <2>4. CASE r \notin shown
    <3>1. v.rows = b.rows /\ (D \cup {r}) \cap shown = R
      BY <1>3, <2>1, <2>4
    <3>2. QED
      BY <2>2, <3>1
  <2>5. QED
    BY <2>3, <2>4
<1>12. v.prev = r.site /\ v.rows \in Seq(RowType)
  BY <1>3, <1>11 DEF RowsAre
<1>13. v \in Walking
  <2>1. v = [rows |-> v.rows, sum |-> v.sum, prev |-> v.prev]
    BY <1>3
  <2>2. QED
    BY <1>5, <1>6, <1>12, <2>1 DEF Walking
<1>14. \A q \in D \cup {r} : q.site <= v.prev
  BY <1>4, <1>5, <1>12
<1>15. Walked(v, D \cup {r}, S, sec, shown)
  BY <1>5, <1>6, <1>8, <1>11, <1>12, <1>13, <1>14 DEF Walked
<1>16. QED
  BY <1>2, <1>15

\* All records are visited.
LEMMA WalkHolds ==
  ASSUME NEW S, RecordSet(S), NEW sec \in Sections, NEW shown
  PROVE  Walked(Walk(S, sec, shown), S, S, sec, shown)
<1>1. PICK n \in Nat : n = Cardinality(S)
  BY FS_CardinalityType DEF RecordSet
<1>2. PICK data : data = Sorted(S)
  OBVIOUS
<1>3. PICK R : R = SortOrder(S)
  OBVIOUS
<1>4. IsFiniteSet(S) /\ StrictOrder(S, R) /\ Lists(data, S, R)
  BY <1>2, <1>3, SortedLists DEF RecordSet
<1>5. \A p, q \in S : <<p, q>> \in R <=> Before(p, q)
  BY <1>3 DEF SortOrder
<1>6. ASSUME NEW k \in Nat, k < n, NEW a, Walked(a, UpTo(data, k), S, sec, shown)
      PROVE  Walked(Visit(a, data[k + 1], sec, shown), UpTo(data, k + 1), S, sec, shown)
  <2>1. /\ UpTo(data, k + 1) = UpTo(data, k) \cup {data[k + 1]}
        /\ data[k + 1] \in S /\ data[k + 1] \notin UpTo(data, k)
        /\ \A q \in UpTo(data, k) : q \in S /\ <<q, data[k + 1]>> \in R
        /\ \A q \in S : q \in UpTo(data, k + 1) \/ <<data[k + 1], q>> \in R
    BY <1>1, <1>4, <1>6, UpToGrows
  <2>2. PICK r, D : r = data[k + 1] /\ D = UpTo(data, k)
    OBVIOUS
  <2>3. /\ r \in S /\ r \notin D /\ D \subseteq S
        /\ \A q \in D : Before(q, r)
        /\ \A q \in S : q \in D \cup {r} \/ Before(r, q)
    BY <1>5, <2>1, <2>2
  <2>4. Walked(a, D, S, sec, shown)
    BY <1>6, <2>2
  <2>5. Walked(Visit(a, r, sec, shown), D \cup {r}, S, sec, shown)
    BY <2>3, <2>4, VisitHolds
  <2>6. QED
    BY <2>1, <2>2, <2>5
<1>7. PICK start : start = [rows |-> <<>>, sum |-> Empty, prev |-> 0]
  OBVIOUS
<1>8. Walked(start, UpTo(data, 0), S, sec, shown)
  <2>1. UpTo(data, 0) = {}
    BY <1>4, UpToEnds
  <2>2. QED
    BY <1>7, <2>1, WalkStarts
<1>9. PICK A : A = [k \in 0 .. n |-> {a \in Walking : Walked(a, UpTo(data, k), S, sec, shown)}]
  OBVIOUS
<1>10. PICK step : step = [k \in 1 .. n |-> [a \in A[k - 1] |-> Visit(a, data[k], sec, shown)]]
  OBVIOUS
<1>11. start \in A[0]
  BY <1>8, <1>9 DEF Walked
<1>12. ASSUME NEW k \in 1 .. n PROVE \A a \in A[k - 1] : Visit(a, data[k], sec, shown) \in A[k]
  <2>1. PICK j \in Nat : j = k - 1 /\ j < n /\ k = j + 1
    OBVIOUS
  <2>2. SUFFICES ASSUME NEW a \in A[j] PROVE Visit(a, data[j + 1], sec, shown) \in A[j + 1]
    BY <2>1
  <2>3. Walked(a, UpTo(data, j), S, sec, shown)
    BY <1>9, <2>1
  <2>4. Walked(Visit(a, data[j + 1], sec, shown), UpTo(data, j + 1), S, sec, shown)
    BY <1>6, <2>1, <2>3
  <2>5. j + 1 \in 0 .. n /\ Visit(a, data[j + 1], sec, shown) \in Walking
    BY <2>1, <2>4 DEF Walked
  <2>6. QED
    BY <1>9, <2>4, <2>5
<1>13. \A k \in 1 .. n : step[k] \in [A[k - 1] -> A[k]]
  BY <1>10, <1>12
<1>14. \E at : at = [k \in 0 .. n |-> IF k = 0 THEN start ELSE Visit(at[k - 1], data[k], sec, shown)]
  <2>1. PICK at : IsWalk(at, n, start, step) /\ \A k \in 0 .. n : at[k] \in A[k]
    BY <1>11, <1>13, WalkExists
  <2>2. \A k \in 1 .. n : at[k - 1] \in A[k - 1]
    <3>1. \A k \in 1 .. n : k - 1 \in 0 .. n
      OBVIOUS
    <3>2. QED
      BY <2>1, <3>1
  <2>3. \A k \in 1 .. n : step[k][at[k - 1]] = Visit(at[k - 1], data[k], sec, shown)
    BY <1>10, <2>2
  <2>4. \A k \in 0 .. n : k = 0 \/ k \in 1 .. n
    OBVIOUS
  <2>5. at = [k \in 0 .. n |-> IF k = 0 THEN start ELSE Visit(at[k - 1], data[k], sec, shown)]
    BY <2>1, <2>3, <2>4 DEF IsWalk
  <2>6. QED
    BY <2>5
<1>15. PICK at : /\ at = [k \in 0 .. n |-> IF k = 0 THEN start ELSE Visit(at[k - 1], data[k], sec, shown)]
                 /\ at[n] = Walk(S, sec, shown)
  BY <1>1, <1>2, <1>7, <1>14 DEF Walk
<1>16. PICK P : P = {k \in Nat : k <= n => at[k] \in A[k]}
  OBVIOUS
<1>17. 0 \in P
  BY <1>11, <1>15, <1>16
<1>18. ASSUME NEW k \in Nat, k \in P PROVE k + 1 \in P
  <2>1. SUFFICES ASSUME k + 1 <= n PROVE at[k + 1] \in A[k + 1]
    BY <1>16
  <2>2. k + 1 \in 1 .. n /\ k + 1 # 0 /\ (k + 1) - 1 = k /\ at[k] \in A[k]
    BY <1>16, <1>18, <2>1
  <2>3. at[k + 1] = Visit(at[k], data[k + 1], sec, shown)
    BY <1>15, <2>2
  <2>4. QED
    BY <1>12, <2>2, <2>3
<1>19. at[n] \in A[n]
  BY <1>16, <1>17, <1>18, SetInduction
<1>20. UpTo(data, n) = S
  BY <1>1, <1>4, UpToEnds
<1>21. QED
  BY <1>9, <1>15, <1>19, <1>20

-----------------------------------------------------------------------------
(* What the rows of a verbose section say. *)

\* Summands of 0 do not count.
LEMMA SumIgnores ==
  ASSUME NEW S, IsFiniteSet(S), NEW w, \A x \in S : w[x] \in Int, NEW T, T \subseteq S, \A x \in S \ T : w[x] = 0
  PROVE  SumFunctionOnSet(w, S) = SumFunctionOnSet(w, T)
<1>1. PICK E : E = S \ T
  OBVIOUS
<1>2. PICK P : P = {s \in SUBSET E : SumFunctionOnSet(w, T \cup s) = SumFunctionOnSet(w, T)}
  OBVIOUS
<1>3. {} \in P
  <2>1. T \cup {} = T
    OBVIOUS
  <2>2. QED
    BY <1>2, <2>1
<1>4. ASSUME NEW s \in SUBSET E, s # {}, \A x \in s : s \ {x} \in P PROVE s \in P
  <2>1. PICK x : x \in s
    BY <1>4
  <2>2. PICK U : U = T \cup s
    OBVIOUS
  <2>3. IsFiniteSet(U) /\ x \in U /\ U \ {x} = T \cup (s \ {x}) /\ \A y \in U : w[y] \in Int
    <3>1. U \subseteq S
      BY <1>1, <2>2
    <3>2. x \notin T
      BY <1>1, <2>1
    <3>3. QED
      BY <2>1, <2>2, <3>1, <3>2, FS_Subset
  <2>4. SumFunctionOnSet(w, U) = SumFunctionOnSet(w, U \ {x}) + w[x]
    BY <2>3, SumRemove
  <2>5. SumFunctionOnSet(w, T \cup (s \ {x})) = SumFunctionOnSet(w, T)
    BY <1>2, <1>4, <2>1
  <2>6. w[x] = 0 /\ SumFunctionOnSet(w, T) \in Int
    <3>1. IsFiniteSet(T) /\ \A y \in T : w[y] \in Int
      BY FS_Subset
    <3>2. SumFunctionOnSet(w, T) \in Int
      BY <3>1, SumType
    <3>3. QED
      BY <1>1, <2>1, <3>2
  <2>7. SumFunctionOnSet(w, U) = SumFunctionOnSet(w, T)
    <3>1. SumFunctionOnSet(w, U \ {x}) = SumFunctionOnSet(w, T)
      BY <2>3, <2>5
    <3>2. PICK n \in Int : n = SumFunctionOnSet(w, T)
      BY <2>6
    <3>3. SumFunctionOnSet(w, U) = n + 0
      BY <2>4, <2>6, <3>1, <3>2
    <3>4. QED
      BY <3>2, <3>3
  <2>8. QED
    BY <1>2, <1>4, <2>2, <2>7
<1>5. IsFiniteSet(E)
  BY <1>1, FS_Subset
<1>6. E \in P
  BY <1>3, <1>4, <1>5, SubsetInduction
<1>7. T \cup E = S
  BY <1>1
<1>8. QED
  BY <1>2, <1>6, <1>7

\* Records that add nothing do not count.
LEMMA TotalIgnores ==
  ASSUME NEW S, RecordSet(S), NEW T, T \subseteq S, NEW sec \in Sections
  PROVE  /\ (\A r \in S \ T : r.cum[sec] = 0) => TotalOf(S, sec) = TotalOf(T, sec)
         /\ (\A r \in S \ T : r.count = 0) => CallsOf(S) = CallsOf(T)
<1>1. PICK w, c : w = [r \in S |-> r.cum[sec]] /\ c = [r \in S |-> r.count]
  OBVIOUS
<1>2. PICK v, d : v = [r \in T |-> r.cum[sec]] /\ d = [r \in T |-> r.count]
  OBVIOUS
<1>3. \A r \in S : w[r] \in Int /\ c[r] \in Int
  BY <1>1, RecordFields DEF RecordSet
<1>4. IsFiniteSet(S) /\ IsFiniteSet(T)
  BY FS_Subset DEF RecordSet
<1>5. \A r \in T : w[r] = v[r] /\ c[r] = d[r]
  BY <1>1, <1>2
<1>6. SumFunctionOnSet(w, T) = SumFunctionOnSet(v, T) /\ SumFunctionOnSet(c, T) = SumFunctionOnSet(d, T)
  BY <1>4, <1>5, SumSame
<1>7. /\ (\A r \in S \ T : r.cum[sec] = 0) => SumFunctionOnSet(w, S) = SumFunctionOnSet(w, T)
      /\ (\A r \in S \ T : r.count = 0) => SumFunctionOnSet(c, S) = SumFunctionOnSet(c, T)
  <2>1. ASSUME \A r \in S \ T : r.cum[sec] = 0 PROVE SumFunctionOnSet(w, S) = SumFunctionOnSet(w, T)
    <3>1. \A r \in S \ T : w[r] = 0
      BY <1>1, <2>1
    <3>2. QED
      BY <1>3, <1>4, <3>1, SumIgnores
  <2>2. ASSUME \A r \in S \ T : r.count = 0 PROVE SumFunctionOnSet(c, S) = SumFunctionOnSet(c, T)
    <3>1. \A r \in S \ T : c[r] = 0
      BY <1>1, <2>2
    <3>2. QED
      BY <1>3, <1>4, <3>1, SumIgnores
  <2>3. QED
    BY <2>1, <2>2
<1>8. QED
  BY <1>1, <1>2, <1>6, <1>7 DEF TotalOf, CallsOf

\* The largest and the smallest of some numbers.
LEMMA Extremes ==
  ASSUME NEW T, T \subseteq Int, NEW v \in T
  PROVE  /\ (\A x \in T : x <= v) => Max(T) = v
         /\ (\A x \in T : v <= x) => Min(T) = v
<1>1. ASSUME \A x \in T : x <= v PROVE Max(T) = v
  <2>1. \A x \in T : v >= x
    BY <1>1
  <2>2. Max(T) \in T /\ \A x \in T : Max(T) >= x
    BY <2>1 DEF Max
  <2>3. Max(T) >= v /\ Max(T) <= v /\ Max(T) \in Int /\ v \in Int
    BY <1>1, <2>2
  <2>4. QED
    BY <2>3
<1>2. ASSUME \A x \in T : v <= x PROVE Min(T) = v
  <2>1. Min(T) \in T /\ \A x \in T : Min(T) <= x
    BY <1>2 DEF Min
  <2>2. Min(T) <= v /\ v <= Min(T) /\ Min(T) \in Int /\ v \in Int
    BY <1>2, <2>1
  <2>3. QED
    BY <2>2
<1>3. QED
  BY <1>1, <1>2

\* The records of the tasks: one of a task and call site, and in one that was cleared no time
\* and no message (there may be bytes of RMA).
Tables ==
  /\ RecordSet(Records) /\ Records # {}
  /\ \A t \in Rank : \A r \in table[t] : r.rank = t
  /\ \A r \in Records : r.count = 0 =>
       /\ r.cum["time"] = 0 /\ r.cum["sent"] = 0
       /\ r.max["time"] = 0 /\ r.min["time"] = DBL_MAX

\* The records that a section is about.
LEMMA PartIs ==
  ASSUME NEW s, NEW sec
  PROVE  Part(s, sec) = {r \in OfSite(s) : Live(r, sec) /\ Counts(r, sec)}
BY DEF Part, Live, Counts

\* The row of a task.
LEMMA ExactTaskRow ==
  ASSUME Tables, NEW sec \in Sections, NEW r \in Records, r \in Part(r.site, sec)
  PROVE  ExactRow(RankRow(r, sec), sec)
<1>1. PICK x : x = RankRow(r, sec)
  OBVIOUS
<1>2. r \in Record(Site, Rank) /\ r.min[sec] <= DBL_MAX
  BY DEF Tables, RecordSet
<1>3. x = [site |-> r.site, rank |-> r.rank, count |-> r.count,
           cum |-> r.cum[sec], max |-> r.max[sec], min |-> r.min[sec]]
  BY <1>1, <1>2, RowFields
<1>4. /\ x.site = r.site /\ x.rank = r.rank /\ x.count = r.count /\ x.cum = r.cum[sec]
      /\ x.max = r.max[sec] /\ x.min = r.min[sec] /\ r.rank # AllTasks
      /\ r.count \in Nat /\ r.cum[sec] \in Nat /\ r.max[sec] \in Int /\ r.min[sec] \in Int
  BY <1>2, <1>3, RecordFields, RowFields
<1>5. PICK of : of = {q \in Part(x.site, sec) : x.rank \in {AllTasks, q.rank}}
  OBVIOUS
<1>6. of = {r}
  <2>1. ASSUME NEW q \in of PROVE q = r
    <3>1. q \in Records /\ q.site = r.site /\ q.rank = r.rank
      BY <1>4, <1>5, <2>1 DEF Part, OfSite
    <3>2. QED
      BY <3>1 DEF Tables, RecordSet
  <2>2. r \in of
    BY <1>4, <1>5
  <2>3. QED
    BY <2>1, <2>2
<1>7. CallsOf({r}) = r.count /\ TotalOf({r}, sec) = r.cum[sec]
  <2>1. PICK none : none = {}
    OBVIOUS
  <2>2. RecordSet(none) /\ r \notin none /\ none \cup {r} = {r}
    BY <2>1, FS_EmptySet DEF RecordSet
  <2>3. CallsOf(none \cup {r}) = CallsOf(none) + r.count
        /\ TotalOf(none \cup {r}, sec) = TotalOf(none, sec) + r.cum[sec]
    BY <1>2, <2>2, TotalGrows
  <2>4. CallsOf(none) = 0 /\ TotalOf(none, sec) = 0
    BY <2>1, <2>2, TotalType
  <2>5. CallsOf({r}) = 0 + r.count /\ TotalOf({r}, sec) = 0 + r.cum[sec]
    BY <2>2, <2>3, <2>4
  <2>6. QED
    BY <1>4, <2>5
<1>8. Max({q.max[sec] : q \in {r}}) = r.max[sec] /\ Min({q.min[sec] : q \in {r}}) = r.min[sec]
  <2>1. {q.max[sec] : q \in {r}} = {r.max[sec]} /\ {q.min[sec] : q \in {r}} = {r.min[sec]}
    OBVIOUS
  <2>2. ASSUME NEW v \in Int PROVE Max({v}) = v /\ Min({v}) = v
    <3>1. {v} \subseteq Int /\ v \in {v} /\ \A y \in {v} : y <= v /\ v <= y
      OBVIOUS
    <3>2. QED
      BY <3>1, Extremes
  <2>3. QED
    BY <1>4, <2>1, <2>2
<1>9. /\ x.count = CallsOf(of) /\ x.cum = TotalOf(of, sec)
      /\ x.max = Max({q.max[sec] : q \in of}) /\ x.min = Min({q.min[sec] : q \in of})
  BY <1>4, <1>6, <1>7, <1>8
<1>10. ExactRow(x, sec)
  BY <1>5, <1>9 DEF ExactRow
<1>11. QED
  BY <1>1, <1>10

\* Where records of S stand for those of the call sites C: cleared ones are neutral, except for
\* the minimum of -l where a task lacks the site.
StandsFor(S, C, sec) ==
  /\ RecordSet(S) /\ C \subseteq Site
  /\ \A s \in C : {r \in Group(S, s, sec) : Live(r, sec)} = Part(s, sec)
  /\ \A r \in S : ~Live(r, sec) /\ Counts(r, sec) =>
       /\ r.cum[sec] = 0 /\ r.max[sec] = 0
       /\ \/ r.min[sec] = DBL_MAX
          \/ /\ r.min[sec] = 0 /\ opt.collective /\ sec = "time"
             /\ Cardinality(OfSite(r.site)) < Cardinality(Rank)

\* A group without calls.
LEMMA GroupCalls ==
  ASSUME NEW sec \in Sections, NEW S, NEW C, StandsFor(S, C, sec), NEW s \in C
  PROVE  /\ RecordSet(Group(S, s, sec)) /\ Part(s, sec) \subseteq Group(S, s, sec)
         /\ CallsOf(Group(S, s, sec)) = CallsOf(Part(s, sec))
         /\ TotalOf(Group(S, s, sec), sec) = TotalOf(Part(s, sec), sec)
         /\ Weighs(S, s, sec) <=> Part(s, sec) # {}
<1>1. PICK G, P : G = Group(S, s, sec) /\ P = Part(s, sec)
  OBVIOUS
<1>2. RecordSet(G) /\ P \subseteq G /\ RecordSet(P)
  <2>1. G \subseteq S /\ P = {r \in G : Live(r, sec)}
    BY <1>1 DEF Group, StandsFor
  <2>2. QED
    BY <2>1, RecordSubset DEF StandsFor
<1>3. \A r \in G : r \in Record(Site, Rank) /\ r.count \in Nat
  BY <1>2, RecordFields DEF RecordSet
<1>4. \A r \in G \ P : r.count = 0 /\ r.cum[sec] = 0
  <2>1. SUFFICES ASSUME NEW r \in G \ P PROVE r.count = 0 /\ r.cum[sec] = 0
    OBVIOUS
  <2>2. r \in S /\ Counts(r, sec) /\ ~Live(r, sec)
    BY <1>1 DEF Group, StandsFor
  <2>3. r.count = 0
    BY <1>3, <2>2 DEF Live
  <2>4. QED
    BY <2>2, <2>3 DEF StandsFor
<1>5. CallsOf(G) = CallsOf(P) /\ TotalOf(G, sec) = TotalOf(P, sec)
  BY <1>2, <1>4, TotalIgnores
<1>6. ASSUME sec = "time", P # {} PROVE CallsOf(G) > 0
  <2>1. PICK r \in P : TRUE
    BY <1>6
  <2>2. r \in G /\ r.count > 0 /\ r.count \in Nat
    BY <1>1, <1>2, <1>3, <1>6, <2>1 DEF StandsFor, Live
  <2>3. r.count <= CallsOf(G) /\ CallsOf(G) \in Nat
    BY <1>2, <2>2, TotalAbove, TotalType
  <2>4. QED
    BY <2>2, <2>3
<1>7. P = {} => CallsOf(P) = 0
  BY <1>2, TotalType
<1>8. sec # "time" => P = G
  BY <1>1 DEF StandsFor, Live
<1>9. Weighs(S, s, sec) <=> P # {}
  BY <1>1, <1>5, <1>6, <1>7, <1>8 DEF Weighs
<1>10. QED
  BY <1>1, <1>2, <1>5, <1>9

\* The row of a call site that was called.
LEMMA ExactSiteRow ==
  ASSUME NEW sec \in Sections, NEW S, NEW C, StandsFor(S, C, sec), NEW s \in C, Part(s, sec) # {},
         NEW x \in RowType, SiteRow(x, S, s, sec)
  PROVE  ExactRow(x, sec)
<1>1. PICK G, P : G = Group(S, s, sec) /\ P = Part(s, sec)
  OBVIOUS
<1>2. /\ RecordSet(G) /\ P \subseteq G /\ P # {}
      /\ CallsOf(G) = CallsOf(P) /\ TotalOf(G, sec) = TotalOf(P, sec)
  BY <1>1, GroupCalls
<1>3. x.site = s /\ x.rank = AllTasks /\ Sums(x, G, sec)
  BY <1>1 DEF SiteRow
<1>4. P = {r \in Part(x.site, sec) : x.rank \in {AllTasks, r.rank}}
  BY <1>1, <1>3
<1>5. \A r \in G : r \in Record(Site, Rank) /\ r.count \in Nat /\ r.max[sec] \in Nat /\ r.min[sec] \in Nat
                   /\ r.min[sec] <= DBL_MAX
  BY <1>2, RecordFields DEF RecordSet
<1>6. \A r \in G : r.max[sec] <= x.max /\ x.min <= r.min[sec]
  BY <1>3 DEF Sums
<1>7. x.max \in Nat /\ x.min \in Nat
  BY DEF RowType
<1>8. \A r \in G \ P : /\ r.max[sec] = 0
                       /\ \/ r.min[sec] = DBL_MAX
                          \/ /\ r.min[sec] = 0 /\ opt.collective /\ sec = "time"
                             /\ Cardinality(OfSite(s)) < Cardinality(Rank)
  <2>1. SUFFICES ASSUME NEW r \in G \ P
                 PROVE  /\ r.max[sec] = 0
                        /\ \/ r.min[sec] = DBL_MAX
                           \/ /\ r.min[sec] = 0 /\ opt.collective /\ sec = "time"
                              /\ Cardinality(OfSite(s)) < Cardinality(Rank)
    OBVIOUS
  <2>2. r \in S /\ Counts(r, sec) /\ ~Live(r, sec) /\ r.site = s
    BY <1>1 DEF Group, StandsFor
  <2>3. QED
    BY <2>2 DEF StandsFor
<1>9. \E r \in P : x.max = r.max[sec]
  <2>1. PICK g \in G : x.max = g.max[sec]
    BY <1>2, <1>3 DEF Sums
  <2>2. CASE g \in P
    BY <2>1, <2>2
  <2>3. CASE g \notin P
    <3>1. x.max = 0
      BY <1>8, <2>1, <2>3
    <3>2. PICK r \in P : TRUE
      BY <1>2
    <3>3. r.max[sec] \in Nat /\ r.max[sec] <= 0
      BY <1>2, <1>5, <1>6, <3>1, <3>2
    <3>4. QED
      BY <3>1, <3>3
  <2>4. QED
    BY <2>2, <2>3
<1>10. \/ \E r \in P : x.min = r.min[sec]
       \/ /\ x.min = 0 /\ opt.collective /\ sec = "time"
          /\ Cardinality(OfSite(s)) < Cardinality(Rank)
  <2>1. PICK g \in G : x.min = g.min[sec]
    BY <1>2, <1>3 DEF Sums
  <2>2. CASE g \in P
    BY <2>1, <2>2
  <2>3. CASE g \notin P /\ g.min[sec] = DBL_MAX
    <3>1. PICK r \in P : TRUE
      BY <1>2
    <3>2. r.min[sec] \in Nat /\ r.min[sec] <= DBL_MAX /\ DBL_MAX <= r.min[sec] /\ DBL_MAX \in Nat
      BY <1>2, <1>5, <1>6, <2>1, <2>3, <3>1, DBL_MAXAssumption
    <3>3. QED
      BY <2>1, <2>3, <3>2
  <2>4. CASE g \notin P /\ g.min[sec] # DBL_MAX
    BY <1>8, <2>1, <2>4
  <2>5. QED
    BY <2>2, <2>3, <2>4
<1>11. /\ \A r \in P : r.max[sec] \in Int /\ r.min[sec] \in Int
       /\ \A r \in P : r.max[sec] <= x.max /\ x.min <= r.min[sec]
  BY <1>2, <1>5, <1>6
<1>12. x.max = Max({r.max[sec] : r \in P})
  <2>1. PICK T : T = {r.max[sec] : r \in P}
    OBVIOUS
  <2>2. T \subseteq Int /\ x.max \in T /\ \A y \in T : y <= x.max
    BY <1>9, <1>11, <2>1
  <2>3. QED
    BY <2>1, <2>2, Extremes
<1>13. (\E r \in P : x.min = r.min[sec]) => x.min = Min({r.min[sec] : r \in P})
  <2>1. PICK T : T = {r.min[sec] : r \in P}
    OBVIOUS
  <2>2. SUFFICES ASSUME \E r \in P : x.min = r.min[sec] PROVE x.min = Min(T)
    BY <2>1
  <2>3. T \subseteq Int /\ x.min \in T /\ \A y \in T : x.min <= y
    BY <1>11, <2>1, <2>2
  <2>4. QED
    BY <2>3, Extremes
<1>14. x.count = CallsOf(P) /\ x.cum = TotalOf(P, sec)
  BY <1>2, <1>3 DEF Sums
<1>15. QED
  BY <1>3, <1>4, <1>10, <1>12, <1>13, <1>14 DEF ExactRow

\* Rows are exact if they are those of the records that have to be shown.
LEMMA ExactFromRows ==
  ASSUME Tables, NEW sec \in Sections, NEW S, NEW C, StandsFor(S, C, sec), NEW R, R \subseteq S,
         \A r \in S : Live(r, sec) =>
           (r \in R <=> r.site \in C /\ Counts(r, sec) /\ (sec = "time" => Reaches(r, TaskTime, opt.threshold))),
         NEW rows, RowsAre(rows, S, sec, R, C)
  PROVE  ExactRows(rows, sec, C)
<1>1. PICK valid : valid = {i \in DOMAIN rows : Live(rows[i], sec)}
  OBVIOUS
<1>2. PICK sites : sites = {s \in C : Part(s, sec) # {}}
  OBVIOUS
<1>3. PICK shown : shown = {r \in UNION {Part(s, sec) : s \in sites} :
                              sec = "time" => Reaches(r, TaskTime, opt.threshold)}
  OBVIOUS
<1>4. \A s : \A r \in Part(s, sec) : r.site = s /\ Live(r, sec) /\ Counts(r, sec) /\ r \in Records
  BY PartIs DEF OfSite
<1>5. \A s \in C : \A r \in S : r \in Part(s, sec) <=> r.site = s /\ Counts(r, sec) /\ Live(r, sec)
  BY DEF StandsFor, Group
<1>6. \A s \in C : Part(s, sec) \subseteq S
  BY DEF StandsFor, Group
<1>7. shown = {r \in R : Live(r, sec)}
  <2>1. ASSUME NEW r \in shown PROVE r \in R /\ Live(r, sec)
    <3>1. PICK s \in C : r \in Part(s, sec)
      BY <1>2, <1>3
    <3>2. r \in S /\ r.site = s /\ Live(r, sec) /\ Counts(r, sec)
      BY <1>4, <1>6, <3>1
    <3>3. QED
      BY <1>3, <3>1, <3>2
  <2>2. ASSUME NEW r \in R, Live(r, sec) PROVE r \in shown
    <3>1. r.site \in C /\ Counts(r, sec) /\ (sec = "time" => Reaches(r, TaskTime, opt.threshold))
      BY <2>2
    <3>2. r \in Part(r.site, sec)
      BY <1>5, <2>2, <3>1
    <3>3. r.site \in sites
      BY <1>2, <3>1, <3>2
    <3>4. QED
      BY <1>3, <3>1, <3>2, <3>3
  <2>3. QED
    BY <2>1, <2>2
<1>8. \A r \in S : /\ RankRow(r, sec).site = r.site /\ RankRow(r, sec).rank = r.rank
                   /\ Live(RankRow(r, sec), sec) <=> Live(r, sec)
  <2>1. \A r \in S : r \in Record(Site, Rank) /\ r.min[sec] <= DBL_MAX
    BY DEF StandsFor, RecordSet
  <2>2. QED
    BY <2>1, RowFields DEF Live
<1>9. \A i \in valid : \/ \E r \in shown : rows[i] = RankRow(r, sec)
                       \/ \E s \in sites : SiteRow(rows[i], S, s, sec)
  <2>1. SUFFICES ASSUME NEW i \in valid
                 PROVE  \/ \E r \in shown : rows[i] = RankRow(r, sec)
                        \/ \E s \in sites : SiteRow(rows[i], S, s, sec)
    OBVIOUS
  <2>2. i \in DOMAIN rows /\ Live(rows[i], sec)
    BY <1>1
  <2>3. CASE \E r \in R : rows[i] = RankRow(r, sec)
    BY <1>7, <1>8, <2>2, <2>3
  <2>4. CASE \E s \in C : SiteRow(rows[i], S, s, sec)
    <3>1. PICK s \in C : SiteRow(rows[i], S, s, sec)
      BY <2>4
    <3>2. Weighs(S, s, sec)
      BY <2>2, <3>1 DEF SiteRow, Sums, Fills, Weighs, Live
    <3>3. Part(s, sec) # {}
      BY <3>2, GroupCalls
    <3>4. QED
      BY <1>2, <3>1, <3>3
  <2>5. QED
    BY <2>2, <2>3, <2>4 DEF RowsAre
<1>10. \A r \in shown : \E i \in valid : rows[i] = RankRow(r, sec)
  <2>1. SUFFICES ASSUME NEW r \in shown PROVE \E i \in valid : rows[i] = RankRow(r, sec)
    OBVIOUS
  <2>2. PICK i \in DOMAIN rows : rows[i] = RankRow(r, sec)
    BY <1>7 DEF RowsAre
  <2>3. Live(rows[i], sec)
    BY <1>7, <1>8, <2>2
  <2>4. QED
    BY <1>1, <2>2, <2>3
<1>11. \A s \in sites : \E i \in valid : SiteRow(rows[i], S, s, sec)
  <2>1. SUFFICES ASSUME NEW s \in sites PROVE \E i \in valid : SiteRow(rows[i], S, s, sec)
    OBVIOUS
  <2>2. s \in C /\ Weighs(S, s, sec)
    BY <1>2, GroupCalls
  <2>3. PICK i \in DOMAIN rows : SiteRow(rows[i], S, s, sec)
    BY <2>2 DEF RowsAre
  <2>4. Live(rows[i], sec)
    BY <2>2, <2>3 DEF SiteRow, Sums, Weighs, Live
  <2>5. QED
    BY <1>1, <2>3, <2>4
<1>12. {<<rows[i].site, rows[i].rank>> : i \in valid}
         = {<<r.site, r.rank>> : r \in shown} \cup (sites \X {AllTasks})
  <2>1. \A i \in valid : \/ \E r \in shown : rows[i].site = r.site /\ rows[i].rank = r.rank
                         \/ \E s \in sites : rows[i].site = s /\ rows[i].rank = AllTasks
    BY <1>7, <1>8, <1>9 DEF SiteRow
  <2>2. \A r \in shown : \E i \in valid : rows[i].site = r.site /\ rows[i].rank = r.rank
    BY <1>7, <1>8, <1>10
  <2>3. \A s \in sites : \E i \in valid : rows[i].site = s /\ rows[i].rank = AllTasks
    BY <1>11 DEF SiteRow
  <2>4. QED
    BY <2>1, <2>2, <2>3
<1>13. \A i, j \in valid : i < j =>
         \/ rows[i].site < rows[j].site
         \/ /\ rows[i].site = rows[j].site /\ rows[i].rank # AllTasks
            /\ rows[j].rank = AllTasks \/ rows[i].rank < rows[j].rank
  BY <1>1 DEF RowsAre, RowBefore
<1>14. ASSUME NEW i \in valid PROVE ExactRow(rows[i], sec)
  <2>1. CASE \E r \in shown : rows[i] = RankRow(r, sec)
    <3>1. PICK r \in shown : rows[i] = RankRow(r, sec)
      BY <2>1
    <3>2. PICK s \in sites : r \in Part(s, sec)
      BY <1>3
    <3>3. r \in Records /\ r \in Part(r.site, sec)
      BY <1>4, <3>2
    <3>4. QED
      BY <3>1, <3>3, ExactTaskRow
  <2>2. CASE \E s \in sites : SiteRow(rows[i], S, s, sec)
    <3>1. PICK s \in sites : SiteRow(rows[i], S, s, sec)
      BY <2>2
    <3>2. s \in C /\ Part(s, sec) # {} /\ rows[i] \in RowType
      <4>1. rows \in Seq(RowType) /\ i \in DOMAIN rows
        BY <1>1 DEF RowsAre
      <4>2. QED
        BY <1>2, <3>1, <4>1
    <3>3. QED
      BY <3>1, <3>2, ExactSiteRow
  <2>3. QED
    BY <1>9, <2>1, <2>2
<1>15. QED
  BY <1>1, <1>2, <1>3, <1>12, <1>13, <1>14 DEF ExactRows, Live

-----------------------------------------------------------------------------
(* Verbose reports: of the collector alone, and call site by call site. *)

\* A section in which nothing has to be shown.
LEMMA NoRows ==
  ASSUME NEW sec, NEW C, \A s \in C : Part(s, sec) = {}
  PROVE  ExactRows(<<>>, sec, C)
<1>1. {s \in C : Part(s, sec) # {}} = {} /\ DOMAIN <<>> = {}
  OBVIOUS
<1>2. QED
  BY <1>1 DEF ExactRows

\* A call site more in which nothing has to be shown.
LEMMA NothingMore ==
  ASSUME NEW sec, NEW C, NEW s, Part(s, sec) = {}, NEW rows, ExactRows(rows, sec, C)
  PROVE  ExactRows(rows, sec, C \cup {s})
<1>1. {c \in C \cup {s} : Part(c, sec) # {}} = {c \in C : Part(c, sec) # {}}
  OBVIOUS
<1>2. QED
  BY <1>1 DEF ExactRows

\* What ExactRows says in terms of the rows that count, the call sites and the records shown.
IsExact(rows, sec, valid, sites, shown) ==
  /\ {<<rows[i].site, rows[i].rank>> : i \in valid}
       = {<<r.site, r.rank>> : r \in shown} \cup (sites \X {AllTasks})
  /\ \A i, j \in valid : i < j => RowBefore(rows[i], rows[j])
  /\ \A i \in valid : ExactRow(rows[i], sec)

SitesShown(C, sec) == {s \in C : Part(s, sec) # {}}
Shown(C, sec) == {r \in UNION {Part(s, sec) : s \in SitesShown(C, sec)} :
                    sec = "time" => Reaches(r, TaskTime, opt.threshold)}
Valid(rows, sec) == {i \in DOMAIN rows : Live(rows[i], sec)}

\* ExactRows, with names for the sets it speaks of.
LEMMA ExactIs ==
  ASSUME NEW rows, NEW sec, NEW C
  PROVE  ExactRows(rows, sec, C) <=> IsExact(rows, sec, Valid(rows, sec), SitesShown(C, sec), Shown(C, sec))
BY DEF ExactRows, IsExact, SitesShown, Shown, Valid, Live, RowBefore

\* Rows of call sites behind those of others.
LEMMA ExactTogether ==
  ASSUME NEW sec, NEW A, NEW B, \A s \in A, q \in B : s < q,
         NEW a \in Seq(RowType), NEW b \in Seq(RowType), ExactRows(a, sec, A), ExactRows(b, sec, B)
  PROVE  ExactRows(a \o b, sec, A \cup B)
<1>1. PICK m \in Nat, n \in Nat : m = Len(a) /\ n = Len(b)
  OBVIOUS
<1>2. PICK c : c = a \o b
  OBVIOUS
<1>3. /\ c \in Seq(RowType) /\ DOMAIN a = 1 .. m /\ DOMAIN b = 1 .. n /\ DOMAIN c = 1 .. m + n
      /\ \A i \in 1 .. m : c[i] = a[i]
      /\ \A i \in 1 .. n : c[m + i] = b[i]
  BY <1>1, <1>2
<1>4. \A i \in 1 .. m + n : i \in 1 .. m \/ \E j \in 1 .. n : i = m + j
  <2>1. SUFFICES ASSUME NEW i \in 1 .. m + n, i \notin 1 .. m PROVE \E j \in 1 .. n : i = m + j
    OBVIOUS
  <2>2. i - m \in 1 .. n /\ i = m + (i - m)
    BY <2>1
  <2>3. QED
    BY <2>2
<1>5. (\A i \in 1 .. m : i \in 1 .. m + n) /\ (\A i \in 1 .. n : m + i \in 1 .. m + n)
  OBVIOUS
<1>6. PICK U, V, W : U = Valid(a, sec) /\ V = Valid(b, sec) /\ W = Valid(c, sec)
  OBVIOUS
<1>7. /\ \A i \in U : i \in 1 .. m /\ i \in W /\ c[i] = a[i]
      /\ \A i \in V : i \in 1 .. n /\ m + i \in W /\ c[m + i] = b[i]
      /\ \A i \in W : i \in U \/ \E j \in V : i = m + j
  BY <1>3, <1>4, <1>5, <1>6 DEF Valid
<1>8. PICK F, G : F = SitesShown(A, sec) /\ G = SitesShown(B, sec)
  OBVIOUS
<1>9. SitesShown(A \cup B, sec) = F \cup G /\ F \subseteq A /\ G \subseteq B
  BY <1>8 DEF SitesShown
<1>10. Shown(A \cup B, sec) = Shown(A, sec) \cup Shown(B, sec)
  BY <1>8, <1>9 DEF Shown
<1>11. PICK X, Y : X = Shown(A, sec) /\ Y = Shown(B, sec)
  OBVIOUS
<1>12. IsExact(a, sec, U, F, X) /\ IsExact(b, sec, V, G, Y)
  BY <1>6, <1>8, <1>11, ExactIs
<1>13. PICK K : K = {<<c[i].site, c[i].rank>> : i \in W}
  OBVIOUS
<1>14. K = {<<a[i].site, a[i].rank>> : i \in U} \cup {<<b[i].site, b[i].rank>> : i \in V}
  <2>1. ASSUME NEW k \in K
        PROVE  \/ \E i \in U : k = <<a[i].site, a[i].rank>>
               \/ \E i \in V : k = <<b[i].site, b[i].rank>>
    <3>1. PICK i \in W : k = <<c[i].site, c[i].rank>>
      BY <1>13, <2>1
    <3>2. QED
      BY <1>7, <3>1
  <2>2. /\ \A i \in U : <<a[i].site, a[i].rank>> \in K
        /\ \A i \in V : <<b[i].site, b[i].rank>> \in K
    BY <1>7, <1>13
  <2>3. QED
    BY <2>1, <2>2
<1>15. K = ({<<r.site, r.rank>> : r \in X} \cup (F \X {AllTasks}))
             \cup ({<<r.site, r.rank>> : r \in Y} \cup (G \X {AllTasks}))
  BY <1>12, <1>14 DEF IsExact
<1>16. K = {<<r.site, r.rank>> : r \in X \cup Y} \cup ((F \cup G) \X {AllTasks})
  BY <1>15
<1>17. (\A r \in X : r.site \in A) /\ (\A r \in Y : r.site \in B)
  BY <1>11 DEF Shown, SitesShown, Part, OfSite
<1>18. (\A i \in U : a[i].site \in A) /\ (\A i \in V : b[i].site \in B)
  <2>1. ASSUME NEW i \in U PROVE a[i].site \in A
    <3>1. <<a[i].site, a[i].rank>> \in {<<r.site, r.rank>> : r \in X} \cup (F \X {AllTasks})
      BY <1>12 DEF IsExact
    <3>2. QED
      BY <1>9, <1>17, <3>1
  <2>2. ASSUME NEW i \in V PROVE b[i].site \in B
    <3>1. <<b[i].site, b[i].rank>> \in {<<r.site, r.rank>> : r \in Y} \cup (G \X {AllTasks})
      BY <1>12 DEF IsExact
    <3>2. QED
      BY <1>9, <1>17, <3>1
  <2>3. QED
    BY <2>1, <2>2
<1>19. ASSUME NEW i \in W, NEW j \in W, i < j PROVE RowBefore(c[i], c[j])
  <2>1. CASE i \in U /\ j \in U
    BY <1>7, <1>12, <1>19, <2>1 DEF IsExact
  <2>2. CASE i \in U /\ j \notin U
    <3>1. PICK k \in V : j = m + k
      BY <1>7, <2>2
    <3>2. c[i].site < c[j].site
      BY <1>7, <1>18, <2>2, <3>1
    <3>3. QED
      BY <3>2 DEF RowBefore
  <2>3. CASE i \notin U /\ j \in U
    <3>1. PICK k \in V : i = m + k
      BY <1>7, <2>3
    <3>2. j \in 1 .. m /\ k \in 1 .. n
      BY <1>7, <2>3, <3>1
    <3>3. QED
      BY <1>19, <3>1, <3>2
  <2>4. CASE i \notin U /\ j \notin U
    <3>1. PICK k \in V, l \in V : i = m + k /\ j = m + l
      BY <1>7, <2>4
    <3>2. k \in 1 .. n /\ l \in 1 .. n /\ c[i] = b[k] /\ c[j] = b[l]
      BY <1>7, <3>1
    <3>3. k < l
      BY <1>19, <3>1, <3>2
    <3>4. QED
      BY <1>12, <3>2, <3>3 DEF IsExact
  <2>5. QED
    BY <2>1, <2>2, <2>3, <2>4
<1>20. \A i \in W : ExactRow(c[i], sec)
  BY <1>7, <1>12 DEF IsExact
<1>21. IsExact(c, sec, W, F \cup G, X \cup Y)
  BY <1>13, <1>16, <1>19, <1>20 DEF IsExact
<1>22. QED
  BY <1>2, <1>6, <1>9, <1>10, <1>11, <1>21, ExactIs

\* The collector's own records stand for themselves.
LEMMA RecordsStand ==
  ASSUME Tables, NEW sec \in Sections
  PROVE  StandsFor(Records, AggSites, sec)
<1>1. RecordSet(Records) /\ \A r \in Records : r \in Record(Site, Rank)
  BY DEF Tables, RecordSet
<1>2. AggSites \subseteq Site
  BY <1>1, RecordFields DEF AggSites, Sections
<1>3. \A s \in AggSites : {r \in Group(Records, s, sec) : Live(r, sec)} = Part(s, sec)
  BY PartIs DEF Group, OfSite
<1>4. ASSUME NEW r \in Records, ~Live(r, sec), Counts(r, sec)
      PROVE  r.cum[sec] = 0 /\ r.max[sec] = 0 /\ r.min[sec] = DBL_MAX
  <2>1. r.count \in Nat
    BY <1>1, RecordFields
  <2>2. sec = "time" /\ r.count = 0
    BY <1>4, <2>1 DEF Live
  <2>3. QED
    BY <2>2 DEF Tables
<1>5. QED
  BY <1>1, <1>2, <1>3, <1>4 DEF StandsFor

\* The rows of a walk behind which the last group is closed.
LEMMA AllRowsAre ==
  ASSUME NEW S, RecordSet(S), S # {}, NEW sec \in Sections, NEW shown
  PROVE  RowsAre(AllRows(S, sec, shown), S, sec, S \cap shown, SitesOf(S))
<1>1. PICK end : end = Walk(S, sec, shown)
  OBVIOUS
<1>2. Walked(end, S, S, sec, shown)
  BY <1>1, WalkHolds
<1>3. /\ Fills(S, end.prev, sec) => RowsAre(CloseGroup(end).rows, S, sec, S \cap shown, SitesOf(S))
      /\ ~Weighs(S, end.prev, sec) => RowsAre(end.rows, S, sec, S \cap shown, SitesOf(S))
  BY <1>2, CloseHolds
<1>4. AllRows(S, sec, shown) = IF Closes(end.sum, sec) THEN CloseGroup(end).rows ELSE end.rows
  BY <1>1 DEF AllRows
<1>5. end.sum \in SummaryType /\ Sums(end.sum, Group(S, end.prev, sec), sec)
  BY <1>2 DEF Walked, Walking
<1>6. IF Closes(end.sum, sec) THEN Fills(S, end.prev, sec) ELSE ~Weighs(S, end.prev, sec)
  BY <1>5, SomethingToClose, NothingToClose
<1>7. QED
  BY <1>3, <1>4, <1>6

\* The collector prints a verbose section from the records of all tasks.
LEMMA AllRowsExact ==
  ASSUME Tables, NEW sec \in Sections, NEW shown,
         shown = {r \in Records : Counts(r, sec) /\ (sec = "time" => Reaches(r, TaskTime, opt.threshold))}
  PROVE  /\ ExactRows(AllRows(Records, sec, shown), sec, AggSites)
         /\ AllRows(Records, sec, shown) \in Seq(RowType)
<1>1. PICK rows : rows = AllRows(Records, sec, shown)
  OBVIOUS
<1>2. RecordSet(Records) /\ Records # {}
  BY DEF Tables
<1>3. Records \cap shown = shown /\ SitesOf(Records) = AggSites
  BY DEF SitesOf, AggSites
<1>4. RowsAre(rows, Records, sec, shown, AggSites)
  BY <1>1, <1>2, <1>3, AllRowsAre
<1>5. StandsFor(Records, AggSites, sec)
  BY RecordsStand
<1>6. \A r \in Records : r.site \in AggSites
  BY DEF AggSites
<1>7. ExactRows(rows, sec, AggSites)
  <2>1. shown \subseteq Records
    OBVIOUS
  <2>2. \A r \in Records : Live(r, sec) =>
          (r \in shown <=> /\ r.site \in AggSites /\ Counts(r, sec)
                           /\ sec = "time" => Reaches(r, TaskTime, opt.threshold))
    BY <1>6
  <2>3. QED
    BY <1>4, <1>5, <2>1, <2>2, ExactFromRows
<1>8. QED
  BY <1>1, <1>4, <1>7 DEF RowsAre

\* A section of bytes too, if the total that decides whether it is printed is not 0 where
\* bytes were moved.
LEMMA AllBytesExact ==
  ASSUME Tables, NEW sec \in Sections \ {"time"}, NEW total,
         total = 0 => \A r \in Records : r.cum[sec] = 0
  PROVE  /\ ExactRows(AllBytes(Records, sec, total), sec, AggSites)
         /\ AllBytes(Records, sec, total) \in Seq(RowType)
<1>1. CASE total = 0
  <2>1. \A s \in AggSites : Part(s, sec) = {}
    BY <1>1 DEF Part, OfSite
  <2>2. AllBytes(Records, sec, total) = <<>> /\ <<>> \in Seq(RowType)
    BY <1>1 DEF AllBytes
  <2>3. QED
    BY <2>1, <2>2, NoRows
<1>2. CASE total # 0
  <2>1. PICK shown : shown = {r \in Records : Counts(r, sec)}
    OBVIOUS
  <2>2. AllBytes(Records, sec, total) = AllRows(Records, sec, shown)
    BY <1>2, <2>1 DEF AllBytes
  <2>3. shown = {r \in Records : Counts(r, sec) /\ (sec = "time" => Reaches(r, TaskTime, opt.threshold))}
    BY <2>1
  <2>4. QED
    BY <2>2, <2>3, AllRowsExact
<1>3. QED
  BY <1>1, <1>2

\* Where a total of bytes is 0 no bytes were moved.
LEMMA NoBytes ==
  ASSUME Tables, NEW sec \in Sections, TotalOf(Records, sec) = 0
  PROVE  \A r \in Records : r.cum[sec] = 0
<1>1. SUFFICES ASSUME NEW r \in Records PROVE r.cum[sec] = 0
  OBVIOUS
<1>2. RecordSet(Records) /\ r \in Record(Site, Rank)
  BY DEF Tables, RecordSet
<1>3. r.cum[sec] <= TotalOf(Records, sec) /\ r.cum[sec] \in Nat
  BY <1>2, TotalAbove, RecordFields
<1>4. QED
  BY <1>3

\* What the totals that are not cleared have when the records of a report have been added.
Reached(total) ==
  /\ total \in Uncleared
  /\ \A sec \in {"sent", "io", "rma"} : total[sec] = 0 => \A r \in Records : r.cum[sec] = 0

\* The records of a report are added to the totals.
LEMMA TotalsReach ==
  ASSUME Tables, totals \in Uncleared
  PROVE  Reached(NewTotals)
<1>1. PICK T : T = {r \in Records : r.cum["sent"] > 0}
  OBVIOUS
<1>2. RecordSet(Records) /\ RecordSet(T)
  BY <1>1, RecordSubset DEF Tables
<1>3. \A r \in Records : r.count \in Nat /\ r.cum["sent"] \in Nat
  BY <1>2, RecordFields DEF RecordSet, Sections
<1>4. PICK c, i, m : c = CallsOf(T) /\ i = TotalOf(Records, "io") /\ m = TotalOf(Records, "rma")
  OBVIOUS
<1>5. c \in Nat /\ i \in Nat /\ m \in Nat
  BY <1>2, <1>4, TotalType DEF Sections
<1>6. totals.sent \in Nat /\ totals.io \in Nat /\ totals.rma \in Nat
  BY DEF Uncleared
<1>7. NewTotals = [sent |-> totals.sent + c, io |-> totals.io + i, rma |-> totals.rma + m]
  BY <1>1, <1>4 DEF NewTotals
<1>8. ASSUME totals.sent + c = 0, NEW r \in Records PROVE r.cum["sent"] = 0
  <2>1. c = 0
    BY <1>5, <1>6, <1>8
  <2>2. r \in T => r.count <= c
    BY <1>2, <1>4, TotalAbove DEF Sections
  <2>3. r \in T => r.count = 0
    BY <1>3, <2>1, <2>2
  <2>4. r \notin T
    BY <1>1, <2>3 DEF Tables
  <2>5. QED
    BY <1>1, <1>3, <2>4
<1>9. /\ totals.io + i = 0 => \A r \in Records : r.cum["io"] = 0
      /\ totals.rma + m = 0 => \A r \in Records : r.cum["rma"] = 0
  <2>1. (totals.io + i = 0 => i = 0) /\ (totals.rma + m = 0 => m = 0)
    BY <1>5, <1>6
  <2>2. "io" \in Sections /\ "rma" \in Sections
    BY DEF Sections
  <2>3. QED
    BY <1>4, <2>1, <2>2, NoBytes
<1>10. QED
  BY <1>5, <1>6, <1>7, <1>8, <1>9 DEF Uncleared, Reached

\* So without -l all sections of a verbose report are exact.
LEMMA AloneVerbose ==
  ASSUME Tables, NEW sec \in Sections, NEW total, Reached(total), NEW L
  PROVE  /\ ExactRows(PrintedAlone("verbose", total, L)[sec], sec, AggSites)
         /\ PrintedAlone("verbose", total, L)[sec] \in Seq(RowType)
<1>1. CASE sec = "time"
  <2>1. PICK shown : shown = {r \in Records : Reaches(r, TaskTime, opt.threshold)}
    OBVIOUS
  <2>2. PrintedAlone("verbose", total, L)[sec] = AllRows(Records, sec, shown)
    BY <1>1, <2>1 DEF PrintedAlone, SectionAlone, mpiPi_print_all_callsite_time_info
  <2>3. shown = {r \in Records : Counts(r, sec) /\ (sec = "time" => Reaches(r, TaskTime, opt.threshold))}
    BY <1>1, <2>1 DEF Counts
  <2>4. QED
    BY <2>2, <2>3, AllRowsExact
<1>2. CASE sec # "time"
  <2>1. PICK sum : sum = IF sec = "sent" THEN TotalOf(Records, "sent") ELSE total[sec]
    OBVIOUS
  <2>2. PrintedAlone("verbose", total, L)[sec] = AllBytes(Records, sec, sum)
    BY <1>2, <2>1 DEF PrintedAlone, SectionAlone, mpiPi_print_all_callsite_sent_info,
                      mpiPi_print_all_callsite_io_info, mpiPi_print_all_callsite_rma_info, Sections
  <2>3. sum = 0 => \A r \in Records : r.cum[sec] = 0
    BY <1>2, <2>1, NoBytes DEF Reached, Sections
  <2>4. QED
    BY <1>2, <2>2, <2>3, AllBytesExact
<1>3. QED
  BY <1>1, <1>2

-----------------------------------------------------------------------------
(* The records a task finds for the call site that was broadcast. *)

\* Cleared records.
LEMMA ClearedFields ==
  ASSUME NEW s \in Site, NEW t \in Rank
  PROVE  /\ Cleared(s, t) \in Record(Site, Rank)
         /\ Cleared(s, t).site = s /\ Cleared(s, t).rank = t /\ Cleared(s, t).count = 0
         /\ \A sec \in Sections :
              /\ Cleared(s, t).cum[sec] = 0 /\ Cleared(s, t).max[sec] = 0
              /\ Cleared(s, t).min[sec] = IF style = "verbose" THEN 0 ELSE DBL_MAX
<1>1. PICK c, m, x : c = [sec \in Sections |-> 0] /\ m = [sec \in Sections |-> 0]
                     /\ x = [sec \in Sections |-> IF style = "verbose" THEN 0 ELSE DBL_MAX]
  OBVIOUS
<1>2. Cleared(s, t) = [site |-> s, rank |-> t, count |-> 0, cum |-> c, max |-> m, min |-> x]
  BY <1>1 DEF Cleared
<1>3. c \in [Sections -> Nat] /\ m \in [Sections -> Nat] /\ x \in [Sections -> Nat]
  BY <1>1, DBL_MAXAssumption
<1>4. Cleared(s, t) \in Record(Site, Rank)
  BY <1>2, <1>3 DEF Record
<1>5. QED
  BY <1>1, <1>2, <1>4

\* A task finds its record of the site if it has one.
LEMMA LookupFinds ==
  ASSUME Tables, NEW s \in Site, NEW t \in Rank
  PROVE  /\ \A r \in OfSite(s) : r.rank = t => Lookup(s, t) = r
         /\ (\A r \in OfSite(s) : r.rank # t) => Lookup(s, t) = Cleared(s, t)
         /\ Lookup(s, t) \in Record(Site, Rank)
         /\ Lookup(s, t).site = s /\ Lookup(s, t).rank = t
<1>1. \A r \in OfSite(s) : r.rank = t => r \in table[t] /\ r.site = s
  <2>1. SUFFICES ASSUME NEW r \in OfSite(s), r.rank = t PROVE r \in table[t] /\ r.site = s
    OBVIOUS
  <2>2. r \in Records /\ r.site = s
    BY DEF OfSite
  <2>3. PICK u \in Rank : r \in table[u]
    BY <2>2 DEF Records
  <2>4. QED
    BY <2>1, <2>2, <2>3 DEF Tables
<1>2. \A r \in table[t] : r.site = s => r \in OfSite(s) /\ r.rank = t
  BY DEF OfSite, Records, Tables
<1>3. \A r, q \in OfSite(s) : r.rank = q.rank => r = q
  BY DEF OfSite, Tables, RecordSet
<1>4. CASE \E r \in table[t] : r.site = s
  <2>1. Lookup(s, t) = CHOOSE r \in table[t] : r.site = s
    BY <1>4 DEF Lookup
  <2>2. Lookup(s, t) \in table[t] /\ Lookup(s, t).site = s
    BY <1>4, <2>1
  <2>3. Lookup(s, t) \in OfSite(s) /\ Lookup(s, t).rank = t
    BY <1>2, <2>2
  <2>4. Lookup(s, t) \in Record(Site, Rank)
    BY <2>3 DEF OfSite, Tables, RecordSet
  <2>5. QED
    BY <1>3, <2>2, <2>3, <2>4
<1>5. CASE ~ \E r \in table[t] : r.site = s
  <2>1. Lookup(s, t) = Cleared(s, t)
    BY <1>5 DEF Lookup, NoRecord
  <2>2. \A r \in OfSite(s) : r.rank # t
    BY <1>1, <1>5
  <2>3. QED
    BY <2>1, <2>2, ClearedFields
<1>6. QED
  BY <1>4, <1>5

\* Fewer records than tasks, if a task has none.
LEMMA Lacking ==
  ASSUME Tables, NEW s \in Site, NEW t \in Rank, \A r \in OfSite(s) : r.rank # t
  PROVE  Cardinality(OfSite(s)) < Cardinality(Rank)
<1>1. PICK T : T = Rank \ {t}
  OBVIOUS
<1>2. IsFiniteSet(Rank) /\ IsFiniteSet(T) /\ Cardinality(T) = Cardinality(Rank) - 1
      /\ Cardinality(Rank) \in Nat
  BY <1>1, PrintingAssumption, FS_RemoveElement, FS_CardinalityType
<1>3. PICK f : f = [r \in OfSite(s) |-> r.rank]
  OBVIOUS
<1>4. \A r \in OfSite(s) : r.rank \in T
  <2>1. SUFFICES ASSUME NEW r \in OfSite(s) PROVE r.rank \in T
    OBVIOUS
  <2>2. r \in Record(Site, Rank)
    BY DEF OfSite, Tables, RecordSet
  <2>3. r.rank \in Rank
    BY <2>2 DEF Record
  <2>4. QED
    BY <1>1, <2>3
<1>5. \A r, q \in OfSite(s) : r.rank = q.rank => r = q
  BY DEF OfSite, Tables, RecordSet
<1>6. f \in Injection(OfSite(s), T)
  BY <1>3, <1>4, <1>5 DEF Injection, IsInjective
<1>7. Cardinality(OfSite(s)) <= Cardinality(T) /\ IsFiniteSet(OfSite(s))
  BY <1>2, <1>6, FS_Injection
<1>8. Cardinality(OfSite(s)) \in Nat
  BY <1>7, FS_CardinalityType
<1>9. QED
  BY <1>2, <1>7, <1>8

-----------------------------------------------------------------------------
(* The rows of a call site whose records have been gathered. *)

\* The gathered records stand for those of the collector.
LEMMA GatheredStand ==
  ASSUME Tables, NEW s \in Site, style = "verbose", opt.collective, NEW sec \in Sections,
         NEW data, data = {Lookup(s, t) : t \in Rank}
  PROVE  /\ StandsFor(data, {s}, sec) /\ data # {}
         /\ \A r \in data : r.site = s
<1>1. \A t \in Rank : /\ \A r \in OfSite(s) : r.rank = t => Lookup(s, t) = r
                      /\ (\A r \in OfSite(s) : r.rank # t) => Lookup(s, t) = Cleared(s, t)
                      /\ Lookup(s, t) \in Record(Site, Rank)
                      /\ Lookup(s, t).site = s /\ Lookup(s, t).rank = t
  BY LookupFinds
<1>2. data # {} /\ \A r \in data : r.site = s
  BY <1>1, PrintingAssumption
<1>3. OfSite(s) \subseteq data
  <2>1. SUFFICES ASSUME NEW r \in OfSite(s) PROVE r \in data
    OBVIOUS
  <2>2. r \in Record(Site, Rank)
    BY DEF OfSite, Tables, RecordSet
  <2>3. r.rank \in Rank
    BY <2>2 DEF Record
  <2>4. QED
    BY <1>1, <2>3
<1>4. \A r \in data : r \notin OfSite(s) =>
        /\ r.count = 0 /\ \A y \in Sections : r.cum[y] = 0 /\ r.max[y] = 0 /\ r.min[y] = 0
        /\ Cardinality(OfSite(s)) < Cardinality(Rank)
  <2>1. SUFFICES ASSUME NEW t \in Rank, Lookup(s, t) \notin OfSite(s)
                 PROVE  /\ Lookup(s, t).count = 0
                        /\ \A y \in Sections : /\ Lookup(s, t).cum[y] = 0 /\ Lookup(s, t).max[y] = 0
                                               /\ Lookup(s, t).min[y] = 0
                        /\ Cardinality(OfSite(s)) < Cardinality(Rank)
    OBVIOUS
  <2>2. \A r \in OfSite(s) : r.rank # t
    BY <1>1, <2>1
  <2>3. Lookup(s, t) = Cleared(s, t)
    BY <1>1, <2>2
  <2>4. QED
    BY <2>2, <2>3, ClearedFields, Lacking
<1>5. RecordSet(data)
  <2>1. IsFiniteSet(data)
    <3>1. PICK f : f = [t \in Rank |-> Lookup(s, t)]
      OBVIOUS
    <3>2. f \in Surjection(Rank, data)
      BY <3>1 DEF Surjection
    <3>3. QED
      BY <3>2, FS_Surjection, PrintingAssumption
  <2>2. data \subseteq Record(Site, Rank)
    BY <1>1
  <2>3. \A r, q \in data : r.site = q.site /\ r.rank = q.rank => r = q
    BY <1>1
  <2>4. ASSUME NEW r \in data, NEW y \in Sections
        PROVE  r.cum[y] < DBL_MAX /\ r.max[y] <= DBL_MAX /\ r.min[y] <= DBL_MAX
    <3>1. CASE r \in OfSite(s)
      BY <3>1 DEF OfSite, Tables, RecordSet
    <3>2. CASE r \notin OfSite(s)
      <4>1. r.cum[y] = 0 /\ r.max[y] = 0 /\ r.min[y] = 0
        BY <1>4, <3>2
      <4>2. QED
        BY <4>1, DBL_MAXAssumption
    <3>3. QED
      BY <3>1, <3>2
  <2>5. QED
    BY <2>1, <2>2, <2>3, <2>4 DEF RecordSet
<1>6. {r \in Group(data, s, sec) : Live(r, sec)} = Part(s, sec)
  <2>1. ASSUME NEW r \in Group(data, s, sec), Live(r, sec) PROVE r \in Part(s, sec)
    <3>1. r \in data /\ Counts(r, sec)
      BY DEF Group
    <3>2. r \in OfSite(s)
      BY <1>4, <2>1, <3>1 DEF Live, Counts
    <3>3. QED
      BY <2>1, <3>1, <3>2, PartIs
  <2>2. ASSUME NEW r \in Part(s, sec) PROVE r \in Group(data, s, sec) /\ Live(r, sec)
    <3>1. r \in OfSite(s) /\ Live(r, sec) /\ Counts(r, sec)
      BY PartIs
    <3>2. QED
      BY <1>2, <1>3, <3>1 DEF Group
  <2>3. QED
    BY <2>1, <2>2
<1>7. ASSUME NEW r \in data, ~Live(r, sec), Counts(r, sec)
      PROVE  /\ r.cum[sec] = 0 /\ r.max[sec] = 0
             /\ \/ r.min[sec] = DBL_MAX
                \/ /\ r.min[sec] = 0 /\ opt.collective /\ sec = "time"
                   /\ Cardinality(OfSite(r.site)) < Cardinality(Rank)
  <2>1. CASE r \in OfSite(s)
    <3>1. r \in Records /\ r.count \in Nat
      BY <1>5, <1>7, <2>1, RecordFields DEF OfSite, RecordSet
    <3>2. sec = "time" /\ r.count = 0
      BY <1>7, <3>1 DEF Live
    <3>3. QED
      BY <3>1, <3>2 DEF Tables
  <2>2. CASE r \notin OfSite(s)
    <3>1. /\ r.cum[sec] = 0 /\ r.max[sec] = 0 /\ r.min[sec] = 0
          /\ Cardinality(OfSite(s)) < Cardinality(Rank)
      BY <1>4, <2>2
    <3>2. sec = "time"
      BY <1>7 DEF Live
    <3>3. QED
      BY <1>2, <3>1, <3>2
  <2>3. QED
    BY <2>1, <2>2
<1>8. StandsFor(data, {s}, sec)
  <2>1. \A q \in {s} : {r \in Group(data, q, sec) : Live(r, sec)} = Part(q, sec)
    BY <1>6
  <2>2. {s} \subseteq Site
    OBVIOUS
  <2>3. QED
    BY <1>5, <1>7, <2>1, <2>2 DEF StandsFor
<1>9. QED
  BY <1>2, <1>8

\* They are exact.
LEMMA GatheredExact ==
  ASSUME Tables, NEW x, x.site \in Site, style = "verbose", opt.collective,
         NEW sec \in Sections, sec = Order[x.sec]
  PROVE  ExactRows(GatheredRows(x), sec, {x.site}) /\ GatheredRows(x) \in Seq(RowType)
<1>1. PICK s \in Site : s = x.site
  OBVIOUS
<1>2. PICK data : data = {Lookup(s, t) : t \in Rank}
  OBVIOUS
<1>3. PICK shown : shown = {r \in data : IF sec = "time" THEN r.count > 0 /\ Reaches(r, TaskTime, opt.threshold)
                                         ELSE Counts(r, sec)}
  OBVIOUS
<1>4. PICK end : end = Walk(data, sec, shown)
  OBVIOUS
<1>5. PICK rows : rows = GatheredRows(x)
  OBVIOUS
<1>6. rows = IF (IF sec = "time" THEN end.sum.count ELSE end.sum.cum) > 0
             THEN CloseGroup(end).rows ELSE end.rows
  BY <1>1, <1>2, <1>3, <1>4, <1>5 DEF GatheredRows
<1>7. StandsFor(data, {s}, sec) /\ data # {} /\ \A r \in data : r.site = s
  BY <1>2, GatheredStand
<1>8. RecordSet(data)
  BY <1>7 DEF StandsFor
<1>9. Walked(end, data, data, sec, shown)
  BY <1>4, <1>8, WalkHolds
<1>10. /\ Fills(data, end.prev, sec) => RowsAre(CloseGroup(end).rows, data, sec, data \cap shown, SitesOf(data))
       /\ ~Weighs(data, end.prev, sec) => RowsAre(end.rows, data, sec, data \cap shown, SitesOf(data))
  BY <1>7, <1>8, <1>9, CloseHolds
<1>11. SitesOf(data) = {s} /\ data \cap shown = shown
  BY <1>3, <1>7 DEF SitesOf
<1>12. end.sum \in SummaryType /\ Sums(end.sum, Group(data, end.prev, sec), sec)
  BY <1>9 DEF Walked, Walking
<1>13. RowsAre(rows, data, sec, shown, {s})
  <2>1. CASE sec = "time"
    <3>1. Fills(data, end.prev, sec) /\ (end.sum.count > 0 <=> Weighs(data, end.prev, sec))
      BY <1>12, <2>1 DEF Fills, Weighs, Sums
    <3>2. QED
      BY <1>6, <1>10, <1>11, <2>1, <3>1
  <2>2. CASE sec # "time"
    <3>1. Closes(end.sum, sec) <=> end.sum.cum > 0
      BY <2>2 DEF Closes
    <3>2. IF end.sum.cum > 0 THEN Fills(data, end.prev, sec) ELSE ~Weighs(data, end.prev, sec)
      BY <1>8, <1>12, <3>1, SomethingToClose, NothingToClose
    <3>3. QED
      BY <1>6, <1>10, <1>11, <2>2, <3>2
  <2>3. QED
    BY <2>1, <2>2
<1>14. \A r \in data : Live(r, sec) =>
         (r \in shown <=> /\ r.site \in {s} /\ Counts(r, sec)
                          /\ sec = "time" => Reaches(r, TaskTime, opt.threshold))
  BY <1>3, <1>7 DEF Counts, Live
<1>15. ExactRows(rows, sec, {s})
  <2>1. shown \subseteq data
    BY <1>3
  <2>2. QED
    BY <1>7, <1>13, <1>14, <2>1, ExactFromRows
<1>16. QED
  BY <1>1, <1>5, <1>13, <1>15 DEF RowsAre

-----------------------------------------------------------------------------
(* The rows of a concise section. *)

ConciseSummary == [count : Nat, cum : Nat, max : Nat, min : Nat,
                   maxRank : Rank \cup {NoRank}, minRank : Rank \cup {NoRank}]

\* The first of the tasks of G that contributed v.
FirstWith(t, v, G, sec) ==
  \E r \in G : r.rank = t /\ r.cum[sec] = v /\ \A q \in G : q.cum[sec] = v => r.rank <= q.rank

\* A summary of the records of a call site.
Told(sum, G, sec) ==
  /\ sum.count = Cardinality(G)
  /\ sum.cum = TotalOf(G, sec)
  /\ G = {} => sum.max = 0 /\ sum.min = DBL_MAX
  /\ G # {} => /\ \E r \in G : sum.max = r.cum[sec]
               /\ \A r \in G : r.cum[sec] <= sum.max /\ sum.min <= r.cum[sec]
               /\ FirstWith(sum.minRank, sum.min, G, sec)
  /\ sum.max > 0 => FirstWith(sum.maxRank, sum.max, G, sec)

\* A summary with one record more, of a later task.
LEMMA CountedTold ==
  ASSUME NEW S, RecordSet(S), NEW r \in S, NEW G, G \subseteq S, NEW sec \in Sections,
         \A q \in G : q.rank < r.rank, NEW sum \in ConciseSummary, Told(sum, G, sec)
  PROVE  Counted(sum, r, sec) \in ConciseSummary /\ Told(Counted(sum, r, sec), G \cup {r}, sec)
<1>1. PICK new : new = Counted(sum, r, sec)
  OBVIOUS
<1>2. PICK v : v = r.cum[sec]
  OBVIOUS
<1>3. /\ new.count = sum.count + 1 /\ new.cum = sum.cum + v
      /\ new.max = IF sum.max > v THEN sum.max ELSE v
      /\ new.min = IF sum.min < v THEN sum.min ELSE v
      /\ new.maxRank = IF v > sum.max THEN r.rank ELSE sum.maxRank
      /\ new.minRank = IF v < sum.min THEN r.rank ELSE sum.minRank
      /\ new = [count |-> new.count, cum |-> new.cum, max |-> new.max, min |-> new.min,
                maxRank |-> new.maxRank, minRank |-> new.minRank]
  BY <1>1, <1>2 DEF Counted, Larger, Smaller
<1>4. /\ sum.count \in Nat /\ sum.cum \in Nat /\ sum.max \in Nat /\ sum.min \in Nat
      /\ sum.maxRank \in Rank \cup {NoRank} /\ sum.minRank \in Rank \cup {NoRank}
  BY DEF ConciseSummary
<1>5. /\ r \in Record(Site, Rank) /\ v \in Nat /\ v < DBL_MAX /\ r.rank \in Rank /\ r.rank \in Nat
      /\ \A q \in G : q.cum[sec] \in Nat /\ q.rank \in Nat
  BY <1>2, RecordFields DEF RecordSet
<1>6. new \in ConciseSummary
  BY <1>3, <1>4, <1>5 DEF ConciseSummary
<1>7. RecordSet(G) /\ IsFiniteSet(G) /\ r \notin G
  <2>1. RecordSet(G)
    BY RecordSubset
  <2>2. r \notin G
    BY <1>5
  <2>3. QED
    BY <2>1, <2>2 DEF RecordSet
<1>8. new.count = Cardinality(G \cup {r}) /\ new.cum = TotalOf(G \cup {r}, sec)
  <2>1. Cardinality(G \cup {r}) = Cardinality(G) + 1
    BY <1>7, FS_AddElement
  <2>2. TotalOf(G \cup {r}, sec) = TotalOf(G, sec) + v
    BY <1>2, <1>5, <1>7, TotalGrows
  <2>3. QED
    BY <1>3, <2>1, <2>2 DEF Told
<1>9. /\ \A q \in G \cup {r} : q.cum[sec] <= new.max /\ new.min <= q.cum[sec]
      /\ \E q \in G \cup {r} : new.max = q.cum[sec]
  <2>1. CASE G = {}
    <3>1. sum.max = 0 /\ sum.min = DBL_MAX
      BY <2>1 DEF Told
    <3>2. new.max = v /\ new.min = v
      BY <1>3, <1>5, <3>1, DBL_MAXAssumption
    <3>3. QED
      BY <1>2, <1>5, <2>1, <3>2
  <2>2. CASE G # {}
    <3>1. /\ \E q \in G : sum.max = q.cum[sec]
          /\ \A q \in G : q.cum[sec] <= sum.max /\ sum.min <= q.cum[sec]
      BY <2>2 DEF Told
    <3>2. QED
      BY <1>2, <1>3, <1>4, <1>5, <3>1
  <2>3. QED
    BY <2>1, <2>2
<1>10. FirstWith(new.minRank, new.min, G \cup {r}, sec)
  <2>1. CASE v < sum.min
    <3>1. new.min = v /\ new.minRank = r.rank
      BY <1>3, <1>4, <1>5, <2>1
    <3>2. \A q \in G : q.cum[sec] # v
      <4>1. \A q \in G : sum.min <= q.cum[sec]
        BY DEF Told
      <4>2. QED
        BY <1>4, <1>5, <2>1, <4>1
    <3>3. QED
      BY <1>2, <1>5, <3>1, <3>2 DEF FirstWith
  <2>2. CASE ~(v < sum.min)
    <3>1. G # {}
      BY <1>5, <2>2 DEF Told
    <3>2. new.min = sum.min /\ new.minRank = sum.minRank
      BY <1>3, <1>4, <1>5, <2>2
    <3>3. PICK q \in G : q.rank = sum.minRank /\ q.cum[sec] = sum.min
                         /\ \A p \in G : p.cum[sec] = sum.min => q.rank <= p.rank
      BY <3>1 DEF Told, FirstWith
    <3>4. q.rank <= r.rank
      BY <1>5
    <3>5. QED
      BY <3>2, <3>3, <3>4 DEF FirstWith
  <2>3. QED
    BY <2>1, <2>2
<1>11. new.max > 0 => FirstWith(new.maxRank, new.max, G \cup {r}, sec)
  <2>1. SUFFICES ASSUME new.max > 0 PROVE FirstWith(new.maxRank, new.max, G \cup {r}, sec)
    OBVIOUS
  <2>2. CASE v > sum.max
    <3>1. new.max = v /\ new.maxRank = r.rank
      BY <1>3, <1>4, <1>5, <2>2
    <3>2. \A q \in G : q.cum[sec] # v
      <4>1. \A q \in G : q.cum[sec] <= sum.max
        BY DEF Told
      <4>2. QED
        BY <1>4, <1>5, <2>2, <4>1
    <3>3. QED
      BY <1>2, <1>5, <3>1, <3>2 DEF FirstWith
  <2>3. CASE ~(v > sum.max)
    <3>1. new.max = sum.max /\ new.maxRank = sum.maxRank
      BY <1>3, <1>4, <1>5, <2>3
    <3>2. PICK q \in G : q.rank = sum.maxRank /\ q.cum[sec] = sum.max
                         /\ \A p \in G : p.cum[sec] = sum.max => q.rank <= p.rank
      BY <2>1, <3>1 DEF Told, FirstWith
    <3>3. q.rank <= r.rank
      BY <1>5
    <3>4. QED
      BY <3>1, <3>2, <3>3 DEF FirstWith
  <2>4. QED
    BY <2>2, <2>3
<1>12. Told(new, G \cup {r}, sec)
  BY <1>8, <1>9, <1>10, <1>11 DEF Told
<1>13. QED
  BY <1>1, <1>6, <1>12

\* The summary of no records, whatever ranks it has.
LEMMA NothingTold ==
  ASSUME NEW sec \in Sections, NEW sum \in ConciseSummary
  PROVE  /\ NoTasks \in ConciseSummary /\ Told(NoTasks, {}, sec)
         /\ Renewed(sum, sec) \in ConciseSummary /\ Told(Renewed(sum, sec), {}, sec)
<1>1. Cardinality({}) = 0 /\ TotalOf({}, sec) = 0
  <2>1. RecordSet({})
    BY FS_EmptySet DEF RecordSet
  <2>2. QED
    BY <2>1, FS_EmptySet, TotalType
<1>2. ASSUME NEW t \in Rank \cup {NoRank}, NEW u \in Rank \cup {NoRank},
             NEW new, new = [count |-> 0, cum |-> 0, max |-> 0, min |-> DBL_MAX, maxRank |-> t, minRank |-> u]
      PROVE  new \in ConciseSummary /\ Told(new, {}, sec)
  <2>1. /\ new.count = 0 /\ new.cum = 0 /\ new.max = 0 /\ new.min = DBL_MAX
    BY <1>2
  <2>2. Told(new, {}, sec)
    BY <1>1, <2>1 DEF Told
  <2>3. QED
    BY <1>2, <2>2, DBL_MAXAssumption DEF ConciseSummary
<1>3. NoTasks \in ConciseSummary /\ Told(NoTasks, {}, sec)
  BY <1>2 DEF NoTasks
<1>4. sum.maxRank \in Rank \cup {NoRank} /\ sum.minRank \in Rank \cup {NoRank}
  BY DEF ConciseSummary
<1>5. Renewed(sum, sec) = NoTasks \/
      Renewed(sum, sec) = [count |-> 0, cum |-> 0, max |-> 0, min |-> DBL_MAX,
                           maxRank |-> sum.maxRank, minRank |-> sum.minRank]
  BY DEF Renewed, NoTasks
<1>6. QED
  BY <1>2, <1>3, <1>4, <1>5

\* The records of a call site, and the sites of C that a section is about.
Those(S, s) == {r \in S : r.site = s}
Worth(S, C, sec) == {s \in C : sec = "time" \/ TotalOf(Those(S, s), sec) > 0}

\* The rows are those of the call sites C of S.
StatsAre(stats, S, sec, C) ==
  /\ stats \in Seq(ConciseType)
  /\ \A i \in DOMAIN stats : stats[i].site \in Worth(S, C, sec) /\ Told(stats[i], Those(S, stats[i].site), sec)
  /\ \A s \in Worth(S, C, sec) : \E i \in DOMAIN stats : stats[i].site = s
  /\ \A i, j \in DOMAIN stats : i < j => stats[i].site < stats[j].site

ConciseWalking == [stats : Seq(ConciseType), sum : ConciseSummary, prev : Site \cup {0}]
ConciseWalked(a, D, S, sec) ==
  /\ a \in ConciseWalking
  /\ a.prev # 0 <=> D # {}
  /\ D # {} => a.prev \in SitesOf(D)
  /\ \A q \in D : q.site <= a.prev
  /\ Told(a.sum, Those(D, a.prev), sec)
  /\ StatsAre(a.stats, S, sec, SitesOf(D) \ {a.prev})

\* A summary is stored, if it is worth that.
LEMMA StoreHolds ==
  ASSUME NEW S, RecordSet(S), NEW sec \in Sections, NEW D, D \subseteq S, D # {},
         NEW a, ConciseWalked(a, D, S, sec), Those(D, a.prev) = Those(S, a.prev)
  PROVE  StatsAre(Store(a, sec), S, sec, SitesOf(D))
<1>1. PICK s \in Site : s = a.prev
  BY DEF ConciseWalked, ConciseWalking
<1>2. PICK C : C = SitesOf(D) \ {s}
  OBVIOUS
<1>3. \A q \in S : q.site \in Site /\ q.site \in Nat
  BY RecordFields DEF RecordSet, Sections
<1>4. s \in SitesOf(D) /\ \A c \in C : c < s
  <2>1. s \in SitesOf(D)
    BY <1>1 DEF ConciseWalked
  <2>2. \A c \in C : c \in Nat /\ c <= s /\ c # s
    BY <1>1, <1>2, <1>3 DEF SitesOf, ConciseWalked
  <2>3. s \in Int
    BY DEF Site
  <2>4. QED
    BY <2>1, <2>2, <2>3
<1>5. SitesOf(D) = C \cup {s}
  BY <1>2, <1>4
<1>6. /\ StatsAre(a.stats, S, sec, C) /\ a.sum \in ConciseSummary /\ Told(a.sum, Those(S, s), sec)
  BY <1>1, <1>2 DEF ConciseWalked, ConciseWalking
<1>7. a.sum.cum = TotalOf(Those(S, s), sec)
  BY <1>6 DEF Told
<1>8. CASE WorthStoring(a.sum, sec)
  <2>1. Worth(S, C \cup {s}, sec) = Worth(S, C, sec) \cup {s}
    BY <1>7, <1>8 DEF Worth, WorthStoring
  <2>2. PICK x : x = ConciseRow(s, a.sum)
    OBVIOUS
  <2>3. /\ x = [site |-> s, count |-> a.sum.count, cum |-> a.sum.cum, max |-> a.sum.max, min |-> a.sum.min,
                maxRank |-> a.sum.maxRank, minRank |-> a.sum.minRank]
        /\ x.site = s /\ x.count = a.sum.count /\ x.cum = a.sum.cum /\ x.max = a.sum.max /\ x.min = a.sum.min
        /\ x.maxRank = a.sum.maxRank /\ x.minRank = a.sum.minRank
    BY <2>2 DEF ConciseRow
  <2>4. x \in ConciseType
    BY <1>6, <2>3 DEF ConciseType, ConciseSummary
  <2>5. Told(x, Those(S, s), sec)
    BY <1>6, <2>3 DEF Told
  <2>6. PICK n \in Nat : n = Len(a.stats)
    BY <1>6 DEF StatsAre
  <2>7. PICK stats : stats = Append(a.stats, x)
    OBVIOUS
  <2>8. /\ stats \in Seq(ConciseType) /\ DOMAIN a.stats = 1 .. n /\ DOMAIN stats = 1 .. n + 1
        /\ stats[n + 1] = x /\ \A i \in 1 .. n : stats[i] = a.stats[i]
    BY <1>6, <2>4, <2>6, <2>7 DEF StatsAre
  <2>9. 1 .. n + 1 = (1 .. n) \cup {n + 1}
    OBVIOUS
  <2>10. /\ \A i \in 1 .. n : /\ stats[i].site \in Worth(S, C, sec)
                              /\ Told(stats[i], Those(S, stats[i].site), sec)
         /\ \A c \in Worth(S, C, sec) : \E i \in 1 .. n : stats[i].site = c
         /\ \A i, j \in 1 .. n : i < j => stats[i].site < stats[j].site
    BY <1>6, <2>8 DEF StatsAre
  <2>11. /\ \A i \in 1 .. n + 1 : /\ stats[i].site \in Worth(S, C \cup {s}, sec)
                                  /\ Told(stats[i], Those(S, stats[i].site), sec)
         /\ \A c \in Worth(S, C \cup {s}, sec) : \E i \in 1 .. n + 1 : stats[i].site = c
    <3>1. stats[n + 1].site = s /\ Told(stats[n + 1], Those(S, stats[n + 1].site), sec)
      BY <2>3, <2>5, <2>8
    <3>2. PICK V, W : V = Worth(S, C, sec) /\ W = Worth(S, C \cup {s}, sec) /\ W = V \cup {s}
      BY <2>1
    <3>3. ASSUME NEW i \in 1 .. n + 1
          PROVE  stats[i].site \in W /\ Told(stats[i], Those(S, stats[i].site), sec)
      BY <2>9, <2>10, <3>1, <3>2
    <3>4. ASSUME NEW c \in W PROVE \E i \in 1 .. n + 1 : stats[i].site = c
      BY <2>9, <2>10, <3>1, <3>2
    <3>5. QED
      BY <3>2, <3>3, <3>4
  <2>12. ASSUME NEW i \in 1 .. n + 1, NEW j \in 1 .. n + 1, i < j PROVE stats[i].site < stats[j].site
    <3>1. i \in 1 .. n /\ (j \in 1 .. n \/ j = n + 1)
      BY <2>12
    <3>2. stats[i].site \in C
      BY <2>10, <3>1 DEF Worth
    <3>3. QED
      BY <1>4, <2>3, <2>8, <2>10, <2>12, <3>1, <3>2
  <2>13. StatsAre(stats, S, sec, C \cup {s})
    BY <2>8, <2>11, <2>12 DEF StatsAre
  <2>14. Store(a, sec) = stats
    BY <1>1, <1>8, <2>2, <2>7 DEF Store
  <2>15. QED
    BY <1>5, <2>13, <2>14
<1>9. CASE ~WorthStoring(a.sum, sec)
  <2>1. Worth(S, C \cup {s}, sec) = Worth(S, C, sec)
    BY <1>7, <1>9 DEF Worth, WorthStoring
  <2>2. Store(a, sec) = a.stats
    BY <1>9 DEF Store
  <2>3. QED
    BY <1>5, <1>6, <2>1, <2>2 DEF StatsAre
<1>10. QED
  BY <1>8, <1>9

\* A record is visited.
LEMMA VisitConciseHolds ==
  ASSUME NEW S, RecordSet(S), NEW sec \in Sections, NEW D, D \subseteq S,
         NEW r \in S, r \notin D, \A q \in D : Before(q, r), \A q \in S : q \in D \cup {r} \/ Before(r, q),
         NEW a, ConciseWalked(a, D, S, sec)
  PROVE  ConciseWalked(VisitConcise(a, r, sec), D \cup {r}, S, sec)
<1>1. PICK b : b = IF a.prev \in {0, r.site} THEN a
                   ELSE [a EXCEPT !.stats = Store(a, sec), !.sum = Renewed(a.sum, sec)]
  OBVIOUS
<1>2. PICK v : v = VisitConcise(a, r, sec)
  OBVIOUS
<1>3. v = [stats |-> b.stats, sum |-> Counted(b.sum, r, sec), prev |-> r.site]
  BY <1>1, <1>2 DEF VisitConcise
<1>4. /\ a = [stats |-> a.stats, sum |-> a.sum, prev |-> a.prev]
      /\ a.sum \in ConciseSummary /\ a.prev \in Nat
  BY DEF ConciseWalked, ConciseWalking, Site
<1>5. \A q \in S : q.site \in Site /\ q.site \in Nat /\ q.site # 0
  BY RecordFields DEF RecordSet, Sections
<1>6. \A q \in D : q.site <= r.site
  BY <1>5 DEF Before
<1>7. /\ b.sum \in ConciseSummary /\ Told(b.sum, Those(D, r.site), sec)
      /\ StatsAre(b.stats, S, sec, SitesOf(D) \ {r.site})
  <2>1. CASE D = {}
    <3>1. a.prev = 0 /\ b = a
      BY <1>1, <2>1 DEF ConciseWalked
    <3>2. Those(D, a.prev) = {} /\ Those(D, r.site) = {} /\ SitesOf(D) = {}
      BY <2>1 DEF Those, SitesOf
    <3>3. QED
      BY <1>4, <3>1, <3>2 DEF ConciseWalked
  <2>2. CASE a.prev = r.site
    <3>1. b = a
      BY <1>1, <2>2
    <3>2. QED
      BY <1>4, <2>2, <3>1 DEF ConciseWalked
  <2>3. CASE D # {} /\ a.prev # r.site
    <3>1. a.prev # 0 /\ a.prev \in SitesOf(D)
      BY <2>3 DEF ConciseWalked
    <3>2. a.prev < r.site
      <4>1. a.prev <= r.site
        BY <1>6, <3>1 DEF SitesOf
      <4>2. r.site \in Nat
        BY <1>5
      <4>3. QED
        BY <1>4, <2>3, <4>1, <4>2
    <3>3. \A q \in D : q.site < r.site
      BY <1>4, <1>5, <3>2 DEF ConciseWalked
    <3>4. SitesOf(D) \ {r.site} = SitesOf(D) /\ Those(D, r.site) = {}
      BY <1>5, <3>3 DEF SitesOf, Those
    <3>5. Those(D, a.prev) = Those(S, a.prev)
      <4>1. ASSUME NEW q \in S, q.site = a.prev PROVE q \in D
        <5>1. ~Before(r, q) /\ q # r
          BY <1>4, <1>5, <3>2, <4>1 DEF Before
        <5>2. QED
          BY <5>1
      <4>2. QED
        BY <4>1 DEF Those
    <3>6. StatsAre(Store(a, sec), S, sec, SitesOf(D))
      BY <2>3, <3>5, StoreHolds
    <3>7. b = [stats |-> Store(a, sec), sum |-> Renewed(a.sum, sec), prev |-> a.prev]
      BY <1>1, <1>4, <2>3, <3>1
    <3>8. b.stats = Store(a, sec) /\ b.sum = Renewed(a.sum, sec)
      BY <3>7
    <3>9. Renewed(a.sum, sec) \in ConciseSummary /\ Told(Renewed(a.sum, sec), {}, sec)
      BY <1>4, NothingTold
    <3>10. QED
      BY <3>4, <3>6, <3>8, <3>9
  <2>4. QED
    BY <2>1, <2>2, <2>3
<1>8. \A q \in Those(D, r.site) : q.rank < r.rank
  <2>1. \A q \in S : q.site \in Nat
    BY <1>5
  <2>2. QED
    BY <2>1 DEF Those, Before
<1>9. v.sum \in ConciseSummary /\ Told(v.sum, Those(D \cup {r}, r.site), sec)
  <2>1. PICK G : G = Those(D, r.site)
    OBVIOUS
  <2>2. G \subseteq S /\ Those(D \cup {r}, r.site) = G \cup {r}
    BY <2>1 DEF Those
  <2>3. Told(b.sum, G, sec) /\ b.sum \in ConciseSummary /\ \A q \in G : q.rank < r.rank
    BY <1>7, <1>8, <2>1
  <2>4. Counted(b.sum, r, sec) \in ConciseSummary /\ Told(Counted(b.sum, r, sec), G \cup {r}, sec)
    BY <2>2, <2>3, CountedTold
  <2>5. v.sum = Counted(b.sum, r, sec)
    BY <1>3
  <2>6. QED
    BY <2>2, <2>4, <2>5
<1>10. SitesOf(D \cup {r}) \ {r.site} = SitesOf(D) \ {r.site} /\ r.site \in SitesOf(D \cup {r})
  BY DEF SitesOf
<1>11. v.prev = r.site /\ v.stats = b.stats /\ v.stats \in Seq(ConciseType)
  BY <1>3, <1>7 DEF StatsAre
<1>12. v \in ConciseWalking
  <2>1. v = [stats |-> v.stats, sum |-> v.sum, prev |-> v.prev] /\ v.prev \in Site
    BY <1>3, <1>5
  <2>2. QED
    BY <1>9, <1>11, <2>1 DEF ConciseWalking
<1>13. \A q \in D \cup {r} : q.site <= v.prev
  BY <1>5, <1>6, <1>11
<1>14. v.prev # 0 /\ v.prev \in SitesOf(D \cup {r}) /\ D \cup {r} # {}
  BY <1>5, <1>10, <1>11
<1>15. Told(v.sum, Those(D \cup {r}, v.prev), sec) /\ StatsAre(v.stats, S, sec, SitesOf(D \cup {r}) \ {v.prev})
  BY <1>7, <1>9, <1>10, <1>11
<1>16. ConciseWalked(v, D \cup {r}, S, sec)
  BY <1>12, <1>13, <1>14, <1>15 DEF ConciseWalked
<1>17. QED
  BY <1>2, <1>16

\* All records are visited, and the last summary is stored.
LEMMA StatsHold ==
  ASSUME NEW S, RecordSet(S), S # {}, NEW sec \in Sections
  PROVE  StatsAre(callsite_stats(S, sec), S, sec, SitesOf(S))
<1>1. PICK n \in Nat : n = Cardinality(S)
  BY FS_CardinalityType DEF RecordSet
<1>2. PICK data : data = Sorted(S)
  OBVIOUS
<1>3. PICK R : R = SortOrder(S)
  OBVIOUS
<1>4. IsFiniteSet(S) /\ StrictOrder(S, R) /\ Lists(data, S, R)
  BY <1>2, <1>3, SortedLists DEF RecordSet
<1>5. \A p, q \in S : <<p, q>> \in R <=> Before(p, q)
  BY <1>3 DEF SortOrder
<1>6. ASSUME NEW k \in Nat, k < n, NEW a, ConciseWalked(a, UpTo(data, k), S, sec)
      PROVE  ConciseWalked(VisitConcise(a, data[k + 1], sec), UpTo(data, k + 1), S, sec)
  <2>1. /\ UpTo(data, k + 1) = UpTo(data, k) \cup {data[k + 1]}
        /\ data[k + 1] \in S /\ data[k + 1] \notin UpTo(data, k)
        /\ \A q \in UpTo(data, k) : q \in S /\ <<q, data[k + 1]>> \in R
        /\ \A q \in S : q \in UpTo(data, k + 1) \/ <<data[k + 1], q>> \in R
    BY <1>1, <1>4, <1>6, UpToGrows
  <2>2. PICK r, D : r = data[k + 1] /\ D = UpTo(data, k)
    OBVIOUS
  <2>3. /\ r \in S /\ r \notin D /\ D \subseteq S
        /\ \A q \in D : Before(q, r)
        /\ \A q \in S : q \in D \cup {r} \/ Before(r, q)
    BY <1>5, <2>1, <2>2
  <2>4. ConciseWalked(a, D, S, sec)
    BY <1>6, <2>2
  <2>5. ConciseWalked(VisitConcise(a, r, sec), D \cup {r}, S, sec)
    BY <2>3, <2>4, VisitConciseHolds
  <2>6. QED
    BY <2>1, <2>2, <2>5
<1>7. PICK start : start = [stats |-> <<>>, sum |-> NoTasks, prev |-> 0]
  OBVIOUS
<1>8. ConciseWalked(start, UpTo(data, 0), S, sec)
  <2>1. UpTo(data, 0) = {}
    BY <1>4, UpToEnds
  <2>2. start.stats = <<>> /\ start.sum = NoTasks /\ start.prev = 0
    BY <1>7
  <2>3. NoTasks \in ConciseSummary /\ Told(NoTasks, {}, sec)
    <3>1. NoTasks \in ConciseSummary
      BY DBL_MAXAssumption DEF NoTasks, ConciseSummary
    <3>2. QED
      BY <3>1, NothingTold
  <2>4. start \in ConciseWalking
    BY <1>7, <2>3 DEF ConciseWalking
  <2>5. Those({}, start.prev) = {} /\ SitesOf({}) \ {start.prev} = {}
    BY DEF Those, SitesOf
  <2>6. StatsAre(start.stats, S, sec, {})
    <3>1. Worth(S, {}, sec) = {} /\ DOMAIN start.stats = {} /\ start.stats \in Seq(ConciseType)
      BY <2>2 DEF Worth
    <3>2. QED
      BY <3>1 DEF StatsAre
  <2>7. ConciseWalked(start, {}, S, sec)
    BY <2>2, <2>3, <2>4, <2>5, <2>6 DEF ConciseWalked
  <2>8. QED
    BY <2>1, <2>7
<1>9. PICK A : A = [k \in 0 .. n |-> {a \in ConciseWalking : ConciseWalked(a, UpTo(data, k), S, sec)}]
  OBVIOUS
<1>10. PICK step : step = [k \in 1 .. n |-> [a \in A[k - 1] |-> VisitConcise(a, data[k], sec)]]
  OBVIOUS
<1>11. start \in A[0]
  BY <1>8, <1>9 DEF ConciseWalked
<1>12. ASSUME NEW k \in 1 .. n PROVE \A a \in A[k - 1] : VisitConcise(a, data[k], sec) \in A[k]
  <2>1. PICK j \in Nat : j = k - 1 /\ j < n /\ k = j + 1
    OBVIOUS
  <2>2. SUFFICES ASSUME NEW a \in A[j] PROVE VisitConcise(a, data[j + 1], sec) \in A[j + 1]
    BY <2>1
  <2>3. ConciseWalked(a, UpTo(data, j), S, sec)
    BY <1>9, <2>1
  <2>4. ConciseWalked(VisitConcise(a, data[j + 1], sec), UpTo(data, j + 1), S, sec)
    BY <1>6, <2>1, <2>3
  <2>5. j + 1 \in 0 .. n /\ VisitConcise(a, data[j + 1], sec) \in ConciseWalking
    BY <2>1, <2>4 DEF ConciseWalked
  <2>6. QED
    BY <1>9, <2>4, <2>5
<1>13. \A k \in 1 .. n : step[k] \in [A[k - 1] -> A[k]]
  BY <1>10, <1>12
<1>14. \E at : at = [k \in 0 .. n |-> IF k = 0 THEN start ELSE VisitConcise(at[k - 1], data[k], sec)]
  <2>1. PICK at : IsWalk(at, n, start, step) /\ \A k \in 0 .. n : at[k] \in A[k]
    BY <1>11, <1>13, WalkExists
  <2>2. \A k \in 1 .. n : at[k - 1] \in A[k - 1]
    <3>1. \A k \in 1 .. n : k - 1 \in 0 .. n
      OBVIOUS
    <3>2. QED
      BY <2>1, <3>1
  <2>3. \A k \in 1 .. n : step[k][at[k - 1]] = VisitConcise(at[k - 1], data[k], sec)
    BY <1>10, <2>2
  <2>4. \A k \in 0 .. n : k = 0 \/ k \in 1 .. n
    OBVIOUS
  <2>5. at = [k \in 0 .. n |-> IF k = 0 THEN start ELSE VisitConcise(at[k - 1], data[k], sec)]
    BY <2>1, <2>3, <2>4 DEF IsWalk
  <2>6. QED
    BY <2>5
<1>15. PICK at : /\ at = [k \in 0 .. n |-> IF k = 0 THEN start ELSE VisitConcise(at[k - 1], data[k], sec)]
                 /\ callsite_stats(S, sec) = Store(at[n], sec)
  BY <1>1, <1>2, <1>7, <1>14 DEF callsite_stats
<1>16. PICK P : P = {k \in Nat : k <= n => at[k] \in A[k]}
  OBVIOUS
<1>17. 0 \in P
  BY <1>11, <1>15, <1>16
<1>18. ASSUME NEW k \in Nat, k \in P PROVE k + 1 \in P
  <2>1. SUFFICES ASSUME k + 1 <= n PROVE at[k + 1] \in A[k + 1]
    BY <1>16
  <2>2. k + 1 \in 1 .. n /\ k + 1 # 0 /\ (k + 1) - 1 = k /\ at[k] \in A[k]
    BY <1>16, <1>18, <2>1
  <2>3. at[k + 1] = VisitConcise(at[k], data[k + 1], sec)
    BY <1>15, <2>2
  <2>4. QED
    BY <1>12, <2>2, <2>3
<1>19. at[n] \in A[n]
  BY <1>16, <1>17, <1>18, SetInduction
<1>20. UpTo(data, n) = S
  BY <1>1, <1>4, UpToEnds
<1>21. ConciseWalked(at[n], S, S, sec)
  BY <1>9, <1>19, <1>20
<1>22. StatsAre(Store(at[n], sec), S, sec, SitesOf(S))
  BY <1>21, StoreHolds
<1>23. QED
  BY <1>15, <1>22

-----------------------------------------------------------------------------
(* What the rows of a concise section say. *)

\* The sum of the contributions G to a call site, the largest, and if all contributed, how many
\* there are and the smallest.
Summed(x, G, sec) ==
  /\ x.cum = TotalOf(G, sec)
  /\ \E r \in G : x.max = r.cum[sec]
  /\ \A r \in G : r.cum[sec] <= x.max
  /\ x.max > 0 => FirstWith(x.maxRank, x.max, G, sec)
  /\ (\A r \in G : r.cum[sec] > 0) =>
       /\ x.count = Cardinality(G)
       /\ \A r \in G : x.min <= r.cum[sec]
       /\ FirstWith(x.minRank, x.min, G, sec)

\* The rows of a concise section without -l tell as much.
LEMMA ToldSummed ==
  ASSUME NEW x, NEW G, G # {}, NEW sec, Told(x, G, sec)
  PROVE  Summed(x, G, sec)
BY DEF Told, Summed

\* Something in a total comes from a record.
LEMMA TotalHas ==
  ASSUME NEW S, RecordSet(S), NEW sec \in Sections
  PROVE  TotalOf(S, sec) > 0 <=> \E r \in S : r.cum[sec] > 0
<1>1. \A r \in S : r.cum[sec] \in Nat /\ r.cum[sec] <= TotalOf(S, sec)
  BY TotalAbove, RecordFields DEF RecordSet
<1>2. TotalOf(S, sec) \in Nat
  BY TotalType
<1>3. ASSUME \A r \in S : ~(r.cum[sec] > 0) PROVE TotalOf(S, sec) = 0
  <2>1. PICK none : none = {}
    OBVIOUS
  <2>2. none \subseteq S /\ \A r \in S \ none : r.cum[sec] = 0
    BY <1>1, <1>3, <2>1
  <2>3. TotalOf(S, sec) = TotalOf(none, sec)
    BY <2>2, TotalIgnores
  <2>4. RecordSet(none)
    BY <2>1, FS_EmptySet DEF RecordSet
  <2>5. QED
    BY <2>1, <2>3, <2>4, TotalType
<1>4. QED
  BY <1>1, <1>2, <1>3

\* The first of the tasks is the one that FirstOf chooses.
LEMMA FirstIs ==
  ASSUME NEW G, NEW sec, \A r \in G : r.rank \in Nat, NEW t, NEW v, FirstWith(t, v, G, sec)
  PROVE  FirstOf({r.rank : r \in {q \in G : q.cum[sec] = v}}) = t
<1>1. PICK T : T = {r.rank : r \in {q \in G : q.cum[sec] = v}}
  OBVIOUS
<1>2. T \subseteq Nat /\ t \in T /\ \A u \in T : t <= u
  BY <1>1 DEF FirstWith
<1>3. PICK f : f = FirstOf(T)
  OBVIOUS
<1>4. f \in T /\ \A u \in T : f <= u
  BY <1>2, <1>3 DEF FirstOf
<1>5. f <= t /\ t <= f /\ f \in Nat /\ t \in Nat
  BY <1>2, <1>4
<1>6. f = t
  BY <1>5
<1>7. QED
  BY <1>1, <1>3, <1>6

\* Rows that tell so much are exact.
LEMMA ExactFromSummed ==
  ASSUME Tables, NEW sec \in Sections, NEW x \in ConciseType, Summed(x, OfSite(x.site), sec)
  PROVE  ExactSummary(x, sec)
<1>1. PICK G : G = OfSite(x.site)
  OBVIOUS
<1>2. RecordSet(G) /\ Summed(x, G, sec)
  <2>1. G \subseteq Records
    BY <1>1 DEF OfSite
  <2>2. QED
    BY <1>1, <2>1, RecordSubset DEF Tables
<1>3. \A r \in G : r.rank \in Nat /\ r.cum[sec] \in Nat
  BY <1>2, RecordFields DEF RecordSet
<1>4. x.cum \in Nat /\ x.max \in Nat /\ x.min \in Nat
  BY DEF ConciseType
<1>5. x.cum = TotalOf(G, sec)
  BY <1>2 DEF Summed
<1>6. x.max = Max({r.cum[sec] : r \in G})
  <2>1. PICK T : T = {r.cum[sec] : r \in G}
    OBVIOUS
  <2>2. T \subseteq Int /\ x.max \in T /\ \A y \in T : y <= x.max
    BY <1>2, <1>3, <2>1 DEF Summed
  <2>3. QED
    BY <2>1, <2>2, Extremes
<1>7. x.cum > 0 => x.maxRank = FirstOf({r.rank : r \in {q \in G : q.cum[sec] = x.max}})
  <2>1. SUFFICES ASSUME x.cum > 0
                 PROVE  x.maxRank = FirstOf({r.rank : r \in {q \in G : q.cum[sec] = x.max}})
    OBVIOUS
  <2>2. PICK r \in G : r.cum[sec] > 0
    BY <1>2, <1>5, <2>1, TotalHas
  <2>3. x.max > 0
    BY <1>2, <1>3, <1>4, <2>2 DEF Summed
  <2>4. FirstWith(x.maxRank, x.max, G, sec)
    BY <1>2, <2>3 DEF Summed
  <2>5. QED
    BY <1>3, <2>4, FirstIs
<1>8. ASSUME \A r \in G : r.cum[sec] > 0
      PROVE  /\ x.count = Cardinality(G)
             /\ x.min = Min({r.cum[sec] : r \in G})
             /\ x.minRank = FirstOf({r.rank : r \in {q \in G : q.cum[sec] = x.min}})
  <2>1. /\ x.count = Cardinality(G) /\ \A r \in G : x.min <= r.cum[sec]
        /\ FirstWith(x.minRank, x.min, G, sec)
    BY <1>2, <1>8 DEF Summed
  <2>2. PICK T : T = {r.cum[sec] : r \in G}
    OBVIOUS
  <2>3. T \subseteq Int /\ x.min \in T /\ \A y \in T : x.min <= y
    BY <1>3, <2>1, <2>2 DEF FirstWith
  <2>4. x.min = Min(T)
    BY <2>3, Extremes
  <2>5. x.minRank = FirstOf({r.rank : r \in {q \in G : q.cum[sec] = x.min}})
    BY <1>3, <2>1, FirstIs
  <2>6. QED
    BY <2>1, <2>2, <2>4, <2>5
<1>9. QED
  BY <1>1, <1>5, <1>6, <1>7, <1>8 DEF ExactSummary

\* The call sites that have a row in a concise report.
Moved(sec) == {s \in AggSites : sec = "time" \/ AggTotal(s, sec) > 0}
ConciseSites(sec) ==
  IF sec # "time" /\ ~opt.collective /\ Cardinality(Moved(sec)) = 1 THEN {} ELSE Moved(sec)
SummariesExact(rows, sec, sites) ==
  /\ Len(rows) = Cardinality(sites) /\ {rows[i].site : i \in DOMAIN rows} = sites
  /\ \A i \in DOMAIN rows : ExactSummary(rows[i], sec)

\* The rows of all call sites that are worth one.
LEMMA StatsExact ==
  ASSUME Tables, NEW sec \in Sections
  PROVE  /\ SummariesExact(callsite_stats(Records, sec), sec, Moved(sec))
         /\ callsite_stats(Records, sec) \in Seq(ConciseType)
<1>1. PICK stats : stats = callsite_stats(Records, sec)
  OBVIOUS
<1>2. RecordSet(Records) /\ Records # {}
  BY DEF Tables
<1>3. SitesOf(Records) = AggSites
  BY DEF SitesOf, AggSites
<1>4. StatsAre(stats, Records, sec, AggSites)
  BY <1>1, <1>2, <1>3, StatsHold
<1>5. Worth(Records, AggSites, sec) = Moved(sec)
  BY DEF Worth, Moved, AggTotal, Those
<1>6. PICK n \in Nat : n = Len(stats)
  BY <1>4 DEF StatsAre
<1>7. /\ stats \in Seq(ConciseType) /\ DOMAIN stats = 1 .. n
      /\ \A i \in 1 .. n : /\ stats[i] \in ConciseType /\ stats[i].site \in Moved(sec)
                           /\ Told(stats[i], Those(Records, stats[i].site), sec)
      /\ \A s \in Moved(sec) : \E i \in 1 .. n : stats[i].site = s
      /\ \A i, j \in 1 .. n : i < j => stats[i].site < stats[j].site
  <2>1. stats \in Seq(ConciseType) /\ DOMAIN stats = 1 .. n
    BY <1>4, <1>6 DEF StatsAre
  <2>2. \A i \in 1 .. n : stats[i] \in ConciseType
    BY <1>6, <2>1
  <2>3. QED
    BY <1>4, <1>5, <2>1, <2>2 DEF StatsAre
<1>8. {stats[i].site : i \in 1 .. n} = Moved(sec)
  BY <1>7
<1>9. Cardinality(Moved(sec)) = n
  <2>1. PICK f : f = [i \in 1 .. n |-> stats[i].site]
    OBVIOUS
  <2>2. f \in Surjection(1 .. n, Moved(sec))
    BY <1>7, <2>1 DEF Surjection
  <2>3. \A i \in 1 .. n : stats[i].site \in Nat
    BY <1>7 DEF ConciseType, Site
  <2>4. ASSUME NEW i \in 1 .. n, NEW j \in 1 .. n, f[i] = f[j] PROVE i = j
    <3>1. stats[i].site = stats[j].site /\ stats[i].site \in Nat
      BY <2>1, <2>3, <2>4
    <3>2. ~(i < j) /\ ~(j < i)
      BY <1>7, <2>3, <3>1
    <3>3. QED
      BY <3>2
  <2>5. f \in [1 .. n -> Moved(sec)]
    BY <1>7, <2>1
  <2>6. f \in Injection(1 .. n, Moved(sec))
    BY <2>4, <2>5 DEF Injection, IsInjective
  <2>7. IsFiniteSet(1 .. n) /\ Cardinality(1 .. n) = n
    BY FS_Interval
  <2>8. QED
    BY <2>2, <2>6, <2>7, FS_Surjection
<1>10. ASSUME NEW i \in 1 .. n PROVE ExactSummary(stats[i], sec)
  <2>1. PICK s : s = stats[i].site
    OBVIOUS
  <2>2. s \in AggSites /\ OfSite(s) = Those(Records, s)
    BY <1>7, <2>1 DEF Moved, OfSite, Those
  <2>3. OfSite(s) # {}
    BY <2>2 DEF OfSite, AggSites
  <2>4. Told(stats[i], OfSite(s), sec)
    BY <1>7, <2>1, <2>2
  <2>5. Summed(stats[i], OfSite(stats[i].site), sec)
    BY <2>1, <2>3, <2>4, ToldSummed
  <2>6. QED
    BY <1>7, <2>5, ExactFromSummed
<1>11. QED
  BY <1>1, <1>6, <1>7, <1>8, <1>9, <1>10 DEF SummariesExact

\* Without -l all sections of a concise report are exact.
LEMMA ConciseBytesExact ==
  ASSUME Tables, ~opt.collective, NEW sec \in Sections \ {"time"}
  PROVE  /\ SummariesExact(ConciseBytes(Records, sec, TRUE), sec, ConciseSites(sec))
         /\ \A memory \in BOOLEAN : ConciseBytes(Records, sec, memory) \in Seq(ConciseType)
         /\ (\A r \in Records : r.cum[sec] = 0) => SummariesExact(<<>>, sec, ConciseSites(sec))
<1>1. PICK stats : stats = callsite_stats(Records, sec)
  OBVIOUS
<1>2. SummariesExact(stats, sec, Moved(sec)) /\ stats \in Seq(ConciseType)
  BY <1>1, StatsExact
<1>3. Len(stats) \in Nat /\ Len(stats) = Cardinality(Moved(sec)) /\ DOMAIN stats = 1 .. Len(stats)
  BY <1>2 DEF SummariesExact
<1>4. /\ ConciseBytes(Records, sec, TRUE) = IF Len(stats) - 1 > 0 THEN stats ELSE <<>>
      /\ \A memory \in BOOLEAN : ConciseBytes(Records, sec, memory) \in Seq(ConciseType)
  <2>1. stats \in Seq(ConciseType) /\ <<>> \in Seq(ConciseType)
    BY <1>2
  <2>2. ConciseBytes(Records, sec, TRUE) = IF Len(stats) - 1 > 0 THEN stats ELSE <<>>
    BY <1>1 DEF ConciseBytes
  <2>3. ASSUME NEW memory \in BOOLEAN PROVE ConciseBytes(Records, sec, memory) \in Seq(ConciseType)
    <3>1. ConciseBytes(Records, sec, memory) = stats \/ ConciseBytes(Records, sec, memory) = <<>>
      BY <1>1 DEF ConciseBytes
    <3>2. QED
      BY <2>1, <3>1
  <2>4. QED
    BY <2>2, <2>3
<1>5. SummariesExact(<<>>, sec, {})
  <2>1. Len(<<>>) = 0 /\ DOMAIN <<>> = {} /\ Cardinality({}) = 0
    BY FS_EmptySet
  <2>2. QED
    BY <2>1 DEF SummariesExact
<1>6. Len(stats) = 0 => Moved(sec) = {}
  BY <1>2, <1>3 DEF SummariesExact
<1>7. CASE Len(stats) - 1 > 0
  <2>1. ConciseSites(sec) = Moved(sec)
    BY <1>3, <1>7 DEF ConciseSites
  <2>2. ConciseBytes(Records, sec, TRUE) = stats
    BY <1>4, <1>7
  <2>3. \E s \in Moved(sec) : TRUE
    <3>1. 1 \in DOMAIN stats
      BY <1>3, <1>7
    <3>2. QED
      BY <1>2, <3>1 DEF SummariesExact
  <2>4. \E r \in Records : r.cum[sec] # 0
    <3>1. PICK s \in AggSites : AggTotal(s, sec) > 0
      BY <2>3 DEF Moved
    <3>2. PICK T : T = {r \in Records : r.site = s}
      OBVIOUS
    <3>3. RecordSet(T) /\ TotalOf(T, sec) > 0 /\ T \subseteq Records
      BY <3>1, <3>2, RecordSubset DEF AggTotal, Tables
    <3>4. QED
      BY <3>3, TotalHas
  <2>5. SummariesExact(ConciseBytes(Records, sec, TRUE), sec, ConciseSites(sec))
    BY <1>2, <2>1, <2>2
  <2>6. QED
    BY <1>4, <2>4, <2>5
<1>8. CASE ~(Len(stats) - 1 > 0)
  <2>1. Len(stats) = 0 \/ Len(stats) = 1
    BY <1>3, <1>8
  <2>2. ConciseSites(sec) = {}
    BY <1>3, <1>6, <2>1 DEF ConciseSites
  <2>3. ConciseBytes(Records, sec, TRUE) = <<>>
    BY <1>4, <1>8
  <2>4. SummariesExact(<<>>, sec, ConciseSites(sec))
    BY <1>5, <2>2
  <2>5. SummariesExact(ConciseBytes(Records, sec, TRUE), sec, ConciseSites(sec))
    BY <2>3, <2>4
  <2>6. QED
    BY <1>4, <2>4, <2>5
<1>9. QED
  BY <1>7, <1>8

\* All sections of a concise report without -l are exact that there is memory for.
LEMMA AloneConcise ==
  ASSUME Tables, ~opt.collective, NEW sec \in Sections, NEW total, Reached(total), NEW L
  PROVE  /\ sec \notin L =>
              SummariesExact(PrintedAlone("concise", total, L)[sec], sec, ConciseSites(sec))
         /\ PrintedAlone("concise", total, L)[sec] \in Seq(ConciseType)
<1>1. PICK memory \in BOOLEAN : memory <=> sec \notin L
  OBVIOUS
<1>2. PICK rows : rows = PrintedAlone("concise", total, L)[sec]
  OBVIOUS
<1>3. rows = SectionAlone("concise", sec, total, memory)
  BY <1>1, <1>2 DEF PrintedAlone
<1>4. CASE sec = "time"
  <2>1. rows = IF memory THEN callsite_stats(Records, sec) ELSE <<>>
    BY <1>3, <1>4 DEF SectionAlone, mpiPi_print_concise_callsite_time_info
  <2>2. ConciseSites(sec) = Moved(sec) /\ <<>> \in Seq(ConciseType)
    BY <1>4 DEF ConciseSites
  <2>3. QED
    BY <1>1, <1>2, <2>1, <2>2, StatsExact
<1>5. CASE sec # "time"
  <2>1. /\ SummariesExact(ConciseBytes(Records, sec, TRUE), sec, ConciseSites(sec))
        /\ ConciseBytes(Records, sec, memory) \in Seq(ConciseType)
        /\ (\A r \in Records : r.cum[sec] = 0) => SummariesExact(<<>>, sec, ConciseSites(sec))
    BY <1>5, ConciseBytesExact
  <2>2. \/ rows = ConciseBytes(Records, sec, memory)
        \/ ~(total[sec] > 0) /\ sec \in {"io", "rma"} /\ rows = <<>>
    BY <1>3, <1>5 DEF SectionAlone, mpiPi_print_concise_callsite_sent_info,
                      mpiPi_print_concise_callsite_io_info, mpiPi_print_concise_callsite_rma_info, Sections
  <2>3. CASE rows = ConciseBytes(Records, sec, memory)
    <3>1. memory => rows = ConciseBytes(Records, sec, TRUE)
      BY <2>3
    <3>2. QED
      BY <1>1, <1>2, <2>1, <2>3, <3>1
  <2>4. CASE ~(total[sec] > 0) /\ sec \in {"io", "rma"} /\ rows = <<>>
    <3>1. total[sec] = 0
      BY <2>4 DEF Reached, Uncleared
    <3>2. \A r \in Records : r.cum[sec] = 0
      BY <2>4, <3>1 DEF Reached
    <3>3. <<>> \in Seq(ConciseType)
      OBVIOUS
    <3>4. QED
      BY <1>2, <2>1, <2>4, <3>2, <3>3
  <2>5. QED
    BY <2>2, <2>3, <2>4
<1>6. QED
  BY <1>4, <1>5

-----------------------------------------------------------------------------
(* The reductions of a concise section with -l. *)

\* Of finitely many numbers one is the smallest.
LEMMA SmallestExists ==
  ASSUME NEW S, IsFiniteSet(S), S # {}, NEW f, \A x \in S : f[x] \in Int
  PROVE  \E m \in S : \A x \in S : f[m] <= f[x]
<1>1. PICK P : P = {s \in SUBSET S : s # {} => \E m \in s : \A x \in s : f[m] <= f[x]}
  OBVIOUS
<1>2. {} \in P
  BY <1>1
<1>3. ASSUME NEW s \in SUBSET S, s # {}, \A x \in s : s \ {x} \in P PROVE s \in P
  <2>1. PICK a : a \in s
    BY <1>3
  <2>2. PICK r : r = s \ {a}
    OBVIOUS
  <2>3. r \in P /\ s = r \cup {a}
    BY <1>3, <2>1, <2>2
  <2>4. CASE r = {}
    <3>1. \A x \in s : x = a
      BY <2>3, <2>4
    <3>2. f[a] \in Int
      BY <2>1
    <3>3. QED
      BY <1>1, <2>1, <3>1, <3>2
  <2>5. CASE r # {}
    <3>1. PICK m \in r : \A x \in r : f[m] <= f[x]
      BY <1>1, <2>3, <2>5
    <3>2. f[m] \in Int /\ f[a] \in Int /\ \A x \in r : f[x] \in Int
      BY <2>1, <2>2
    <3>3. CASE f[m] <= f[a]
      <4>1. m \in s /\ \A x \in s : f[m] <= f[x]
        BY <2>3, <3>1, <3>3
      <4>2. QED
        BY <1>1, <4>1
    <3>4. CASE ~(f[m] <= f[a])
      <4>1. a \in s /\ \A x \in s : f[a] <= f[x]
        BY <2>3, <3>1, <3>2, <3>4
      <4>2. QED
        BY <1>1, <4>1
    <3>5. QED
      BY <3>3, <3>4
  <2>6. QED
    BY <2>4, <2>5
<1>4. S \in P
  BY <1>2, <1>3, SubsetInduction
<1>5. QED
  BY <1>1, <1>4

\* A reduction finds the first of the tasks with the smallest, or the largest, value.
LEMMA FirstTask ==
  ASSUME NEW T, T \subseteq Rank, T # {}
  PROVE  FirstOf(T) \in T /\ \A u \in T : FirstOf(T) <= u
<1>1. IsFiniteSet(T) /\ T \subseteq Nat
  BY PrintingAssumption, FS_Subset
<1>2. PICK f : f = [t \in T |-> t]
  OBVIOUS
<1>3. \A t \in T : f[t] \in Int
  BY <1>1, <1>2
<1>4. PICK m \in T : \A t \in T : f[m] <= f[t]
  BY <1>1, <1>3, SmallestExists
<1>5. \A t \in T : m <= t
  BY <1>2, <1>4
<1>6. QED
  BY <1>5 DEF FirstOf

\* What a task contributes: the figure of its record, or 0.
LEMMA OwnIs ==
  ASSUME Tables, NEW s \in Site, NEW sec \in Sections
  PROVE  /\ \A t \in Rank : /\ Own(s, t, sec) \in Nat /\ Own(s, t, sec) < DBL_MAX
                            /\ \A r \in OfSite(s) : r.rank = t => Own(s, t, sec) = r.cum[sec]
                            /\ (\A r \in OfSite(s) : r.rank # t) =>
                                 Own(s, t, sec) = 0 /\ Lookup(s, t).count = 0
         /\ \A r \in OfSite(s) : /\ r.rank \in Rank /\ r \in Records /\ r \in Record(Site, Rank)
                                 /\ r.cum[sec] \in Nat /\ r.cum[sec] < DBL_MAX
         /\ \A r, q \in OfSite(s) : r.rank = q.rank => r = q
         /\ RecordSet(OfSite(s))
<1>1. RecordSet(OfSite(s)) /\ \A r \in OfSite(s) : r \in Records /\ r.site = s
  <2>1. OfSite(s) \subseteq Records /\ \A r \in OfSite(s) : r.site = s
    BY DEF OfSite
  <2>2. QED
    BY <2>1, RecordSubset DEF Tables
<1>2. \A r \in OfSite(s) : r \in Record(Site, Rank) /\ r.cum[sec] < DBL_MAX
  BY <1>1 DEF RecordSet
<1>3. \A r \in OfSite(s) : r.rank \in Rank /\ r.cum[sec] \in Nat
  BY <1>2, RecordFields
<1>4. \A r, q \in OfSite(s) : r.rank = q.rank => r = q
  BY <1>1 DEF RecordSet
<1>5. ASSUME NEW t \in Rank
      PROVE  /\ Own(s, t, sec) \in Nat /\ Own(s, t, sec) < DBL_MAX
             /\ \A r \in OfSite(s) : r.rank = t => Own(s, t, sec) = r.cum[sec]
             /\ (\A r \in OfSite(s) : r.rank # t) => Own(s, t, sec) = 0 /\ Lookup(s, t).count = 0
  <2>1. \A r \in OfSite(s) : r.rank = t => Own(s, t, sec) = r.cum[sec]
    BY LookupFinds DEF Own
  <2>2. (\A r \in OfSite(s) : r.rank # t) => Own(s, t, sec) = 0 /\ Lookup(s, t).count = 0
    BY LookupFinds, ClearedFields DEF Own
  <2>3. CASE \E r \in OfSite(s) : r.rank = t
    BY <1>2, <1>3, <2>1, <2>2, <2>3
  <2>4. CASE \A r \in OfSite(s) : r.rank # t
    BY <2>1, <2>2, <2>4, DBL_MAXAssumption
  <2>5. QED
    BY <2>3, <2>4
<1>6. QED
  BY <1>1, <1>2, <1>3, <1>4, <1>5

\* The sum of what the tasks contribute is the sum of the records.
LEMMA OwnTotal ==
  ASSUME Tables, NEW s \in Site, NEW sec \in Sections
  PROVE  SumFunction([t \in Rank |-> Own(s, t, sec)]) = TotalOf(OfSite(s), sec)
<1>1. PICK G : G = OfSite(s)
  OBVIOUS
<1>2. /\ \A t \in Rank : /\ Own(s, t, sec) \in Nat
                         /\ \A r \in G : r.rank = t => Own(s, t, sec) = r.cum[sec]
                         /\ (\A r \in G : r.rank # t) => Own(s, t, sec) = 0
      /\ \A r \in G : r.rank \in Rank /\ r.cum[sec] \in Nat
      /\ \A r, q \in G : r.rank = q.rank => r = q
      /\ IsFiniteSet(G) /\ IsFiniteSet(Rank)
  BY <1>1, OwnIs, PrintingAssumption DEF RecordSet
<1>3. PICK w, c : w = [r \in G |-> r.cum[sec]] /\ c = [r \in G |-> r.rank]
  OBVIOUS
<1>4. (\A r \in G : w[r] \in Int) /\ (\A r \in G : c[r] \in Rank)
  BY <1>2, <1>3
<1>5. PICK own, parts : /\ own = [t \in Rank |-> Own(s, t, sec)]
                        /\ parts = [t \in Rank |-> SumFunctionOnSet(w, {r \in G : c[r] = t})]
  OBVIOUS
<1>6. SumFunctionOnSet(parts, Rank) = SumFunctionOnSet(w, G)
  BY <1>2, <1>4, <1>5, SumByGroups
<1>7. ASSUME NEW t \in Rank PROVE parts[t] = own[t]
  <2>1. CASE \E r \in G : r.rank = t
    <3>1. PICK r \in G : r.rank = t
      BY <2>1
    <3>2. {q \in G : c[q] = t} = {r}
      BY <1>2, <1>3, <3>1
    <3>3. PICK one : one = {r}
      OBVIOUS
    <3>4. IsFiniteSet(one) /\ r \in one /\ one \ {r} = {} /\ \A q \in one : w[q] \in Int
      BY <1>2, <1>4, <3>3, FS_Subset
    <3>5. SumFunctionOnSet(w, one) = SumFunctionOnSet(w, one \ {r}) + w[r]
      BY <3>4, SumRemove
    <3>6. SumFunctionOnSet(w, one \ {r}) = 0
      BY <3>4, SumNothing
    <3>7. SumFunctionOnSet(w, one) = w[r]
      BY <1>4, <3>5, <3>6
    <3>8. own[t] = w[r]
      BY <1>2, <1>3, <1>5, <3>1
    <3>9. QED
      BY <1>5, <3>2, <3>3, <3>7, <3>8
  <2>2. CASE \A r \in G : r.rank # t
    <3>1. {q \in G : c[q] = t} = {}
      BY <1>3, <2>2
    <3>2. own[t] = 0
      BY <1>2, <1>5, <2>2
    <3>3. QED
      BY <1>5, <3>1, <3>2, SumNothing
  <2>3. QED
    BY <2>1, <2>2
<1>8. SumFunctionOnSet(parts, Rank) = SumFunctionOnSet(own, Rank)
  BY <1>2, <1>7, SumSame
<1>9. SumFunction(own) = SumFunctionOnSet(own, Rank)
  BY <1>5 DEF SumFunction
<1>10. TotalOf(G, sec) = SumFunctionOnSet(w, G)
  BY <1>3 DEF TotalOf
<1>11. QED
  BY <1>1, <1>5, <1>6, <1>8, <1>9, <1>10

\* MINLOC and MAXLOC.
LEMMA ReducedIs ==
  ASSUME Tables, NEW x, x.site \in Site, NEW sec \in Sections, sec = Order[x.sec]
  PROVE  /\ x.step = "min" =>
              \E t \in Rank : /\ Reduced(x) = [min |-> Least(x.site, t, sec), minRank |-> t]
                              /\ \A u \in Rank : /\ Least(x.site, t, sec) <= Least(x.site, u, sec)
                                                 /\ Least(x.site, u, sec) = Least(x.site, t, sec) => t <= u
         /\ x.step = "max" =>
              \E t \in Rank : /\ Reduced(x) = [max |-> Own(x.site, t, sec), maxRank |-> t]
                              /\ \A u \in Rank : /\ Own(x.site, u, sec) <= Own(x.site, t, sec)
                                                 /\ Own(x.site, u, sec) = Own(x.site, t, sec) => t <= u
         /\ x.step = "sum" => Reduced(x) = [cum |-> TotalOf(OfSite(x.site), sec)]
         /\ x.step = "tasks" =>
              Reduced(x) = [count |-> Cardinality({t \in Rank : IF sec = "time" THEN Lookup(x.site, t).count > 0
                                                                ELSE Own(x.site, t, sec) > 0})]
<1>1. PICK s \in Site : s = x.site
  OBVIOUS
<1>2. \A t \in Rank : Own(s, t, sec) \in Nat /\ Least(s, t, sec) \in Nat
  BY OwnIs, DBL_MAXAssumption DEF Least
<1>3. IsFiniteSet(Rank) /\ Rank # {}
  BY PrintingAssumption
<1>4. ASSUME x.step = "min"
      PROVE  \E t \in Rank : /\ Reduced(x) = [min |-> Least(s, t, sec), minRank |-> t]
                             /\ \A u \in Rank : /\ Least(s, t, sec) <= Least(s, u, sec)
                                                /\ Least(s, u, sec) = Least(s, t, sec) => t <= u
  <2>1. PICK T : T = {y \in Rank : \A u \in Rank : Least(s, y, sec) <= Least(s, u, sec)}
    OBVIOUS
  <2>2. PICK t : t = FirstOf(T)
    OBVIOUS
  <2>3. Reduced(x) = [min |-> Least(s, t, sec), minRank |-> t]
    BY <1>1, <1>4, <2>1, <2>2 DEF Reduced
  <2>4. T # {}
    <3>1. PICK f : f = [y \in Rank |-> Least(s, y, sec)]
      OBVIOUS
    <3>2. \A y \in Rank : f[y] \in Int
      BY <1>2, <3>1
    <3>3. PICK m \in Rank : \A y \in Rank : f[m] <= f[y]
      BY <1>3, <3>2, SmallestExists
    <3>4. QED
      BY <2>1, <3>1, <3>3
  <2>5. t \in T /\ \A u \in T : t <= u
    <3>1. T \subseteq Rank
      BY <2>1
    <3>2. QED
      BY <2>2, <2>4, <3>1, FirstTask
  <2>6. \A u \in Rank : Least(s, u, sec) = Least(s, t, sec) => u \in T
    BY <2>1, <2>5
  <2>7. QED
    BY <2>1, <2>3, <2>5, <2>6
<1>5. ASSUME x.step = "max"
      PROVE  \E t \in Rank : /\ Reduced(x) = [max |-> Own(s, t, sec), maxRank |-> t]
                             /\ \A u \in Rank : /\ Own(s, u, sec) <= Own(s, t, sec)
                                                /\ Own(s, u, sec) = Own(s, t, sec) => t <= u
  <2>1. PICK T : T = {y \in Rank : \A u \in Rank : Own(s, y, sec) >= Own(s, u, sec)}
    OBVIOUS
  <2>2. PICK t : t = FirstOf(T)
    OBVIOUS
  <2>3. Reduced(x) = [max |-> Own(s, t, sec), maxRank |-> t]
    BY <1>1, <1>5, <2>1, <2>2 DEF Reduced
  <2>4. T # {}
    <3>1. PICK f : f = [y \in Rank |-> 0 - Own(s, y, sec)]
      OBVIOUS
    <3>2. \A y \in Rank : f[y] \in Int
      BY <1>2, <3>1
    <3>3. PICK m \in Rank : \A y \in Rank : f[m] <= f[y]
      BY <1>3, <3>2, SmallestExists
    <3>4. \A y \in Rank : Own(s, m, sec) >= Own(s, y, sec)
      BY <1>2, <3>1, <3>3
    <3>5. QED
      BY <2>1, <3>4
  <2>5. t \in T /\ \A u \in T : t <= u
    <3>1. T \subseteq Rank
      BY <2>1
    <3>2. QED
      BY <2>2, <2>4, <3>1, FirstTask
  <2>6. \A u \in Rank : Own(s, u, sec) = Own(s, t, sec) => u \in T
    BY <2>1, <2>5
  <2>7. \A u \in Rank : Own(s, u, sec) <= Own(s, t, sec)
    BY <1>2, <2>1, <2>5
  <2>8. QED
    BY <2>1, <2>3, <2>5, <2>6, <2>7
<1>6. x.step = "sum" => Reduced(x) = [cum |-> TotalOf(OfSite(s), sec)]
  <2>1. x.step = "sum" => Reduced(x) = [cum |-> SumFunction([t \in Rank |-> Own(s, t, sec)])]
    BY <1>1 DEF Reduced
  <2>2. QED
    BY <2>1, OwnTotal
<1>7. x.step = "tasks" =>
        Reduced(x) = [count |-> Cardinality({t \in Rank : IF sec = "time" THEN Lookup(s, t).count > 0
                                                          ELSE Own(s, t, sec) > 0})]
  BY <1>1 DEF Reduced
<1>8. QED
  BY <1>1, <1>4, <1>5, <1>6, <1>7

\* The row made of four reductions about a call site is exact.
LEMMA ReducedExact ==
  ASSUME Tables, NEW s \in AggSites, style = "concise", NEW sec \in Sections,
         NEW a, NEW b, NEW c, NEW d, NEW x,
         a.site = s /\ a.step = "min" /\ sec = Order[a.sec],
         b.site = s /\ b.step = "max" /\ sec = Order[b.sec],
         c.site = s /\ c.step = "sum" /\ sec = Order[c.sec],
         d.site = s /\ d.step = "tasks" /\ sec = Order[d.sec],
         x = ConciseRow(s, [count |-> Reduced(d).count, cum |-> Reduced(c).cum,
                            max |-> Reduced(b).max, maxRank |-> Reduced(b).maxRank,
                            min |-> Reduced(a).min, minRank |-> Reduced(a).minRank])
  PROVE  x \in ConciseType /\ x.site = s /\ ExactSummary(x, sec)
<1>1. s \in Site
  BY RecordsStand DEF StandsFor
<1>2. PICK G : G = OfSite(s)
  OBVIOUS
<1>3. /\ \A t \in Rank : /\ Own(s, t, sec) \in Nat /\ Own(s, t, sec) < DBL_MAX
                         /\ \A r \in G : r.rank = t => Own(s, t, sec) = r.cum[sec]
                         /\ (\A r \in G : r.rank # t) => Own(s, t, sec) = 0 /\ Lookup(s, t).count = 0
      /\ \A r \in G : /\ r.rank \in Rank /\ r \in Records /\ r \in Record(Site, Rank)
                      /\ r.cum[sec] \in Nat /\ r.cum[sec] < DBL_MAX
      /\ \A r, q \in G : r.rank = q.rank => r = q
      /\ RecordSet(G)
  BY <1>1, <1>2, OwnIs
<1>4. G # {}
  BY <1>2 DEF OfSite, AggSites
<1>5. PICK i \in Rank : /\ Reduced(a) = [min |-> Least(s, i, sec), minRank |-> i]
                        /\ \A u \in Rank : /\ Least(s, i, sec) <= Least(s, u, sec)
                                           /\ Least(s, u, sec) = Least(s, i, sec) => i <= u
  <2>1. a.site \in Site /\ a.site = s
    BY <1>1
  <2>2. \E t \in Rank : /\ Reduced(a) = [min |-> Least(a.site, t, sec), minRank |-> t]
                        /\ \A u \in Rank : /\ Least(a.site, t, sec) <= Least(a.site, u, sec)
                                           /\ Least(a.site, u, sec) = Least(a.site, t, sec) => t <= u
    BY <2>1, ReducedIs
  <2>3. QED
    BY <2>1, <2>2
<1>6. PICK j \in Rank : /\ Reduced(b) = [max |-> Own(s, j, sec), maxRank |-> j]
                        /\ \A u \in Rank : /\ Own(s, u, sec) <= Own(s, j, sec)
                                           /\ Own(s, u, sec) = Own(s, j, sec) => j <= u
  BY <1>1, ReducedIs
<1>7. Reduced(c) = [cum |-> TotalOf(G, sec)]
  BY <1>1, <1>2, ReducedIs
<1>8. PICK T : T = {t \in Rank : IF sec = "time" THEN Lookup(s, t).count > 0 ELSE Own(s, t, sec) > 0}
  OBVIOUS
<1>9. Reduced(d) = [count |-> Cardinality(T)]
  BY <1>1, <1>8, ReducedIs
<1>10. x = [site |-> s, count |-> Cardinality(T), cum |-> TotalOf(G, sec), max |-> Own(s, j, sec),
            min |-> Least(s, i, sec), maxRank |-> j, minRank |-> i]
  BY <1>5, <1>6, <1>7, <1>9 DEF ConciseRow
<1>11. /\ x.site = s /\ x.count = Cardinality(T) /\ x.cum = TotalOf(G, sec) /\ x.max = Own(s, j, sec)
       /\ x.min = Least(s, i, sec) /\ x.maxRank = j /\ x.minRank = i
  BY <1>10
<1>12. x \in ConciseType
  <2>1. Cardinality(T) \in Nat
    <3>1. T \subseteq Rank
      BY <1>8
    <3>2. QED
      BY <3>1, PrintingAssumption, FS_Subset, FS_CardinalityType
  <2>2. TotalOf(G, sec) \in Nat
    BY <1>3, TotalType
  <2>3. Own(s, j, sec) \in Nat /\ Least(s, i, sec) \in Nat
    BY <1>3, DBL_MAXAssumption DEF Least
  <2>4. QED
    BY <1>1, <1>10, <2>1, <2>2, <2>3 DEF ConciseType
<1>13. \A r \in G : r.cum[sec] = Own(s, r.rank, sec)
  BY <1>3
<1>14. ASSUME NEW t \in Rank, Own(s, t, sec) > 0
       PROVE  \E r \in G : r.rank = t /\ r.cum[sec] = Own(s, t, sec)
  <2>1. PICK r \in G : r.rank = t
    BY <1>3, <1>14
  <2>2. QED
    BY <1>3, <2>1
<1>15. (\E r \in G : x.max = r.cum[sec]) /\ (\A r \in G : r.cum[sec] <= x.max)
  <2>1. \A r \in G : r.cum[sec] <= x.max
    BY <1>3, <1>6, <1>11, <1>13
  <2>2. CASE Own(s, j, sec) > 0
    BY <1>11, <1>14, <2>1, <2>2
  <2>3. CASE ~(Own(s, j, sec) > 0)
    <3>1. x.max = 0
      BY <1>3, <1>11, <2>3
    <3>2. PICK r \in G : TRUE
      BY <1>4
    <3>3. r.cum[sec] \in Nat /\ r.cum[sec] <= 0
      BY <1>3, <2>1, <3>1, <3>2
    <3>4. QED
      BY <2>1, <3>1, <3>3
  <2>4. QED
    BY <2>2, <2>3
<1>16. ASSUME x.max > 0 PROVE FirstWith(x.maxRank, x.max, G, sec)
  <2>1. PICK r \in G : r.rank = j /\ r.cum[sec] = Own(s, j, sec)
    BY <1>11, <1>14, <1>16
  <2>2. \A q \in G : q.cum[sec] = Own(s, j, sec) => j <= q.rank
    BY <1>3, <1>6, <1>13
  <2>3. QED
    BY <1>11, <2>1, <2>2 DEF FirstWith
<1>17. ASSUME \A r \in G : r.cum[sec] > 0
       PROVE  /\ x.count = Cardinality(G)
              /\ \A r \in G : x.min <= r.cum[sec]
              /\ FirstWith(x.minRank, x.min, G, sec)
  <2>1. \A r \in G : Least(s, r.rank, sec) = r.cum[sec]
    BY <1>3, <1>13, <1>17 DEF Least
  <2>2. \A r \in G : x.min <= r.cum[sec]
    BY <1>3, <1>5, <1>11, <2>1
  <2>3. Own(s, i, sec) > 0 /\ Least(s, i, sec) = Own(s, i, sec)
    <3>1. PICK g \in G : TRUE
      BY <1>4
    <3>2. Least(s, i, sec) <= g.cum[sec] /\ g.cum[sec] < DBL_MAX /\ g.cum[sec] \in Nat
      BY <1>3, <1>11, <2>2, <3>1
    <3>3. Least(s, i, sec) # DBL_MAX
      BY <3>2, DBL_MAXAssumption
    <3>4. QED
      BY <3>3 DEF Least
  <2>4. PICK r \in G : r.rank = i /\ r.cum[sec] = Own(s, i, sec)
    BY <1>14, <2>3
  <2>5. \A q \in G : q.cum[sec] = Least(s, i, sec) => i <= q.rank
    BY <1>3, <1>5, <2>1
  <2>6. FirstWith(x.minRank, x.min, G, sec)
    BY <1>11, <2>3, <2>4, <2>5 DEF FirstWith
  <2>7. x.count = Cardinality(G)
    <3>1. PICK f : f = [q \in G |-> q.rank]
      OBVIOUS
    <3>2. \A q \in G : q.rank \in T
      <4>1. SUFFICES ASSUME NEW q \in G PROVE q.rank \in T
        OBVIOUS
      <4>2. q.rank \in Rank /\ Own(s, q.rank, sec) > 0
        BY <1>3, <1>13, <1>17
      <4>3. Lookup(s, q.rank) = q
        BY <1>1, <1>2, <4>2, LookupFinds
      <4>4. sec = "time" => q.count > 0
        <5>1. q.count \in Nat /\ q \in Records /\ q.cum[sec] # 0
          <6>1. q \in Record(Site, Rank) /\ q \in Records /\ q.cum[sec] > 0 /\ q.cum[sec] \in Nat
            BY <1>3, <1>17
          <6>2. QED
            BY <6>1, RecordFields
        <5>2. sec = "time" => q.count # 0
          BY <5>1 DEF Tables
        <5>3. QED
          BY <5>1, <5>2
      <4>5. QED
        BY <1>8, <4>2, <4>3, <4>4
    <3>3. \A t \in T : t \in Rank /\ \E q \in G : q.rank = t
      <4>1. SUFFICES ASSUME NEW t \in T, \A q \in G : q.rank # t PROVE FALSE
        BY <1>8
      <4>2. t \in Rank /\ Own(s, t, sec) = 0 /\ Lookup(s, t).count = 0
        BY <1>3, <1>8, <4>1
      <4>3. QED
        BY <1>8, <4>1, <4>2
    <3>4. f \in [G -> T] /\ \A p, q \in G : f[p] = f[q] => p = q
      BY <1>3, <3>1, <3>2
    <3>5. f \in Surjection(G, T) /\ f \in Injection(G, T)
      BY <3>1, <3>3, <3>4 DEF Surjection, Injection, IsInjective
    <3>6. IsFiniteSet(G)
      BY <1>3 DEF RecordSet
    <3>7. Cardinality(T) = Cardinality(G)
      BY <3>5, <3>6, FS_Surjection
    <3>8. QED
      BY <1>11, <3>7
  <2>8. QED
    BY <2>2, <2>6, <2>7
<1>18. Summed(x, OfSite(x.site), sec)
  BY <1>2, <1>11, <1>15, <1>16, <1>17 DEF Summed
<1>19. ExactSummary(x, sec)
  BY <1>12, <1>18, ExactFromSummed
<1>20. QED
  BY <1>11, <1>12, <1>19

-----------------------------------------------------------------------------
(* The list of call sites that a section goes through. *)

\* The sections in their order.
LEMMA OrderIs ==
  /\ \A k \in 1 .. 4 : Order[k] \in Sections
  /\ \A k, l \in 1 .. 4 : Order[k] = Order[l] => k = l
  /\ \A sec \in Sections : \E k \in 1 .. 4 : Order[k] = sec
<1>1. Order[1] = "time" /\ Order[2] = "sent" /\ Order[3] = "io" /\ Order[4] = "rma"
  BY DEF Order
<1>2. \A k \in 1 .. 4 : k = 1 \/ k = 2 \/ k = 3 \/ k = 4
  OBVIOUS
<1>3. \A k \in 1 .. 4 : Order[k] \in Sections
  BY <1>1, <1>2 DEF Sections
<1>4. \A k, l \in 1 .. 4 : Order[k] = Order[l] => k = l
  BY <1>1, <1>2
<1>5. \A sec \in Sections : \E k \in 1 .. 4 : Order[k] = sec
  <2>1. 1 \in 1 .. 4 /\ 2 \in 1 .. 4 /\ 3 \in 1 .. 4 /\ 4 \in 1 .. 4
    OBVIOUS
  <2>2. QED
    BY <1>1, <2>1 DEF Sections
<1>6. QED
  BY <1>3, <1>4, <1>5

\* Totals of call sites are natural numbers.
LEMMA AggTotalType ==
  ASSUME Tables, NEW sec \in Sections
  PROVE  /\ AggSites \subseteq Site /\ IsFiniteSet(Listed(sec)) /\ Listed(sec) \subseteq Site
         /\ \A s : AggTotal(s, sec) \in Nat
<1>1. AggSites \subseteq Site
  BY RecordsStand DEF StandsFor
<1>2. Listed(sec) \subseteq Site
  BY <1>1 DEF Listed
<1>3. IsFiniteSet(Site)
  <2>1. Sites \in Nat
    BY PrintingAssumption
  <2>2. QED
    BY <2>1, FS_Interval DEF Site
<1>4. ASSUME NEW s PROVE AggTotal(s, sec) \in Nat
  <2>1. PICK T : T = {r \in Records : r.site = s}
    OBVIOUS
  <2>2. RecordSet(T)
    BY <2>1, RecordSubset DEF Tables
  <2>3. QED
    BY <2>1, <2>2, TotalType DEF AggTotal
<1>5. QED
  BY <1>1, <1>2, <1>3, <1>4, FS_Subset

\* The collector's list has every call site that a section is about once, in order.
LEMMA ListIs ==
  ASSUME Tables, NEW sec \in Sections
  PROVE  /\ Cardinality(Listed(sec)) \in Nat
         /\ \A i \in 1 .. Cardinality(Listed(sec)) : av(sec)[i] \in Listed(sec)
         /\ \A s \in Listed(sec) : \E i \in 1 .. Cardinality(Listed(sec)) : av(sec)[i] = s
         /\ \A i, j \in 1 .. Cardinality(Listed(sec)) : av(sec)[i] = av(sec)[j] => i = j
         /\ style = "verbose" =>
              \A i, j \in 1 .. Cardinality(Listed(sec)) : i < j => av(sec)[i] < av(sec)[j]
<1>1. PICK S : S = Listed(sec)
  OBVIOUS
<1>2. PICK R : R = {p \in S \X S : Precedes(p[1], p[2], sec)}
  OBVIOUS
<1>3. /\ IsFiniteSet(S) /\ \A s \in S : s \in Nat
      /\ \A s : AggTotal(s, sec) \in Nat
  <2>1. S \subseteq Site /\ IsFiniteSet(S) /\ \A s : AggTotal(s, sec) \in Nat
    BY <1>1, AggTotalType
  <2>2. QED
    BY <2>1 DEF Site
<1>4. \A s, q \in S : <<s, q>> \in R <=> Precedes(s, q, sec)
  BY <1>2
<1>5. StrictOrder(S, R)
  <2>1. \A s \in S : ~Precedes(s, s, sec)
    BY <1>3 DEF Precedes
  <2>2. ASSUME NEW a \in S, NEW b \in S, NEW c \in S, Precedes(a, b, sec), Precedes(b, c, sec)
        PROVE  Precedes(a, c, sec)
    <3>1. AggTotal(a, sec) \in Nat /\ AggTotal(b, sec) \in Nat /\ AggTotal(c, sec) \in Nat
          /\ a \in Nat /\ b \in Nat /\ c \in Nat
      BY <1>3
    <3>2. QED
      BY <2>2, <3>1 DEF Precedes
  <2>3. ASSUME NEW a \in S, NEW b \in S, a # b PROVE Precedes(a, b, sec) \/ Precedes(b, a, sec)
    <3>1. AggTotal(a, sec) \in Nat /\ AggTotal(b, sec) \in Nat /\ a \in Nat /\ b \in Nat
      BY <1>3
    <3>2. QED
      BY <2>3, <3>1 DEF Precedes
  <2>4. QED
    BY <1>4, <2>1, <2>2, <2>3 DEF StrictOrder
<1>6. PICK f : f = av(sec)
  OBVIOUS
<1>7. f = [i \in 1 .. Cardinality(S) |->
             CHOOSE s \in S : Cardinality({q \in S : Precedes(q, s, sec)}) = i - 1]
  BY <1>1, <1>6 DEF av
<1>8. \A s \in S : {q \in S : <<q, s>> \in R} = {q \in S : Precedes(q, s, sec)}
  BY <1>4
<1>9. ASSUME NEW i \in 1 .. Cardinality(S), NEW a \in S,
             Cardinality({q \in S : <<q, a>> \in R}) = i - 1
      PROVE  f[i] \in S /\ Cardinality({q \in S : <<q, f[i]>> \in R}) = i - 1
  <2>1. Cardinality({q \in S : Precedes(q, a, sec)}) = i - 1
    BY <1>8, <1>9
  <2>2. f[i] = CHOOSE s \in S : Cardinality({q \in S : Precedes(q, s, sec)}) = i - 1
    BY <1>7
  <2>3. f[i] \in S /\ Cardinality({q \in S : Precedes(q, f[i], sec)}) = i - 1
    BY <2>1, <2>2
  <2>4. QED
    BY <1>8, <2>3
<1>10. f \in [1 .. Cardinality(S) -> {f[i] : i \in 1 .. Cardinality(S)}]
  BY <1>7
<1>11. Lists(f, S, R)
  BY <1>3, <1>5, <1>9, <1>10, Listing
<1>12. PICK n \in Nat : n = Cardinality(S)
  BY <1>3, FS_CardinalityType
<1>13. /\ \A i \in 1 .. n : f[i] \in S
       /\ \A s \in S : \E i \in 1 .. n : f[i] = s
       /\ \A i, j \in 1 .. n : i < j => <<f[i], f[j]>> \in R
  BY <1>11, <1>12 DEF Lists
<1>14. \A i, j \in 1 .. n : f[i] = f[j] => i = j
  <2>1. SUFFICES ASSUME NEW i \in 1 .. n, NEW j \in 1 .. n, i # j PROVE f[i] # f[j]
    OBVIOUS
  <2>2. i < j \/ j < i
    BY <2>1
  <2>3. <<f[i], f[j]>> \in R \/ <<f[j], f[i]>> \in R
    BY <1>13, <2>2
  <2>4. QED
    BY <1>5, <1>13, <2>3 DEF StrictOrder
<1>15. style = "verbose" => \A i, j \in 1 .. n : i < j => f[i] < f[j]
  BY <1>4, <1>13 DEF Precedes
<1>16. QED
  BY <1>1, <1>6, <1>12, <1>13, <1>14, <1>15

-----------------------------------------------------------------------------
(* What has been printed when the tasks are at a place. *)

\* The rows of the first k call sites of the list.
Progress(sec, rows, k) ==
  /\ style = "verbose" => rows \in Seq(RowType) /\ ExactRows(rows, sec, UpTo(av(sec), k))
  /\ style = "concise" =>
       /\ rows \in Seq(ConciseType) /\ Len(rows) = k
       /\ \A j \in 1 .. k : rows[j].site = av(sec)[j] /\ ExactSummary(rows[j], sec)

\* The rows of a section.
Done(sec, rows) ==
  /\ style = "verbose" => ExactRows(rows, sec, AggSites)
  /\ style = "concise" => SummariesExact(rows, sec, ConciseSites(sec))

Typed(rows) == rows \in Seq(IF style = "concise" THEN ConciseType ELSE RowType)

\* No call site yet.
LEMMA ProgressStarts ==
  ASSUME NEW sec
  PROVE  Progress(sec, <<>>, 0) /\ Typed(<<>>)
<1>1. UpTo(av(sec), 0) = {} /\ Len(<<>>) = 0 /\ <<>> \in Seq(RowType) /\ <<>> \in Seq(ConciseType)
  BY DEF UpTo
<1>2. ExactRows(<<>>, sec, UpTo(av(sec), 0))
  BY <1>1, NoRows
<1>3. QED
  BY <1>1, <1>2 DEF Progress, Typed

\* All call sites: the section is exact.
LEMMA ProgressEnds ==
  ASSUME Tables, opt.collective, style \in {"verbose", "concise"}, NEW sec \in Sections, NEW rows,
         Progress(sec, rows, Cardinality(Listed(sec)))
  PROVE  Done(sec, rows) /\ Typed(rows)
<1>1. PICK n \in Nat : n = Cardinality(Listed(sec))
  BY ListIs
<1>2. PICK f : f = av(sec)
  OBVIOUS
<1>3. /\ \A i \in 1 .. n : f[i] \in Listed(sec)
      /\ \A s \in Listed(sec) : \E i \in 1 .. n : f[i] = s
  BY <1>1, <1>2, ListIs
<1>4. Typed(rows)
  BY DEF Progress, Typed
<1>5. CASE style = "verbose"
  <2>1. Listed(sec) = AggSites
    BY <1>5 DEF Listed
  <2>2. UpTo(f, n) = Listed(sec)
    BY <1>3 DEF UpTo
  <2>3. ExactRows(rows, sec, AggSites)
    BY <1>1, <1>2, <1>5, <2>1, <2>2 DEF Progress
  <2>4. QED
    BY <1>4, <1>5, <2>3 DEF Done
<1>6. CASE style = "concise"
  <2>1. ConciseSites(sec) = Listed(sec)
    BY <1>6 DEF ConciseSites, Moved, Listed
  <2>2. rows \in Seq(ConciseType) /\ Len(rows) = n
        /\ \A j \in 1 .. n : rows[j].site = f[j] /\ ExactSummary(rows[j], sec)
    BY <1>1, <1>2, <1>6 DEF Progress
  <2>3. DOMAIN rows = 1 .. n
    BY <2>2
  <2>4. {rows[i].site : i \in DOMAIN rows} = Listed(sec)
    BY <1>3, <2>2, <2>3
  <2>5. SummariesExact(rows, sec, ConciseSites(sec))
    BY <1>1, <2>1, <2>2, <2>3, <2>4 DEF SummariesExact
  <2>6. QED
    BY <1>4, <1>6, <2>5 DEF Done
<1>7. QED
  BY <1>5, <1>6


-----------------------------------------------------------------------------
(* A report in print. *)

At(x, step) == [x EXCEPT !.step = step]
Reductions == {"min", "max", "sum", "tasks"}

\* Where a task is tells which style is printed, with -l, and which call site is in turn.
Place(x) ==
  /\ x.step # "end" => opt.collective /\ opt.detail /\ style \in {"verbose", "concise"}
  /\ x.step \in {"gate", "malloc", "total", "gather"} => style = "verbose"
  /\ x.step \in {"gate", "total"} => Order[x.sec] # "time"
  /\ x.step \in Reductions => style = "concise"
  /\ x.step \notin OfASite => x.i = 0 /\ x.n = 0
  /\ x.step \in Reductions \cup {"gather"} => x.site = av(Order[x.sec])[x.i]
  /\ x.site \in Site \cup {0}

\* The collector has the results of the reductions before.
Received(x, D) ==
  /\ x.step \notin {"max", "sum", "tasks"} => D = <<>>
  /\ x.step = "max" => D = <<Reduced(At(x, "min"))>>
  /\ x.step = "sum" => D = <<Reduced(At(x, "min")), Reduced(At(x, "max"))>>
  /\ x.step = "tasks" => D = <<Reduced(At(x, "min")), Reduced(At(x, "max")), Reduced(At(x, "sum"))>>

\* Sections there was no memory for.
GivenUp(L) == L \subseteq Sections

\* The sections have rows, those before section n all of them, those behind none, and the
\* section in print those of the call sites before the one in turn.
AllTyped(P) == P = [sec \in Sections |-> P[sec]] /\ \A sec \in Sections : Typed(P[sec])
Behind(n, P, L) ==
  opt.detail /\ style # "none" =>
    \A k \in 1 .. 4 : k < n => Order[k] \in L \/ Done(Order[k], P[Order[k]])
Ahead(n, P) == \A k \in 1 .. 4 : k > n => P[Order[k]] = <<>>
Current(x, P) ==
  x.sec # 5 => IF x.step \in OfASite THEN Progress(Order[x.sec], P[Order[x.sec]], x.i - 1)
               ELSE P[Order[x.sec]] = <<>>

Sound(x, P, L, D) ==
  /\ Place(x) /\ Received(x, D) /\ GivenUp(L)
  /\ AllTyped(P) /\ Behind(x.sec, P, L) /\ Ahead(x.sec, P) /\ Current(x, P)

\* The fields of a place.
LEMMA AtIs ==
  ASSUME NEW x, Shaped(x)
  PROVE  /\ At(x, x.step) = x
         /\ \A s : /\ Shaped(At(x, s)) /\ At(x, s).step = s
                   /\ At(x, s).sec = x.sec /\ At(x, s).i = x.i
                   /\ At(x, s).n = x.n /\ At(x, s).site = x.site
         /\ \A s, u : At(At(x, s), u) = At(x, u)
<1>1. PICK a, b, c, d, e : x = [sec |-> a, step |-> b, i |-> c, n |-> d, site |-> e]
  BY DEF Shaped
<1>2. \A s : At(x, s) = [sec |-> a, step |-> s, i |-> c, n |-> d, site |-> e]
  BY <1>1 DEF At
<1>3. \A s, u : At(At(x, s), u) = [sec |-> a, step |-> u, i |-> c, n |-> d, site |-> e]
  BY <1>2 DEF At
<1>4. x.sec = a /\ x.step = b /\ x.i = c /\ x.n = d /\ x.site = e
  BY <1>1
<1>5. \A s : /\ At(x, s).step = s /\ At(x, s).sec = a /\ At(x, s).i = c
             /\ At(x, s).n = d /\ At(x, s).site = e
  BY <1>2
<1>6. \A s : Shaped(At(x, s))
  BY <1>2, <1>5 DEF Shaped
<1>7. At(x, x.step) = x
  BY <1>1, <1>2, <1>4
<1>8. QED
  BY <1>2, <1>3, <1>4, <1>5, <1>6, <1>7

\* The beginning of a section.
LEMMA StartIs ==
  ASSUME NEW sec \in 1 .. 5
  PROVE  /\ Start(sec).sec = sec /\ Start(sec).i = 0 /\ Start(sec).n = 0 /\ Start(sec).site = 0
         /\ Start(sec).step = IF sec > 4 THEN "end" ELSE IF style = "concise" THEN "count"
                              ELSE IF Order[sec] = "time" THEN "malloc" ELSE "gate"
         /\ Start(sec).step \in {"end", "count", "malloc", "gate"}
<1>1. PICK step : step = (IF sec > 4 THEN "end" ELSE IF style = "concise" THEN "count"
                          ELSE IF Order[sec] = "time" THEN "malloc" ELSE "gate")
  OBVIOUS
<1>2. Start(sec) = [[Outside EXCEPT !.sec = sec] EXCEPT !.step = step]
  BY <1>1 DEF Start
<1>3. Start(sec) = [sec |-> sec, step |-> step, i |-> 0, n |-> 0, site |-> 0]
  BY <1>2 DEF Outside
<1>4. QED
  BY <1>1, <1>3

\* A section is finished.
LEMMA MoveOn ==
  ASSUME NEW n \in 1 .. 4, NEW P, NEW L, GivenUp(L), AllTyped(P), Behind(n, P, L), Ahead(n, P),
         Order[n] \in L \/ Done(Order[n], P[Order[n]]),
         opt.collective, opt.detail, style \in {"verbose", "concise"}
  PROVE  Sound(Start(n + 1), P, L, <<>>)
<1>1. PICK y : y = Start(n + 1)
  OBVIOUS
<1>2. n + 1 \in 1 .. 5
  OBVIOUS
<1>3. /\ y.sec = n + 1 /\ y.i = 0 /\ y.n = 0 /\ y.site = 0
      /\ y.step = IF n + 1 > 4 THEN "end" ELSE IF style = "concise" THEN "count"
                  ELSE IF Order[n + 1] = "time" THEN "malloc" ELSE "gate"
      /\ y.step \in {"end", "count", "malloc", "gate"}
  BY <1>1, <1>2, StartIs
<1>4. y.step \notin OfASite /\ y.step \notin Reductions /\ y.step \notin {"total", "gather", "max", "sum", "tasks"}
  BY <1>3 DEF OfASite, Reductions
<1>5. Place(y)
  BY <1>3, <1>4 DEF Place
<1>6. Received(y, <<>>)
  BY <1>4 DEF Received
<1>7. Behind(y.sec, P, L)
  BY <1>3 DEF Behind
<1>8. Ahead(y.sec, P)
  BY <1>3 DEF Ahead
<1>9. Current(y, P)
  BY <1>3, <1>4 DEF Current, Ahead
<1>10. QED
  BY <1>1, <1>5, <1>6, <1>7, <1>8, <1>9 DEF Sound

\* A call site is finished.
LEMMA MoveToSite ==
  ASSUME Tables, NEW x, Shaped(x), x.sec \in 1 .. 4, x.i \in Nat, x.n \in Nat, x.i <= x.n,
         x.n = Cardinality(Listed(Order[x.sec])), x.site \in Site \cup {0},
         NEW P, NEW L, GivenUp(L), AllTyped(P), Behind(x.sec, P, L), Ahead(x.sec, P),
         Progress(Order[x.sec], P[Order[x.sec]], x.i),
         opt.collective, opt.detail, style \in {"verbose", "concise"}
  PROVE  Sound(NextSite(x), P, L, <<>>)
<1>1. CASE x.i >= x.n
  <2>1. NextSite(x) = Start(x.sec + 1)
    BY <1>1 DEF NextSite
  <2>2. Progress(Order[x.sec], P[Order[x.sec]], Cardinality(Listed(Order[x.sec])))
    <3>1. x.i = x.n
      BY <1>1
    <3>2. QED
      BY <3>1
  <2>3. Done(Order[x.sec], P[Order[x.sec]])
    BY <2>2, OrderIs, ProgressEnds
  <2>4. QED
    BY <2>1, <2>3, MoveOn
<1>2. CASE ~(x.i >= x.n)
  <2>1. PICK step : step = IF style = "concise" \/ Order[x.sec] = "time" THEN "site" ELSE "total"
    OBVIOUS
  <2>2. step \in {"site", "total"} /\ step \in OfASite /\ step # "end"
        /\ step \notin Reductions /\ step # "gather" /\ step \notin {"max", "sum", "tasks"}
    BY <2>1 DEF OfASite, Reductions
  <2>3. PICK y : y = NextSite(x)
    OBVIOUS
  <2>4. y = [x EXCEPT !.i = x.i + 1, !.step = step]
    BY <1>2, <2>1, <2>3 DEF NextSite
  <2>5. y = [sec |-> x.sec, step |-> step, i |-> x.i + 1, n |-> x.n, site |-> x.site]
    BY <2>4 DEF Shaped
  <2>6. y.sec = x.sec /\ y.step = step /\ y.i = x.i + 1 /\ y.n = x.n /\ y.site = x.site
    BY <2>5
  <2>7. Place(y)
    BY <2>1, <2>2, <2>6 DEF Place
  <2>8. Received(y, <<>>)
    BY <2>2, <2>6 DEF Received
  <2>9. Current(y, P)
    <3>1. x.i + 1 - 1 = x.i
      OBVIOUS
    <3>2. QED
      BY <2>2, <2>6, <3>1 DEF Current
  <2>10. QED
    BY <2>3, <2>6, <2>7, <2>8, <2>9 DEF Sound
<1>3. QED
  BY <1>1, <1>2

\* Rows are put at a section.
PutAt(Q, P, o, rows) == Q = [P EXCEPT ![o] = rows]

\* The other sections stay as they are.
LEMMA PrintedTo ==
  ASSUME NEW n \in 1 .. 4, NEW P, NEW L, AllTyped(P), Behind(n, P, L), Ahead(n, P),
         NEW rows, Typed(rows), NEW Q, PutAt(Q, P, Order[n], rows)
  PROVE  AllTyped(Q) /\ Behind(n, Q, L) /\ Ahead(n, Q) /\ Q[Order[n]] = rows
<1>1. Order[n] \in Sections
  BY OrderIs
<1>2. PICK o : o = Order[n]
  OBVIOUS
<1>3. Q = [sec \in Sections |-> IF sec = o THEN rows ELSE P[sec]]
  BY <1>2 DEF AllTyped, PutAt
<1>4. Q[o] = rows /\ \A sec \in Sections : sec # o => Q[sec] = P[sec]
  BY <1>1, <1>2, <1>3
<1>5. \A k \in 1 .. 4 : k # n => Order[k] \in Sections /\ Q[Order[k]] = P[Order[k]]
  BY <1>2, <1>4, OrderIs
<1>6. AllTyped(Q)
  <2>1. Q = [sec \in Sections |-> Q[sec]]
    BY <1>3
  <2>2. \A sec \in Sections : Typed(Q[sec])
    BY <1>4 DEF AllTyped
  <2>3. QED
    BY <2>1, <2>2 DEF AllTyped
<1>7. Behind(n, Q, L)
  BY <1>5 DEF Behind
<1>8. Ahead(n, Q)
  BY <1>5 DEF Ahead
<1>9. QED
  BY <1>2, <1>4, <1>6, <1>7, <1>8

-----------------------------------------------------------------------------
(* A report goes on. *)

\* What is known of a place in a report.
LEMMA InPrint ==
  ASSUME Tables, NEW x, Proper(x), NEW P, NEW L, NEW D, Sound(x, P, L, D), x.step # "end"
  PROVE  /\ x.sec \in 1 .. 4 /\ Order[x.sec] \in Sections /\ x.i \in Nat /\ x.n \in Nat /\ x.i <= x.n
         /\ opt.collective /\ opt.detail /\ style \in {"verbose", "concise"} /\ x.site \in Site \cup {0}
         /\ GivenUp(L) /\ AllTyped(P) /\ Behind(x.sec, P, L) /\ Ahead(x.sec, P)
         /\ x.step \in Steps
         /\ x.step \notin OfASite => P[Order[x.sec]] = <<>> /\ x.i = 0
         /\ x.step \in OfASite =>
              /\ Progress(Order[x.sec], P[Order[x.sec]], x.i - 1)
              /\ x.n = Cardinality(Listed(Order[x.sec])) /\ x.i \in 1 .. x.n
              /\ av(Order[x.sec])[x.i] \in Listed(Order[x.sec])
              /\ av(Order[x.sec])[x.i] \in AggSites
              /\ av(Order[x.sec])[x.i] \in Site
              /\ UpTo(av(Order[x.sec]), x.i) = UpTo(av(Order[x.sec]), x.i - 1) \cup {av(Order[x.sec])[x.i]}
<1>1. x.sec \in 1 .. 4 /\ Order[x.sec] \in Sections
  <2>1. x.sec \in 1 .. 5 /\ x.sec # 5
    BY DEF Proper
  <2>2. x.sec \in 1 .. 4
    BY <2>1
  <2>3. QED
    BY <2>2, OrderIs
<1>2. /\ opt.collective /\ opt.detail /\ style \in {"verbose", "concise"} /\ x.site \in Site \cup {0}
      /\ GivenUp(L) /\ AllTyped(P) /\ Behind(x.sec, P, L) /\ Ahead(x.sec, P)
  BY DEF Sound, Place
<1>3. x.step \in Steps /\ x.i \in Nat /\ x.n \in Nat /\ x.i <= x.n
  BY DEF Proper
<1>4. x.step \notin OfASite => P[Order[x.sec]] = <<>> /\ x.i = 0
  BY <1>1 DEF Sound, Place, Current
<1>5. ASSUME x.step \in OfASite
      PROVE  /\ Progress(Order[x.sec], P[Order[x.sec]], x.i - 1)
             /\ x.n = Cardinality(Listed(Order[x.sec])) /\ x.i \in 1 .. x.n
             /\ av(Order[x.sec])[x.i] \in Listed(Order[x.sec])
             /\ av(Order[x.sec])[x.i] \in AggSites
             /\ av(Order[x.sec])[x.i] \in Site
             /\ UpTo(av(Order[x.sec]), x.i) = UpTo(av(Order[x.sec]), x.i - 1) \cup {av(Order[x.sec])[x.i]}
  <2>1. Progress(Order[x.sec], P[Order[x.sec]], x.i - 1)
    BY <1>1, <1>5 DEF Sound, Current
  <2>2. x.n = Cardinality(Listed(Order[x.sec])) /\ x.i \in 1 .. x.n
    BY <1>5 DEF Proper
  <2>3. av(Order[x.sec])[x.i] \in Listed(Order[x.sec])
    BY <1>1, <2>2, ListIs
  <2>4. av(Order[x.sec])[x.i] \in AggSites
    BY <2>3 DEF Listed
  <2>5. av(Order[x.sec])[x.i] \in Site
    BY <1>1, <2>4, AggTotalType
  <2>6. PICK f : f = av(Order[x.sec])
    OBVIOUS
  <2>7. PICK i \in Nat : i = x.i /\ i >= 1
    BY <1>3, <2>2
  <2>8. UpTo(f, i) = UpTo(f, i - 1) \cup {f[i]}
    <3>1. \A j \in 1 .. i : j \in 1 .. (i - 1) \/ j = i
      BY <2>7
    <3>2. \A j \in 1 .. (i - 1) : j \in 1 .. i
      BY <2>7
    <3>3. i \in 1 .. i
      BY <2>7
    <3>4. QED
      BY <3>1, <3>2, <3>3 DEF UpTo
  <2>9. QED
    BY <2>1, <2>2, <2>3, <2>4, <2>5, <2>6, <2>7, <2>8
<1>6. QED
  BY <1>1, <1>2, <1>3, <1>4, <1>5

\* A call site is finished, and the rows up to it are printed.
LEMMA SiteFinished ==
  ASSUME Tables, NEW x, Shaped(x), Proper(x), NEW P, NEW L, NEW D, Sound(x, P, L, D), x.step \in OfASite,
         NEW rows, Progress(Order[x.sec], rows, x.i),
         NEW Q, PutAt(Q, P, Order[x.sec], rows)
  PROVE  Sound(NextSite(x), Q, L, <<>>)
<1>1. x.step # "end"
  BY DEF OfASite
<1>2. /\ x.sec \in 1 .. 4 /\ Order[x.sec] \in Sections /\ x.i \in Nat /\ x.n \in Nat /\ x.i <= x.n
      /\ opt.collective /\ opt.detail /\ style \in {"verbose", "concise"} /\ x.site \in Site \cup {0}
      /\ GivenUp(L) /\ AllTyped(P) /\ Behind(x.sec, P, L) /\ Ahead(x.sec, P)
      /\ x.n = Cardinality(Listed(Order[x.sec]))
  BY <1>1, InPrint
<1>3. Typed(rows)
  BY <1>2 DEF Progress, Typed
<1>4. AllTyped(Q) /\ Behind(x.sec, Q, L) /\ Ahead(x.sec, Q) /\ Q[Order[x.sec]] = rows
  <2>1. PICK n \in 1 .. 4 : n = x.sec
    BY <1>2
  <2>2. PutAt(Q, P, Order[n], rows) /\ AllTyped(P) /\ Behind(n, P, L) /\ Ahead(n, P)
    BY <1>2, <2>1
  <2>3. AllTyped(Q) /\ Behind(n, Q, L) /\ Ahead(n, Q) /\ Q[Order[n]] = rows
    BY <1>3, <2>2, PrintedTo
  <2>4. QED
    BY <2>1, <2>3
<1>5. Progress(Order[x.sec], Q[Order[x.sec]], x.i)
  BY <1>4
<1>6. QED
  BY <1>2, <1>4, <1>5, MoveToSite

\* In a section of bytes nothing is shown of call sites that moved none.
LEMMA NothingMoved ==
  ASSUME Tables, NEW sec \in Sections \ {"time"}, NEW s
  PROVE  /\ (\A r \in Records : r.cum[sec] = 0) => Part(s, sec) = {}
         /\ ~(AggTotal(s, sec) > 0) => Part(s, sec) = {}
<1>1. PICK T : T = {r \in Records : r.site = s}
  OBVIOUS
<1>2. RecordSet(T) /\ RecordSet(Records) /\ T \subseteq Records
  BY <1>1, RecordSubset DEF Tables
<1>3. ASSUME NEW r \in Part(s, sec) PROVE r \in Records /\ r.cum[sec] # 0 /\ AggTotal(s, sec) > 0
  <2>1. r \in T /\ r \in Records /\ r.cum[sec] > 0
    BY <1>1, <1>3 DEF Part, OfSite
  <2>2. r.cum[sec] <= TotalOf(T, sec)
    BY <1>2, <2>1, TotalAbove
  <2>3. r.cum[sec] \in Nat /\ TotalOf(T, sec) \in Nat
    BY <1>2, <2>1, TotalType, RecordFields DEF RecordSet
  <2>4. TotalOf(T, sec) > 0 /\ r.cum[sec] # 0
    BY <2>1, <2>2, <2>3
  <2>5. QED
    BY <1>1, <2>1, <2>4 DEF AggTotal
<1>4. QED
  BY <1>3

\* The collector broadcasts whether there is anything to print.
LEMMA GateSound ==
  ASSUME Tables, NEW x, Shaped(x), Proper(x), NEW P, NEW L, NEW D, Sound(x, P, L, D), x.step = "gate",
         NEW total, Reached(total), NEW v, v = total[Order[x.sec]]
  PROVE  Sound(After(x, v), P, L, D)
<1>1. /\ x.sec \in 1 .. 4 /\ Order[x.sec] \in Sections
      /\ opt.collective /\ opt.detail /\ style \in {"verbose", "concise"}
      /\ GivenUp(L) /\ AllTyped(P) /\ Behind(x.sec, P, L) /\ Ahead(x.sec, P)
  BY InPrint
<1>2. x.step \notin OfASite /\ x.step \notin {"max", "sum", "tasks"}
  BY DEF OfASite
<1>3. P[Order[x.sec]] = <<>> /\ D = <<>> /\ style = "verbose" /\ Order[x.sec] # "time"
  <2>1. P[Order[x.sec]] = <<>>
    BY <1>2, InPrint
  <2>2. D = <<>>
    BY <1>2 DEF Sound, Received
  <2>3. style = "verbose" /\ Order[x.sec] # "time"
    BY DEF Sound, Place
  <2>4. QED
    BY <2>1, <2>2, <2>3
<1>4. After(x, v) = IF v > 0 THEN At(x, "malloc") ELSE Start(x.sec + 1)
  BY DEF After, AfterHeader, KindOf, At
<1>5. CASE v > 0
  <2>1. PICK y : y = At(x, "malloc")
    OBVIOUS
  <2>2. y.step = "malloc" /\ y.sec = x.sec /\ y.i = x.i /\ y.n = x.n /\ y.site = x.site
    BY <2>1, AtIs
  <2>3. y.step \notin OfASite /\ y.step \notin {"max", "sum", "tasks", "gather", "gate", "total"}
        /\ y.step \notin Reductions
    BY <2>2 DEF OfASite, Reductions
  <2>4. Place(y)
    BY <1>2, <2>2, <2>3 DEF Sound, Place
  <2>5. Received(y, D)
    BY <1>3, <2>3 DEF Received
  <2>6. Current(y, P)
    BY <1>3, <2>2, <2>3 DEF Current
  <2>7. Sound(y, P, L, D)
    BY <1>1, <2>2, <2>4, <2>5, <2>6 DEF Sound
  <2>8. QED
    BY <1>4, <1>5, <2>1, <2>7
<1>6. CASE ~(v > 0)
  <2>1. PICK sec : sec = Order[x.sec]
    OBVIOUS
  <2>2. sec \in Sections \ {"time"} /\ sec \in {"sent", "io", "rma"} /\ v = total[sec]
    BY <1>1, <1>3, <2>1 DEF Sections
  <2>3. v = 0
    BY <1>6, <2>2 DEF Reached, Uncleared
  <2>4. \A r \in Records : r.cum[sec] = 0
    BY <2>2, <2>3 DEF Reached
  <2>5. \A s \in AggSites : Part(s, sec) = {}
    BY <2>2, <2>4, NothingMoved
  <2>6. ExactRows(<<>>, sec, AggSites)
    BY <2>5, NoRows
  <2>7. Done(Order[x.sec], P[Order[x.sec]])
    BY <1>3, <2>1, <2>6 DEF Done
  <2>8. Sound(Start(x.sec + 1), P, L, <<>>)
    BY <1>1, <2>7, MoveOn
  <2>9. QED
    BY <1>3, <1>4, <1>6, <2>8
<1>7. QED
  BY <1>5, <1>6

\* The collector broadcasts whether it has memory.
LEMMA MallocSound ==
  ASSUME Tables, NEW x, Shaped(x), Proper(x), NEW P, NEW L, NEW D, Sound(x, P, L, D), x.step = "malloc",
         NEW v \in 0 .. 1, NEW M, M = IF v = 0 THEN L \cup {Order[x.sec]} ELSE L
  PROVE  Sound(After(x, v), P, M, D)
<1>1. /\ x.sec \in 1 .. 4 /\ Order[x.sec] \in Sections
      /\ opt.collective /\ opt.detail /\ style \in {"verbose", "concise"}
      /\ GivenUp(L) /\ AllTyped(P) /\ Behind(x.sec, P, L) /\ Ahead(x.sec, P)
  BY InPrint
<1>2. x.step \notin OfASite /\ x.step \notin {"max", "sum", "tasks"}
  BY DEF OfASite
<1>3. P[Order[x.sec]] = <<>> /\ D = <<>> /\ style = "verbose"
  <2>1. P[Order[x.sec]] = <<>>
    BY <1>2, InPrint
  <2>2. D = <<>>
    BY <1>2 DEF Sound, Received
  <2>3. style = "verbose"
    BY DEF Sound, Place
  <2>4. QED
    BY <2>1, <2>2, <2>3
<1>4. After(x, v) = IF v = 1 THEN At(x, "count") ELSE Start(x.sec + 1)
  BY DEF After, AfterHeader, KindOf, At
<1>5. CASE v = 1
  <2>1. PICK y : y = At(x, "count")
    OBVIOUS
  <2>2. y.step = "count" /\ y.sec = x.sec /\ y.i = x.i /\ y.n = x.n /\ y.site = x.site
    BY <2>1, AtIs
  <2>3. y.step \notin OfASite /\ y.step \notin {"max", "sum", "tasks", "gather", "gate", "total", "malloc"}
        /\ y.step \notin Reductions
    BY <2>2 DEF OfASite, Reductions
  <2>4. Place(y)
    BY <1>2, <2>2, <2>3 DEF Sound, Place
  <2>5. Received(y, D)
    BY <1>3, <2>3 DEF Received
  <2>6. Current(y, P)
    BY <1>3, <2>2, <2>3 DEF Current
  <2>7. Sound(y, P, L, D)
    BY <1>1, <2>2, <2>4, <2>5, <2>6 DEF Sound
  <2>8. QED
    BY <1>4, <1>5, <2>1, <2>7
<1>6. CASE v = 0
  <2>1. PICK sec : sec = Order[x.sec]
    OBVIOUS
  <2>2. M = L \cup {sec} /\ sec \in M
    BY <1>6, <2>1
  <2>3. GivenUp(M)
    BY <1>1, <1>3, <2>1, <2>2 DEF GivenUp
  <2>4. Behind(x.sec, P, M)
    BY <1>1, <2>2 DEF Behind
  <2>5. Sound(Start(x.sec + 1), P, M, <<>>)
    BY <1>1, <2>1, <2>2, <2>3, <2>4, MoveOn
  <2>6. QED
    BY <1>3, <1>4, <1>6, <2>5
<1>7. QED
  BY <1>5, <1>6

\* The collector broadcasts how many call sites the section goes through.
LEMMA CountSound ==
  ASSUME Tables, NEW x, Shaped(x), Proper(x), NEW P, NEW L, NEW D, Sound(x, P, L, D), x.step = "count",
         NEW v, v = Cardinality(Listed(Order[x.sec]))
  PROVE  Sound(After(x, v), P, L, D)
<1>1. /\ x.sec \in 1 .. 4 /\ Order[x.sec] \in Sections /\ x.site \in Site \cup {0}
      /\ opt.collective /\ opt.detail /\ style \in {"verbose", "concise"}
      /\ GivenUp(L) /\ AllTyped(P) /\ Behind(x.sec, P, L) /\ Ahead(x.sec, P)
  BY InPrint
<1>2. x.step \notin OfASite /\ x.step \notin {"max", "sum", "tasks"}
  BY DEF OfASite
<1>3. P[Order[x.sec]] = <<>> /\ x.i = 0
  BY <1>2, InPrint
<1>4. D = <<>>
  BY <1>2 DEF Sound, Received
<1>5. v \in Nat
  BY <1>1, ListIs
<1>6. PICK y : y = [x EXCEPT !.n = v]
  OBVIOUS
<1>7. Shaped(y) /\ y.sec = x.sec /\ y.i = 0 /\ y.n = v /\ y.site = x.site
  BY <1>3, <1>6 DEF Shaped
<1>8. After(x, v) = NextSite(y)
  BY <1>6 DEF After, AfterHeader, KindOf
<1>9. Progress(Order[y.sec], P[Order[y.sec]], y.i)
  BY <1>3, <1>7, ProgressStarts
<1>10. y.i <= y.n
  BY <1>5, <1>7
<1>11. Sound(NextSite(y), P, L, <<>>)
  BY <1>1, <1>5, <1>7, <1>9, <1>10, MoveToSite
<1>12. QED
  BY <1>4, <1>8, <1>11

\* A sequence is the same when an element of it is put in its place.
LEMMA SamePlaced ==
  ASSUME NEW P, AllTyped(P), NEW o \in Sections
  PROVE  PutAt(P, P, o, P[o])
BY DEF AllTyped, PutAt

\* The collector broadcasts the total of the call site in turn.
LEMMA TotalSound ==
  ASSUME Tables, NEW x, Shaped(x), Proper(x), NEW P, NEW L, NEW D, Sound(x, P, L, D), x.step = "total",
         NEW v, v = AggTotal(av(Order[x.sec])[x.i], Order[x.sec])
  PROVE  Sound(After(x, v), P, L, D)
<1>1. x.step \in OfASite /\ x.step # "end" /\ x.step \notin {"max", "sum", "tasks"}
  BY DEF OfASite
<1>2. /\ x.sec \in 1 .. 4 /\ Order[x.sec] \in Sections /\ GivenUp(L) /\ AllTyped(P)
      /\ Behind(x.sec, P, L) /\ Ahead(x.sec, P)
      /\ Progress(Order[x.sec], P[Order[x.sec]], x.i - 1)
      /\ UpTo(av(Order[x.sec]), x.i) = UpTo(av(Order[x.sec]), x.i - 1) \cup {av(Order[x.sec])[x.i]}
  BY <1>1, InPrint
<1>3. style = "verbose" /\ Order[x.sec] # "time" /\ D = <<>>
  BY <1>1 DEF Sound, Place, Received
<1>4. After(x, v) = IF v > 0 THEN At(x, "site") ELSE NextSite(x)
  BY DEF After, AfterSite, KindOf, At
<1>5. CASE v > 0
  <2>1. PICK y : y = At(x, "site")
    OBVIOUS
  <2>2. y.step = "site" /\ y.sec = x.sec /\ y.i = x.i /\ y.n = x.n /\ y.site = x.site
    BY <2>1, AtIs
  <2>3. y.step \in OfASite /\ y.step \notin {"max", "sum", "tasks", "gather", "gate", "total", "malloc"}
        /\ y.step \notin Reductions
    BY <2>2 DEF OfASite, Reductions
  <2>4. Place(y)
    BY <1>1, <2>2, <2>3 DEF Sound, Place
  <2>5. Received(y, D)
    BY <1>3, <2>3 DEF Received
  <2>6. Current(y, P)
    BY <1>2, <2>2, <2>3 DEF Current
  <2>7. Sound(y, P, L, D)
    BY <1>2, <2>2, <2>4, <2>5, <2>6 DEF Sound
  <2>8. QED
    BY <1>4, <1>5, <2>1, <2>7
<1>6. CASE ~(v > 0)
  <2>1. PICK sec : sec = Order[x.sec]
    OBVIOUS
  <2>2. PICK s : s = av(sec)[x.i]
    OBVIOUS
  <2>3. Part(s, sec) = {}
    BY <1>2, <1>3, <1>6, <2>1, <2>2, NothingMoved
  <2>4. P[sec] \in Seq(RowType) /\ ExactRows(P[sec], sec, UpTo(av(sec), x.i - 1))
    BY <1>2, <1>3, <2>1 DEF Progress
  <2>5. ExactRows(P[sec], sec, UpTo(av(sec), x.i - 1) \cup {s})
    BY <2>3, <2>4, NothingMore
  <2>6. Progress(sec, P[sec], x.i)
    BY <1>2, <1>3, <2>1, <2>2, <2>4, <2>5 DEF Progress
  <2>7. PutAt(P, P, sec, P[sec])
    BY <1>2, <2>1, SamePlaced
  <2>8. Sound(NextSite(x), P, L, <<>>)
    BY <1>1, <2>1, <2>6, <2>7, SiteFinished
  <2>9. QED
    BY <1>3, <1>4, <1>6, <2>8
<1>7. QED
  BY <1>5, <1>6

\* The collector broadcasts the call site in turn.
LEMMA SiteSound ==
  ASSUME Tables, NEW x, Shaped(x), Proper(x), NEW P, NEW L, NEW D, Sound(x, P, L, D), x.step = "site",
         NEW v, v = av(Order[x.sec])[x.i]
  PROVE  Sound(After(x, v), P, L, D)
<1>1. x.step \in OfASite /\ x.step # "end" /\ x.step \notin {"max", "sum", "tasks"}
  BY DEF OfASite
<1>2. /\ x.sec \in 1 .. 4 /\ Order[x.sec] \in Sections /\ GivenUp(L) /\ AllTyped(P)
      /\ Behind(x.sec, P, L) /\ Ahead(x.sec, P) /\ style \in {"verbose", "concise"}
      /\ opt.collective /\ opt.detail
      /\ Progress(Order[x.sec], P[Order[x.sec]], x.i - 1)
      /\ av(Order[x.sec])[x.i] \in Site
  BY <1>1, InPrint
<1>3. D = <<>>
  BY <1>1 DEF Sound, Received
<1>4. PICK step : step = IF style = "verbose" THEN "gather" ELSE "min"
  OBVIOUS
<1>5. PICK y : y = After(x, v)
  OBVIOUS
<1>6. y = [x EXCEPT !.site = v, !.step = step]
  BY <1>4, <1>5 DEF After, AfterSite, KindOf
<1>7. y.step = step /\ y.sec = x.sec /\ y.i = x.i /\ y.n = x.n /\ y.site = v
  BY <1>6 DEF Shaped
<1>8. /\ y.step \in OfASite /\ y.step # "end"
      /\ y.step \notin {"max", "sum", "tasks", "gate", "total", "malloc"}
      /\ (y.step = "gather" => style = "verbose") /\ (y.step \in Reductions => style = "concise")
  BY <1>2, <1>4, <1>7 DEF OfASite, Reductions
<1>9. Place(y)
  BY <1>2, <1>7, <1>8 DEF Place
<1>10. Received(y, D)
  BY <1>3, <1>8 DEF Received
<1>11. Current(y, P)
  BY <1>2, <1>7, <1>8 DEF Current
<1>12. Sound(y, P, L, D)
  BY <1>2, <1>7, <1>9, <1>10, <1>11 DEF Sound
<1>13. QED
  BY <1>5, <1>12

\* The records of the call site are gathered.
LEMMA GatherSound ==
  ASSUME Tables, NEW x, Shaped(x), Proper(x), NEW P, NEW L, NEW D, Sound(x, P, L, D), x.step = "gather",
         NEW Q, Q = [P EXCEPT ![Order[x.sec]] = @ \o GatheredRows(x)]
  PROVE  Sound(After(x, 0), Q, L, D)
<1>1. x.step \in OfASite /\ x.step # "end" /\ x.step \notin {"max", "sum", "tasks"}
      /\ x.step \in Reductions \cup {"gather"}
  BY DEF OfASite
<1>2. PICK sec : sec = Order[x.sec]
  OBVIOUS
<1>3. PICK f : f = av(sec)
  OBVIOUS
<1>4. /\ x.sec \in 1 .. 4 /\ sec \in Sections /\ AllTyped(P) /\ opt.collective
      /\ Progress(sec, P[sec], x.i - 1)
      /\ x.n = Cardinality(Listed(sec)) /\ x.i \in 1 .. x.n /\ f[x.i] \in Site
      /\ x.i \in Nat /\ x.n \in Nat
      /\ UpTo(f, x.i) = UpTo(f, x.i - 1) \cup {f[x.i]}
  BY <1>1, <1>2, <1>3, InPrint
<1>5. style = "verbose" /\ D = <<>> /\ x.site = f[x.i]
  BY <1>1, <1>2, <1>3 DEF Sound, Place, Received
<1>6. PICK a : a = P[sec]
  OBVIOUS
<1>7. PICK b : b = GatheredRows(x)
  OBVIOUS
<1>8. a \in Seq(RowType) /\ ExactRows(a, sec, UpTo(f, x.i - 1))
  BY <1>3, <1>4, <1>5, <1>6 DEF Progress
<1>9. b \in Seq(RowType) /\ ExactRows(b, sec, {x.site})
  BY <1>2, <1>4, <1>5, <1>7, GatheredExact
<1>10. \A s \in UpTo(f, x.i - 1), q \in {x.site} : s < q
  <2>0. PICK n \in Nat : n = x.n
    BY <1>4
  <2>1. PICK i \in 1 .. n : i = x.i
    BY <1>4, <2>0
  <2>2. \A k, l \in 1 .. n : k < l => f[k] < f[l]
    BY <1>3, <1>4, <1>5, <2>0, ListIs
  <2>3. \A k \in 1 .. (i - 1) : f[k] < f[i]
    BY <2>1, <2>2
  <2>4. QED
    BY <1>5, <2>1, <2>3 DEF UpTo
<1>11. ExactRows(a \o b, sec, UpTo(f, x.i - 1) \cup {x.site})
  BY <1>8, <1>9, <1>10, ExactTogether
<1>12. PICK rows : rows = a \o b
  OBVIOUS
<1>13. rows \in Seq(RowType) /\ ExactRows(rows, sec, UpTo(f, x.i))
  BY <1>4, <1>5, <1>8, <1>9, <1>11, <1>12
<1>14. Progress(sec, rows, x.i)
  BY <1>3, <1>5, <1>13 DEF Progress
<1>15. PutAt(Q, P, sec, rows)
  BY <1>2, <1>6, <1>7, <1>12 DEF PutAt
<1>16. After(x, 0) = NextSite(x)
  BY DEF After, AfterSite, KindOf
<1>17. QED
  BY <1>1, <1>2, <1>5, <1>14, <1>15, <1>16, SiteFinished

\* Sequences of two and of three.
LEMMA Longer ==
  /\ \A a, b : Append(<<a>>, b) = <<a, b>>
  /\ \A a, b, c : Append(<<a, b>>, c) = <<a, b, c>>
<1>1. ASSUME NEW a, NEW b PROVE Append(<<a>>, b) = <<a, b>>
  <2>1. PICK s, t : s = Append(<<a>>, b) /\ t = <<a, b>>
    OBVIOUS
  <2>2. s = [i \in 1 .. 2 |-> IF i = 1 THEN a ELSE b]
    BY <2>1
  <2>3. t = [i \in 1 .. 2 |-> IF i = 1 THEN a ELSE b]
    BY <2>1
  <2>4. QED
    BY <2>1, <2>2, <2>3
<1>2. ASSUME NEW a, NEW b, NEW c PROVE Append(<<a, b>>, c) = <<a, b, c>>
  <2>1. PICK s, t : s = Append(<<a, b>>, c) /\ t = <<a, b, c>>
    OBVIOUS
  <2>2. s = [i \in 1 .. 3 |-> IF i = 1 THEN a ELSE IF i = 2 THEN b ELSE c]
    BY <2>1
  <2>3. t = [i \in 1 .. 3 |-> IF i = 1 THEN a ELSE IF i = 2 THEN b ELSE c]
    BY <2>1
  <2>4. QED
    BY <2>1, <2>2, <2>3
<1>3. QED
  BY <1>1, <1>2

\* One of the first three reductions.
LEMMA ReductionSound ==
  ASSUME Tables, NEW x, Shaped(x), Proper(x), NEW P, NEW L, NEW D, Sound(x, P, L, D),
         x.step \in {"min", "max", "sum"}
  PROVE  Sound(After(x, 0), P, L, Append(D, Reduced(x)))
<1>1. x.step \in OfASite /\ x.step # "end" /\ x.step \in Reductions
  BY DEF OfASite, Reductions
<1>2. /\ x.sec \in 1 .. 4 /\ GivenUp(L) /\ AllTyped(P) /\ Behind(x.sec, P, L) /\ Ahead(x.sec, P)
      /\ Progress(Order[x.sec], P[Order[x.sec]], x.i - 1)
      /\ opt.collective /\ opt.detail /\ style \in {"verbose", "concise"} /\ x.site \in Site \cup {0}
  BY <1>1, InPrint
<1>3. style = "concise" /\ x.site = av(Order[x.sec])[x.i]
  BY <1>1 DEF Sound, Place
<1>4. PICK step : step = IF x.step = "min" THEN "max" ELSE IF x.step = "max" THEN "sum" ELSE "tasks"
  OBVIOUS
<1>5. After(x, 0) = At(x, step)
  BY <1>4 DEF After, AfterReduction, KindOf, At
<1>6. PICK y : y = At(x, step)
  OBVIOUS
<1>7. /\ y.step = step /\ y.sec = x.sec /\ y.i = x.i /\ y.n = x.n /\ y.site = x.site
      /\ At(x, x.step) = x
  BY <1>6, AtIs
<1>8. \A u : At(y, u) = At(x, u)
  BY <1>6, AtIs
<1>9. /\ y.step \in OfASite /\ y.step \in Reductions /\ y.step \in {"max", "sum", "tasks"}
      /\ y.step \notin {"end", "gather", "gate", "total", "malloc"}
  BY <1>4, <1>7 DEF OfASite, Reductions
<1>10. Place(y)
  BY <1>2, <1>3, <1>7, <1>9 DEF Place
<1>11. PICK a, b, c : a = Reduced(At(x, "min")) /\ b = Reduced(At(x, "max")) /\ c = Reduced(At(x, "sum"))
  OBVIOUS
<1>12. PICK d : d = Reduced(x)
  OBVIOUS
<1>13. PICK E : E = Append(D, d)
  OBVIOUS
<1>14. Received(y, E)
  <2>1. CASE x.step = "min"
    <3>1. D = <<>> /\ d = a /\ step = "max"
      BY <1>4, <1>7, <1>11, <1>12, <2>1 DEF Sound, Received
    <3>2. E = <<a>>
      BY <1>13, <3>1
    <3>3. QED
      BY <1>7, <1>8, <1>11, <3>1, <3>2 DEF Received
  <2>2. CASE x.step = "max"
    <3>1. D = <<a>> /\ d = b /\ step = "sum"
      BY <1>4, <1>7, <1>11, <1>12, <2>2 DEF Sound, Received
    <3>2. E = <<a, b>>
      BY <1>13, <3>1, Longer
    <3>3. QED
      BY <1>7, <1>8, <1>11, <3>1, <3>2 DEF Received
  <2>3. CASE x.step = "sum"
    <3>1. D = <<a, b>> /\ d = c /\ step = "tasks"
      BY <1>4, <1>7, <1>11, <1>12, <2>3 DEF Sound, Received
    <3>2. E = <<a, b, c>>
      BY <1>13, <3>1, Longer
    <3>3. QED
      BY <1>7, <1>8, <1>11, <3>1, <3>2 DEF Received
  <2>4. QED
    BY <2>1, <2>2, <2>3
<1>15. Current(y, P)
  BY <1>2, <1>7, <1>9 DEF Current
<1>16. Sound(y, P, L, E)
  BY <1>2, <1>7, <1>10, <1>14, <1>15 DEF Sound
<1>17. QED
  BY <1>5, <1>6, <1>12, <1>13, <1>16

\* The row of four reductions.
RowOf(x, got) ==
  ConciseRow(x.site, [count |-> got[4].count, cum |-> got[3].cum,
                      max |-> got[2].max, maxRank |-> got[2].maxRank,
                      min |-> got[1].min, minRank |-> got[1].minRank])

\* A row more in a concise section.
LEMMA RowMore ==
  ASSUME NEW sec, style = "concise", NEW rows, NEW i \in Nat \ {0}, Progress(sec, rows, i - 1),
         NEW r \in ConciseType, r.site = av(sec)[i], ExactSummary(r, sec)
  PROVE  Progress(sec, Append(rows, r), i)
<1>1. PICK f : f = av(sec)
  OBVIOUS
<1>2. rows \in Seq(ConciseType) /\ Len(rows) = i - 1
      /\ \A j \in 1 .. (i - 1) : rows[j].site = f[j] /\ ExactSummary(rows[j], sec)
  BY <1>1 DEF Progress
<1>3. PICK all : all = Append(rows, r)
  OBVIOUS
<1>4. all \in Seq(ConciseType) /\ Len(all) = i /\ all[i] = r /\ \A j \in 1 .. (i - 1) : all[j] = rows[j]
  BY <1>2, <1>3
<1>5. \A j \in 1 .. i : j = i \/ j \in 1 .. (i - 1)
  OBVIOUS
<1>6. \A j \in 1 .. i : all[j].site = f[j] /\ ExactSummary(all[j], sec)
  BY <1>1, <1>2, <1>4, <1>5
<1>7. QED
  BY <1>1, <1>3, <1>4, <1>6 DEF Progress

\* The last reduction, and the row.
LEMMA TasksSound ==
  ASSUME Tables, NEW x, Shaped(x), Proper(x), NEW P, NEW L, NEW D, Sound(x, P, L, D), x.step = "tasks",
         NEW Q, PutAt(Q, P, Order[x.sec], Append(P[Order[x.sec]], RowOf(x, Append(D, Reduced(x)))))
  PROVE  Sound(After(x, 0), Q, L, <<>>)
<1>1. x.step \in OfASite /\ x.step # "end" /\ x.step \in Reductions
  BY DEF OfASite, Reductions
<1>2. PICK sec : sec = Order[x.sec]
  OBVIOUS
<1>3. /\ sec \in Sections /\ Progress(sec, P[sec], x.i - 1) /\ av(sec)[x.i] \in AggSites
      /\ x.i \in Nat /\ x.n \in Nat /\ x.i \in 1 .. x.n
  BY <1>1, <1>2, InPrint
<1>4. style = "concise" /\ x.site = av(sec)[x.i]
  BY <1>1, <1>2 DEF Sound, Place
<1>5. PICK a, b, c : a = At(x, "min") /\ b = At(x, "max") /\ c = At(x, "sum")
  OBVIOUS
<1>6. /\ a.site = x.site /\ a.step = "min" /\ a.sec = x.sec
      /\ b.site = x.site /\ b.step = "max" /\ b.sec = x.sec
      /\ c.site = x.site /\ c.step = "sum" /\ c.sec = x.sec
  BY <1>5, AtIs
<1>7. PICK got : got = Append(D, Reduced(x))
  OBVIOUS
<1>8. D = <<Reduced(a), Reduced(b), Reduced(c)>>
  BY <1>5 DEF Sound, Received
<1>9. got[1] = Reduced(a) /\ got[2] = Reduced(b) /\ got[3] = Reduced(c) /\ got[4] = Reduced(x)
  <2>1. PICK k, l, m, n : k = Reduced(a) /\ l = Reduced(b) /\ m = Reduced(c) /\ n = Reduced(x)
    OBVIOUS
  <2>2. got = Append(<<k, l, m>>, n)
    BY <1>7, <1>8, <2>1
  <2>3. got[1] = k /\ got[2] = l /\ got[3] = m /\ got[4] = n
    BY <2>2
  <2>4. QED
    BY <2>1, <2>3
<1>10. PICK r : r = RowOf(x, got)
  OBVIOUS
<1>11. PICK s \in AggSites : s = x.site
  BY <1>3, <1>4
<1>12. r = ConciseRow(s, [count |-> Reduced(x).count, cum |-> Reduced(c).cum,
                          max |-> Reduced(b).max, maxRank |-> Reduced(b).maxRank,
                          min |-> Reduced(a).min, minRank |-> Reduced(a).minRank])
  BY <1>9, <1>10, <1>11 DEF RowOf
<1>13. r \in ConciseType /\ r.site = s /\ ExactSummary(r, sec)
  BY <1>2, <1>3, <1>4, <1>6, <1>11, <1>12, ReducedExact
<1>14. Progress(sec, Append(P[sec], r), x.i)
  BY <1>3, <1>4, <1>11, <1>13, RowMore
<1>15. PutAt(Q, P, sec, Append(P[sec], r))
  BY <1>2, <1>7, <1>10
<1>16. After(x, 0) = NextSite(x)
  BY DEF After, AfterReduction, KindOf
<1>17. QED
  BY <1>1, <1>2, <1>14, <1>15, <1>16, SiteFinished

\* Where a report is printed the totals have what it adds to them.
Covered == style # "none" => Reached(totals)

\* A broadcast.
LEMMA BcastSound ==
  ASSUME Tables, Covered, NEW x, Shaped(x), Proper(x), NEW P, NEW L, NEW D, Sound(x, P, L, D), KindOf(x.step) = "Bcast",
         NEW memory \in 0 .. 1, memory = 1 \/ x.step = "malloc",
         NEW M, M = IF memory = 0 THEN L \cup {Order[x.sec]} ELSE L
  PROVE  Sound(After(x, Sent(x, memory)), P, M, D)
<1>1. PICK v : v = Sent(x, memory)
  OBVIOUS
<1>2. x.step \in {"gate", "malloc", "count", "total", "site"}
  <2>1. x.step \in Steps \cup {"end"}
    BY DEF Proper
  <2>2. QED
    BY <2>1 DEF KindOf, Steps
<1>3. memory = 1 => M = L
  OBVIOUS
<1>4. CASE x.step = "gate"
  <2>1. v = totals[Order[x.sec]] /\ M = L
    BY <1>1, <1>3, <1>4 DEF Sent
  <2>2. Reached(totals)
    BY <1>4 DEF Covered, Sound, Place
  <2>3. QED
    BY <1>1, <1>4, <2>1, <2>2, GateSound
<1>5. CASE x.step = "malloc"
  <2>1. v = memory
    BY <1>1, <1>5 DEF Sent
  <2>2. QED
    BY <1>1, <1>5, <2>1, MallocSound
<1>6. CASE x.step = "count"
  <2>1. v = Cardinality(Listed(Order[x.sec])) /\ M = L
    BY <1>1, <1>3, <1>6 DEF Sent
  <2>2. QED
    BY <1>1, <1>6, <2>1, CountSound
<1>7. CASE x.step = "total"
  <2>1. v = AggTotal(av(Order[x.sec])[x.i], Order[x.sec]) /\ M = L
    BY <1>1, <1>3, <1>7 DEF Sent
  <2>2. QED
    BY <1>1, <1>7, <2>1, TotalSound
<1>8. CASE x.step = "site"
  <2>1. v = av(Order[x.sec])[x.i] /\ M = L
    BY <1>1, <1>3, <1>8 DEF Sent
  <2>2. QED
    BY <1>1, <1>8, <2>1, SiteSound
<1>9. QED
  BY <1>2, <1>4, <1>5, <1>6, <1>7, <1>8

-----------------------------------------------------------------------------
(* What does not change while a report is printed. *)

\* What depends on the options and the records.
LEMMA RecordsSame ==
  ASSUME opt' = opt, table' = table
  PROVE  /\ Records' = Records /\ TaskTime' = TaskTime /\ AggSites' = AggSites
         /\ \A s, sec : AggTotal(s, sec)' = AggTotal(s, sec)
         /\ \A s : OfSite(s)' = OfSite(s)
         /\ \A s, sec : Part(s, sec)' = Part(s, sec)
         /\ \A x, sec : ExactRow(x, sec)' <=> ExactRow(x, sec)
         /\ \A rows, sec, among : ExactRows(rows, sec, among)' <=> ExactRows(rows, sec, among)
         /\ \A x, sec : ExactSummary(x, sec)' <=> ExactSummary(x, sec)
         /\ \A sec : ConciseSites(sec)' = ConciseSites(sec)
         /\ \A rows, sec, sites : SummariesExact(rows, sec, sites)' <=> SummariesExact(rows, sec, sites)
         /\ Tables' <=> Tables
         /\ \A s, total, L : PrintedAlone(s, total, L)' = PrintedAlone(s, total, L)
         /\ \A total : Reached(total)' <=> Reached(total)
<1>1. Records' = Records /\ TaskTime' = TaskTime
  BY DEF Records, TaskTime
<1>2. AggSites' = AggSites
  BY <1>1 DEF AggSites
<1>3. \A s, sec : AggTotal(s, sec)' = AggTotal(s, sec)
  BY <1>1 DEF AggTotal
<1>4. \A s : OfSite(s)' = OfSite(s)
  BY <1>1 DEF OfSite
<1>5. \A s, sec : Part(s, sec)' = Part(s, sec)
  BY <1>4 DEF Part
<1>6. \A x, sec : ExactRow(x, sec)' <=> ExactRow(x, sec)
  BY <1>4, <1>5 DEF ExactRow
<1>7. \A rows, sec, among : ExactRows(rows, sec, among)' <=> ExactRows(rows, sec, among)
  BY <1>1, <1>5, <1>6 DEF ExactRows
<1>8. \A x, sec : ExactSummary(x, sec)' <=> ExactSummary(x, sec)
  BY <1>4 DEF ExactSummary
<1>9. \A sec : Moved(sec)' = Moved(sec)
  BY <1>2, <1>3 DEF Moved
<1>10. \A sec : ConciseSites(sec)' = ConciseSites(sec)
  BY <1>9 DEF ConciseSites
<1>11. \A rows, sec, sites : SummariesExact(rows, sec, sites)' <=> SummariesExact(rows, sec, sites)
  BY <1>8 DEF SummariesExact
<1>12. Tables' <=> Tables
  BY <1>1 DEF Tables, RecordSet
<1>13. \A s, total, L : PrintedAlone(s, total, L)' = PrintedAlone(s, total, L)
  BY <1>1 DEF PrintedAlone, SectionAlone
<1>14. \A total : Reached(total)' <=> Reached(total)
  BY <1>1 DEF Reached
<1>15. QED
  BY <1>1, <1>2, <1>3, <1>4, <1>5, <1>6, <1>7, <1>8, <1>10, <1>11, <1>12, <1>13, <1>14

\* What depends on the style too.
LEMMA SoundStays ==
  ASSUME opt' = opt, table' = table, style' = style
  PROVE  \A x, P, L, D : Sound(x, P, L, D)' <=> Sound(x, P, L, D)
<1>1. \A sec : Listed(sec)' = Listed(sec)
  BY RecordsSame DEF Listed
<1>2. \A s, q, sec : Precedes(s, q, sec)' <=> Precedes(s, q, sec)
  BY RecordsSame DEF Precedes
<1>3. \A sec : av(sec)' = av(sec)
  <2>1. SUFFICES ASSUME NEW sec PROVE av(sec)' = av(sec)
    OBVIOUS
  <2>2. PICK S : S = Listed(sec)
    OBVIOUS
  <2>3. Listed(sec)' = S
    BY <1>1, <2>2
  <2>4. av(sec) = [i \in 1 .. Cardinality(S) |->
                     CHOOSE s \in S : Cardinality({q \in S : Precedes(q, s, sec)}) = i - 1]
    BY <2>2 DEF av
  <2>5. av(sec)' = [i \in 1 .. Cardinality(S) |->
                      CHOOSE s \in S : Cardinality({q \in S : Precedes(q, s, sec)'}) = i - 1]
    BY <2>3 DEF av
  <2>6. \A s : {q \in S : Precedes(q, s, sec)'} = {q \in S : Precedes(q, s, sec)}
    BY <1>2
  <2>7. QED
    BY <2>4, <2>5, <2>6
<1>4. \A s, t : Lookup(s, t)' = Lookup(s, t)
  BY DEF Lookup, NoRecord, Cleared
<1>5. \A s, t, sec : Own(s, t, sec)' = Own(s, t, sec)
  BY <1>4 DEF Own
<1>6. \A s, t, sec : Least(s, t, sec)' = Least(s, t, sec)
  BY <1>5 DEF Least
<1>7. \A x : Reduced(x)' = Reduced(x)
  BY <1>4, <1>5, <1>6 DEF Reduced
<1>8. \A x : Place(x)' <=> Place(x)
  BY <1>3 DEF Place
<1>9. \A x, D : Received(x, D)' <=> Received(x, D)
  BY <1>7 DEF Received
<1>10. \A L : GivenUp(L)' <=> GivenUp(L)
  BY DEF GivenUp
<1>11. \A rows : Typed(rows)' <=> Typed(rows)
  BY DEF Typed
<1>12. \A P : AllTyped(P)' <=> AllTyped(P)
  BY <1>11 DEF AllTyped
<1>13. \A sec, rows : Done(sec, rows)' <=> Done(sec, rows)
  BY RecordsSame DEF Done
<1>14. \A n, P, L : Behind(n, P, L)' <=> Behind(n, P, L)
  BY <1>13 DEF Behind
<1>15. \A sec, rows, k : Progress(sec, rows, k)' <=> Progress(sec, rows, k)
  BY <1>3, RecordsSame DEF Progress
<1>16. \A x, P : Current(x, P)' <=> Current(x, P)
  BY <1>15 DEF Current
<1>17. QED
  BY <1>8, <1>9, <1>10, <1>12, <1>14, <1>16 DEF Sound

-----------------------------------------------------------------------------
(* A report begins. *)

SoundNow ==
  \E x \in {st[Collector]}, P \in {printed}, L \in {lost}, D \in {red} : Sound(x, P, L, D)

\* The collector has printed alone, or nothing.
Begins ==
  /\ Tables /\ style \in {"verbose", "concise"} /\ lost \subseteq Sections /\ red = <<>>
  /\ Reached(totals)
  /\ \E s \in {style}, total \in {totals}, L \in {lost} :
       printed = IF opt.detail /\ ~opt.collective THEN PrintedAlone(s, total, L) ELSE Blank
  /\ st[Collector] = IF opt.detail /\ opt.collective
                     THEN [Outside EXCEPT !.sec = 1, !.step = IF style = "concise" THEN "count" ELSE "malloc"]
                     ELSE Outside

\* The rows of a report that the collector prints alone, and none.
LEMMA AloneTyped ==
  ASSUME Tables, style \in {"verbose", "concise"}, NEW total, Reached(total), NEW L
  PROVE  /\ AllTyped(Blank)
         /\ ~opt.collective =>
              /\ AllTyped(PrintedAlone(style, total, L))
              /\ \A sec \in Sections \ L : Done(sec, PrintedAlone(style, total, L)[sec])
<1>1. AllTyped(Blank)
  BY DEF AllTyped, Blank, Typed
<1>2. ASSUME ~opt.collective
      PROVE  /\ AllTyped(PrintedAlone(style, total, L))
             /\ \A sec \in Sections \ L : Done(sec, PrintedAlone(style, total, L)[sec])
  <2>1. PICK P : P = PrintedAlone(style, total, L)
    OBVIOUS
  <2>2. P = [sec \in Sections |-> P[sec]]
    BY <2>1 DEF PrintedAlone
  <2>3. CASE style = "verbose"
    <3>1. \A sec \in Sections : ExactRows(P[sec], sec, AggSites) /\ P[sec] \in Seq(RowType)
      BY <2>1, <2>3, AloneVerbose
    <3>2. QED
      BY <2>1, <2>2, <2>3, <3>1 DEF AllTyped, Typed, Done
  <2>4. CASE style = "concise"
    <3>1. \A sec \in Sections : /\ sec \notin L => SummariesExact(P[sec], sec, ConciseSites(sec))
                                /\ P[sec] \in Seq(ConciseType)
      BY <1>2, <2>1, <2>4, AloneConcise
    <3>2. QED
      BY <2>1, <2>2, <2>4, <3>1 DEF AllTyped, Typed, Done
  <2>5. QED
    BY <2>3, <2>4
<1>3. QED
  BY <1>1, <1>2

\* A report that begins is sound.
LEMMA BeginSound == Begins => SoundNow
<1> SUFFICES ASSUME Begins PROVE Sound(st[Collector], printed, lost, red)
  BY DEF SoundNow
<1>1. PICK x : x = st[Collector]
  OBVIOUS
<1>2. /\ Tables /\ style \in {"verbose", "concise"} /\ lost \subseteq Sections /\ red = <<>>
      /\ Reached(totals)
      /\ printed = IF opt.detail /\ ~opt.collective THEN PrintedAlone(style, totals, lost) ELSE Blank
  BY DEF Begins
<1>3. GivenUp(lost)
  BY <1>2 DEF GivenUp
<1>4. PICK step : step = IF style = "concise" THEN "count" ELSE "malloc"
  OBVIOUS
<1>5. x = IF opt.detail /\ opt.collective THEN [sec |-> 1, step |-> step, i |-> 0, n |-> 0, site |-> 0]
          ELSE [sec |-> 5, step |-> "end", i |-> 0, n |-> 0, site |-> 0]
  <2>1. PICK y : y = [Outside EXCEPT !.sec = 1, !.step = step]
    OBVIOUS
  <2>2. y = [sec |-> 1, step |-> step, i |-> 0, n |-> 0, site |-> 0]
    BY <2>1 DEF Outside
  <2>3. x = IF opt.detail /\ opt.collective THEN y ELSE Outside
    BY <1>1, <1>4, <2>1 DEF Begins
  <2>4. QED
    BY <2>2, <2>3 DEF Outside
<1>6. /\ x.i = 0 /\ x.n = 0 /\ x.site = 0
      /\ IF opt.detail /\ opt.collective THEN x.sec = 1 /\ x.step = step ELSE x.sec = 5 /\ x.step = "end"
  BY <1>5
<1>7. x.step \notin OfASite /\ x.step \notin Reductions
      /\ x.step \notin {"gate", "total", "gather", "max", "sum", "tasks"}
  BY <1>4, <1>6 DEF OfASite, Reductions
<1>8. Place(x)
  BY <1>2, <1>4, <1>6, <1>7 DEF Place
<1>9. Received(x, red)
  BY <1>2, <1>7 DEF Received
<1>10. AllTyped(printed)
  BY <1>2, AloneTyped
<1>11. Behind(x.sec, printed, lost)
  <2>1. SUFFICES ASSUME opt.detail, NEW k \in 1 .. 4, k < x.sec, Order[k] \notin lost
                 PROVE  Done(Order[k], printed[Order[k]])
    BY DEF Behind
  <2>2. x.sec # 1
    BY <2>1
  <2>3. ~opt.collective /\ printed = PrintedAlone(style, totals, lost)
    BY <1>2, <1>6, <2>1, <2>2
  <2>4. Order[k] \in Sections \ lost
    BY <2>1, OrderIs
  <2>5. \A sec \in Sections \ lost : Done(sec, PrintedAlone(style, totals, lost)[sec])
    BY <1>2, <2>3, AloneTyped
  <2>6. QED
    BY <2>3, <2>4, <2>5
<1>12. \A sec \in Sections : x.sec = 1 => printed[sec] = <<>>
  BY <1>2, <1>6 DEF Blank
<1>13. Ahead(x.sec, printed)
  BY <1>6, <1>12, OrderIs DEF Ahead
<1>14. Current(x, printed)
  <2>1. Order[1] \in Sections
    BY OrderIs
  <2>2. QED
    BY <1>6, <1>7, <1>12, <2>1 DEF Current
<1>15. QED
  BY <1>1, <1>3, <1>8, <1>9, <1>10, <1>11, <1>13, <1>14 DEF Sound

\* So it is in the next state, if a report begins there.
LEMMA NextBeginSound == Begins' => SoundNow'
BY BeginSound, PTL

-----------------------------------------------------------------------------
(* The records of the tasks when they are merged. *)

\* A record of a task is below DBL_MAX, and without calls it is one that a reset has cleared.
Sane(r, s, t) ==
  /\ r \in Record(Site, {t}) /\ r.site = s /\ r.rank = t
  /\ \A sec \in Sections : r.cum[sec] < DBL_MAX /\ r.max[sec] <= DBL_MAX /\ r.min[sec] <= DBL_MAX
  /\ r.count = 0 => /\ r.cum["time"] = 0 /\ r.cum["sent"] = 0
                    /\ r.max["time"] = 0 /\ r.min["time"] = DBL_MAX

\* A record of a measure.
LEMMA RecordFromIs ==
  ASSUME NEW s \in Site, NEW t \in Rank, NEW fig \in {"sent", "io", "rma"}, NEW m \in Measures,
         Possible(fig, m)
  PROVE  Sane(RecordFrom(s, t, fig, m), s, t)
<1> DEFINE r == RecordFrom(s, t, fig, m)
<1>1. /\ m \in [count : Nat, time : Figure, bytes : Figure]
      /\ m.count = 0 => /\ m.time = [cum |-> 0, max |-> 0, min |-> DBL_MAX]
                        /\ fig = "sent" => m.bytes.cum = 0
  BY PrintingAssumption DEF Possible
<1>2. m.count \in Nat /\ m.time \in Figure /\ m.bytes \in Figure
  BY <1>1
<1>3. /\ m.time.cum \in 0 .. DBL_MAX - 1 /\ m.time.max \in 0 .. DBL_MAX /\ m.time.min \in 0 .. DBL_MAX
      /\ m.bytes.cum \in 0 .. DBL_MAX - 1 /\ m.bytes.max \in 0 .. DBL_MAX /\ m.bytes.min \in 0 .. DBL_MAX
  BY <1>2 DEF Figure
<1>4. PICK cum : cum = [sec \in Sections |-> IF sec = "time" THEN m.time.cum ELSE IF sec = fig THEN m.bytes.cum ELSE 0]
  OBVIOUS
<1>5. PICK max : max = [sec \in Sections |-> IF sec = "time" THEN m.time.max ELSE IF sec = fig THEN m.bytes.max ELSE 0]
  OBVIOUS
<1>6. PICK min : min = [sec \in Sections |-> IF sec = "time" THEN m.time.min ELSE IF sec = fig THEN m.bytes.min ELSE 0]
  OBVIOUS
<1>7. r = [site |-> s, rank |-> t, count |-> m.count, cum |-> cum, max |-> max, min |-> min]
  BY <1>4, <1>5, <1>6 DEF RecordFrom
<1>8. \A sec \in Sections : cum[sec] \in 0 .. DBL_MAX - 1 /\ max[sec] \in 0 .. DBL_MAX /\ min[sec] \in 0 .. DBL_MAX
  BY <1>3, <1>4, <1>5, <1>6, DBL_MAXAssumption
<1>9. cum \in [Sections -> Nat] /\ max \in [Sections -> Nat] /\ min \in [Sections -> Nat]
  BY <1>4, <1>5, <1>6, <1>8, DBL_MAXAssumption
<1>10. r \in Record(Site, {t})
  BY <1>2, <1>7, <1>9 DEF Record
<1>11. ASSUME m.count = 0
       PROVE  cum["time"] = 0 /\ cum["sent"] = 0 /\ max["time"] = 0 /\ min["time"] = DBL_MAX
  <2>1. m.time.cum = 0 /\ m.time.max = 0 /\ m.time.min = DBL_MAX /\ (fig = "sent" => m.bytes.cum = 0)
    BY <1>1, <1>11
  <2>2. "time" \in Sections /\ "sent" \in Sections
    BY DEF Sections
  <2>3. QED
    BY <1>4, <1>5, <1>6, <2>1, <2>2
<1>12. QED
  BY <1>7, <1>8, <1>10, <1>11, DBL_MAXAssumption DEF Sane

\* At the beginning.
LEMMA InitTables == Init => Tables /\ \A t \in Rank : table[t] \subseteq Record(Site, {t})
<1> SUFFICES ASSUME Init PROVE Tables /\ \A t \in Rank : table[t] \subseteq Record(Site, {t})
  OBVIOUS
<1>1. PICK fig \in Figures, m \in [Rank \X Site -> Measures \cup {<<>>}] :
        /\ \A t \in Rank, s \in Site : m[<<t, s>>] # <<>> => Possible(fig[s], m[<<t, s>>])
        /\ table = [t \in Rank |-> {RecordFrom(s, t, fig[s], m[<<t, s>>]) : s \in {x \in Site : m[<<t, x>>] # <<>>}}]
  BY DEF Init
<1>2. PICK e : e = [p \in Rank \X Site |-> RecordFrom(p[2], p[1], fig[p[2]], m[p])]
  OBVIOUS
<1>3. ASSUME NEW t \in Rank, NEW r \in table[t]
      PROVE  \E s \in Site : /\ m[<<t, s>>] \in Measures /\ fig[s] \in {"sent", "io", "rma"}
                             /\ Possible(fig[s], m[<<t, s>>])
                             /\ r = RecordFrom(s, t, fig[s], m[<<t, s>>]) /\ r = e[<<t, s>>]
  <2>1. r \in {RecordFrom(s, t, fig[s], m[<<t, s>>]) : s \in {x \in Site : m[<<t, x>>] # <<>>}}
    BY <1>1, <1>3
  <2>2. PICK s \in Site : m[<<t, s>>] # <<>> /\ r = RecordFrom(s, t, fig[s], m[<<t, s>>])
    BY <2>1
  <2>3. <<t, s>> \in Rank \X Site
    BY <2>2
  <2>4. m[<<t, s>>] \in Measures
    BY <2>2, <2>3
  <2>5. fig[s] \in {"sent", "io", "rma"}
    BY PrintingAssumption DEF Site
  <2>6. r = e[<<t, s>>]
    BY <1>2, <2>2, <2>3
  <2>7. Possible(fig[s], m[<<t, s>>])
    BY <1>1, <2>2
  <2>8. QED
    BY <2>2, <2>4, <2>5, <2>6, <2>7
<1>4. ASSUME NEW t \in Rank, NEW r \in table[t]
      PROVE  /\ r \in Record(Site, {t}) /\ r.rank = t /\ r.site \in Site /\ r = e[<<t, r.site>>]
             /\ \A sec \in Sections : r.cum[sec] < DBL_MAX /\ r.max[sec] <= DBL_MAX /\ r.min[sec] <= DBL_MAX
             /\ r.count = 0 => /\ r.cum["time"] = 0 /\ r.cum["sent"] = 0
                               /\ r.max["time"] = 0 /\ r.min["time"] = DBL_MAX
  <2>1. PICK s \in Site : /\ m[<<t, s>>] \in Measures /\ fig[s] \in {"sent", "io", "rma"}
                          /\ Possible(fig[s], m[<<t, s>>])
                          /\ r = RecordFrom(s, t, fig[s], m[<<t, s>>]) /\ r = e[<<t, s>>]
    BY <1>3, <1>4
  <2>2. PICK g \in {"sent", "io", "rma"}, n \in Measures : g = fig[s] /\ n = m[<<t, s>>]
    BY <2>1
  <2>3. r = RecordFrom(s, t, g, n) /\ Possible(g, n)
    BY <2>1, <2>2
  <2>4. /\ r \in Record(Site, {t}) /\ r.site = s /\ r.rank = t
        /\ \A sec \in Sections : r.cum[sec] < DBL_MAX /\ r.max[sec] <= DBL_MAX /\ r.min[sec] <= DBL_MAX
        /\ r.count = 0 => /\ r.cum["time"] = 0 /\ r.cum["sent"] = 0
                          /\ r.max["time"] = 0 /\ r.min["time"] = DBL_MAX
    <3>1. Sane(RecordFrom(s, t, g, n), s, t)
      BY <2>3, RecordFromIs
    <3>2. Sane(r, s, t)
      BY <2>3, <3>1
    <3>3. QED
      BY <3>2 DEF Sane
  <2>5. QED
    BY <2>1, <2>4
<1>5. \A r \in Records : \E t \in Rank : r \in table[t]
  BY DEF Records
<1>6. Records \subseteq Record(Site, Rank)
  <2>1. \A t \in Rank : Record(Site, {t}) \subseteq Record(Site, Rank)
    BY DEF Record
  <2>2. QED
    BY <1>4, <1>5, <2>1
<1>7. IsFiniteSet(Records)
  <2>1. IsFiniteSet(Rank) /\ IsFiniteSet(Site)
    <3>1. Sites \in Nat
      BY PrintingAssumption
    <3>2. QED
      BY <3>1, FS_Interval, PrintingAssumption DEF Site
  <2>2. IsFiniteSet(Rank \X Site)
    BY <2>1, FS_Product
  <2>3. IsFiniteSet({e[p] : p \in Rank \X Site})
    <3>1. PICK T : T = {e[p] : p \in Rank \X Site}
      OBVIOUS
    <3>2. DOMAIN e = Rank \X Site
      BY <1>2
    <3>3. e \in [Rank \X Site -> T]
      BY <1>2, <3>1
    <3>4. e \in Surjection(Rank \X Site, T)
      BY <3>1, <3>3 DEF Surjection
    <3>5. QED
      BY <2>2, <3>1, <3>4, FS_Surjection
  <2>4. Records \subseteq {e[p] : p \in Rank \X Site}
    <3>1. SUFFICES ASSUME NEW r \in Records PROVE r \in {e[p] : p \in Rank \X Site}
      OBVIOUS
    <3>2. PICK t \in Rank : r \in table[t]
      BY <1>5
    <3>3. r.site \in Site /\ r = e[<<t, r.site>>]
      BY <1>4, <3>2
    <3>4. <<t, r.site>> \in Rank \X Site
      BY <3>3
    <3>5. QED
      BY <3>3, <3>4
  <2>5. QED
    BY <2>3, <2>4, FS_Subset
<1>8. ASSUME NEW r \in Records, NEW q \in Records, r.site = q.site, r.rank = q.rank PROVE r = q
  <2>1. PICK t \in Rank, u \in Rank : r \in table[t] /\ q \in table[u]
    BY <1>5
  <2>2. r.rank = t /\ q.rank = u /\ r = e[<<t, r.site>>] /\ q = e[<<u, q.site>>]
    BY <1>4, <2>1
  <2>3. QED
    BY <1>8, <2>2
<1>9. RecordSet(Records)
  BY <1>4, <1>5, <1>6, <1>7, <1>8 DEF RecordSet
<1>10. Records # {}
  BY DEF Init
<1>11. QED
  BY <1>4, <1>5, <1>9, <1>10 DEF Tables

-----------------------------------------------------------------------------
(* Sequences of reports. *)

\* What is never changed, and the types of what tells the style and the totals.
Static ==
  /\ opt \in [collective : BOOLEAN, detail : BOOLEAN, threshold : Thresholds]
  /\ \A t \in Rank : table[t] \subseteq Record(Site, {t})
  /\ orders \in Seq({"verbose", "concise"}) /\ style \in {"none", "verbose", "concise"}
  /\ totals \in Uncleared

RInv == IInv /\ Tables /\ Static /\ Covered /\ SoundNow

\* Before the first report.
LEMMA InitReports == Init => RInv
<1> SUFFICES ASSUME Init PROVE RInv
  OBVIOUS
<1>1. IInv /\ Tables /\ \A t \in Rank : table[t] \subseteq Record(Site, {t})
  BY InitHolds, InitTables
<1>2. Static /\ Covered
  BY <1>1, PrintingAssumption DEF Init, Static, Covered
<1>3. st[Collector] = Outside /\ printed = Blank /\ lost = {} /\ red = <<>> /\ style = "none"
  BY PrintingAssumption DEF Init
<1>4. Outside.sec = 5 /\ Outside.step = "end" /\ Outside.i = 0 /\ Outside.n = 0 /\ Outside.site = 0
  BY DEF Outside
<1>5. Place(Outside)
  BY <1>4 DEF Place, OfASite, Reductions
<1>6. Received(Outside, <<>>)
  BY <1>4 DEF Received
<1>7. GivenUp({})
  BY DEF GivenUp
<1>8. AllTyped(Blank)
  BY <1>3 DEF AllTyped, Blank, Typed
<1>9. Behind(5, Blank, {}) /\ Ahead(5, Blank) /\ Current(Outside, Blank)
  BY <1>3, <1>4 DEF Behind, Ahead, Current
<1>10. Sound(Outside, Blank, {}, <<>>)
  BY <1>4, <1>5, <1>6, <1>7, <1>8, <1>9 DEF Sound
<1>11. SoundNow
  BY <1>3, <1>10 DEF SoundNow
<1>12. QED
  BY <1>1, <1>2, <1>11 DEF RInv

\* A report begins.
LEMMA PrintReports ==
  ASSUME RInv, mpiPi_profile_print
  PROVE  RInv'
<1>1. IInv'
  BY PrintHolds DEF RInv
<1>2. /\ orders # <<>> /\ orders' = Tail(orders) /\ style' = Head(orders)
      /\ totals' = NewTotals /\ lost' \in Short(style')
      /\ red' = <<>> /\ opt' = opt /\ table' = table
  BY DEF mpiPi_profile_print
<1>3. Tables'
  BY <1>2, RecordsSame DEF RInv
<1>4. Reached(totals') /\ totals' \in Uncleared
  <2>1. Reached(NewTotals)
    BY TotalsReach DEF RInv, Static
  <2>2. QED
    BY <1>2, <2>1 DEF Reached
<1>5. style' \in {"verbose", "concise"} /\ orders' \in Seq({"verbose", "concise"})
  BY <1>2 DEF RInv, Static
<1>6. Static'
  BY <1>2, <1>4, <1>5 DEF RInv, Static
<1>7. PICK s, total, L : s = style' /\ total = totals' /\ L = lost'
  OBVIOUS
<1>8. printed' = IF opt.detail /\ ~opt.collective THEN PrintedAlone(s, total, L)' ELSE Blank
  <2>1. PrintedAlone(s, total, L)' = PrintedAlone(s, total, L)
    BY <1>2, RecordsSame
  <2>2. printed' = IF opt.detail /\ ~opt.collective THEN PrintedAlone(s, total, L) ELSE Blank
    BY <1>7 DEF mpiPi_profile_print
  <2>3. QED
    BY <2>1, <2>2
<1>9. st'[Collector] = IF opt.detail /\ opt.collective
                       THEN [Outside EXCEPT !.sec = 1, !.step = IF style' = "concise" THEN "count" ELSE "malloc"]
                       ELSE Outside
  BY PrintingAssumption DEF mpiPi_profile_print
<1>10. Reached(totals)'
  <2>1. Reached(total) /\ Reached(total)'
    BY <1>2, <1>4, <1>7, RecordsSame
  <2>2. QED
    BY <1>7, <2>1 DEF Reached
<1>11. lost' \subseteq Sections
  BY <1>2 DEF Short
<1>12. Begins'
  BY <1>2, <1>3, <1>5, <1>7, <1>8, <1>9, <1>10, <1>11 DEF Begins
<1>13. SoundNow'
  BY <1>12, NextBeginSound
<1>14. Covered'
  BY <1>10 DEF Covered
<1>15. QED
  BY <1>1, <1>3, <1>6, <1>13, <1>14 DEF RInv

\* A step in a report.
LEMMA StepReports ==
  ASSUME RInv, IInv', UNCHANGED <<opt, table, orders, style, totals>>,
         NEW x, NEW P, NEW L, NEW D, Sound(x, P, L, D),
         st'[Collector] = x, printed' = P, lost' = L, red' = D
  PROVE  RInv'
<1>1. Tables'
  BY RecordsSame DEF RInv
<1>2. Static' /\ Covered'
  <2>1. Static'
    BY DEF RInv, Static
  <2>2. PICK total : total = totals
    OBVIOUS
  <2>3. Reached(total)' <=> Reached(total)
    BY RecordsSame
  <2>4. Reached(totals)' <=> Reached(totals)
    BY <2>2, <2>3 DEF Reached
  <2>5. QED
    BY <2>1, <2>4 DEF RInv, Covered
<1>3. Sound(x, P, L, D)'
  BY SoundStays
<1>4. SoundNow'
  BY <1>3 DEF SoundNow
<1>5. QED
  BY <1>1, <1>2, <1>4 DEF RInv

\* A broadcast.
LEMMA BcastReports ==
  ASSUME RInv, NEW memory \in 0 .. 1, BcastCall(memory)
  PROVE  RInv'
<1>1. IInv'
  BY BcastHolds DEF RInv
<1>2. PICK x, P, L, D : x = st[Collector] /\ P = printed /\ L = lost /\ D = red
  OBVIOUS
<1>3. Tables /\ Shaped(x) /\ Proper(x) /\ Sound(x, P, L, D)
  BY <1>2 DEF RInv, IInv, SoundNow
<1>4. PICK M : M = IF memory = 0 THEN L \cup {Order[x.sec]} ELSE L
  OBVIOUS
<1>5. PICK v : v = Sent(x, memory)
  OBVIOUS
<1>6. /\ KindOf(x.step) = "Bcast" /\ (memory = 1 \/ x.step = "malloc")
      /\ st' = [t \in Rank |-> After(st[t], v)]
      /\ lost' = M /\ printed' = P /\ red' = D
      /\ UNCHANGED <<opt, table, orders, style, totals>>
  BY <1>2, <1>4, <1>5 DEF BcastCall, Got
<1>7. PICK y : y = After(x, v)
  OBVIOUS
<1>8. st'[Collector] = y
  BY <1>2, <1>6, <1>7, PrintingAssumption
<1>9. Sound(y, P, M, D)
  BY <1>3, <1>4, <1>5, <1>6, <1>7, BcastSound DEF RInv
<1>10. QED
  BY <1>1, <1>6, <1>8, <1>9, StepReports

\* A gather.
LEMMA GatherReports ==
  ASSUME RInv, GatherCall
  PROVE  RInv'
<1>1. IInv'
  BY GatherHolds DEF RInv
<1>2. PICK x, P, L, D : x = st[Collector] /\ P = printed /\ L = lost /\ D = red
  OBVIOUS
<1>3. Tables /\ Shaped(x) /\ Proper(x) /\ Sound(x, P, L, D)
  BY <1>2 DEF RInv, IInv, SoundNow
<1>4. PICK Q : Q = [P EXCEPT ![Order[x.sec]] = @ \o GatheredRows(x)]
  OBVIOUS
<1>5. /\ x.step = "gather"
      /\ st' = [t \in Rank |-> After(st[t], 0)]
      /\ printed' = Q /\ lost' = L /\ red' = D
      /\ UNCHANGED <<opt, table, orders, style, totals>>
  BY <1>2, <1>4 DEF GatherCall
<1>6. PICK y : y = After(x, 0)
  OBVIOUS
<1>7. st'[Collector] = y
  BY <1>2, <1>5, <1>6, PrintingAssumption
<1>8. Sound(y, Q, L, D)
  BY <1>3, <1>4, <1>5, <1>6, GatherSound
<1>9. QED
  BY <1>1, <1>5, <1>7, <1>8, StepReports

\* A reduction.
LEMMA ReduceReports ==
  ASSUME RInv, ReduceCall
  PROVE  RInv'
<1>1. IInv'
  BY GatherHolds DEF RInv
<1>2. PICK x, P, L, D : x = st[Collector] /\ P = printed /\ L = lost /\ D = red
  OBVIOUS
<1>3. Tables /\ Shaped(x) /\ Proper(x) /\ Sound(x, P, L, D)
  BY <1>2 DEF RInv, IInv, SoundNow
<1>4. PICK got : got = Append(D, Reduced(x))
  OBVIOUS
<1>5. /\ KindOf(x.step) = "Reduce"
      /\ st' = [t \in Rank |-> After(st[t], 0)]
      /\ lost' = L
      /\ red' = IF x.step = "tasks" THEN <<>> ELSE got
      /\ UNCHANGED <<opt, table, orders, style, totals>>
  BY <1>2, <1>4 DEF ReduceCall
<1>6. printed' = IF x.step # "tasks" THEN P
                 ELSE [P EXCEPT ![Order[x.sec]] = Append(P[Order[x.sec]], RowOf(x, got))]
  BY <1>2, <1>4 DEF ReduceCall, RowOf
<1>7. PICK y : y = After(x, 0)
  OBVIOUS
<1>8. st'[Collector] = y
  BY <1>2, <1>5, <1>7, PrintingAssumption
<1>9. x.step \in {"min", "max", "sum", "tasks"}
  <2>1. x.step \in Steps \cup {"end"}
    BY <1>3 DEF Proper
  <2>2. QED
    BY <1>5, <2>1 DEF KindOf, Steps
<1>10. PICK Q : Q = printed'
  OBVIOUS
<1>11. CASE x.step = "tasks"
  <2>1. PutAt(Q, P, Order[x.sec], Append(P[Order[x.sec]], RowOf(x, got)))
    BY <1>6, <1>10, <1>11 DEF PutAt
  <2>2. Sound(y, Q, L, <<>>)
    BY <1>3, <1>4, <1>7, <1>11, <2>1, TasksSound
  <2>3. red' = <<>>
    BY <1>5, <1>11
  <2>4. QED
    BY <1>1, <1>5, <1>8, <1>10, <2>2, <2>3, StepReports
<1>12. CASE x.step # "tasks"
  <2>1. x.step \in {"min", "max", "sum"} /\ Q = P /\ red' = got
    BY <1>5, <1>6, <1>9, <1>10, <1>12
  <2>2. Sound(y, P, L, got)
    BY <1>3, <1>4, <1>7, <2>1, ReductionSound
  <2>3. QED
    BY <1>1, <1>5, <1>8, <1>10, <2>1, <2>2, StepReports
<1>13. QED
  BY <1>11, <1>12

\* A step that changes nothing.
LEMMA StutterReports ==
  ASSUME RInv, UNCHANGED vars
  PROVE  RInv'
<1>1. IInv'
  BY StutterHolds DEF RInv
<1>2. UNCHANGED <<opt, table, orders, style, totals, st, red, printed, lost>>
  BY DEF vars
<1>3. PICK x, P, L, D : x = st[Collector] /\ P = printed /\ L = lost /\ D = red
  OBVIOUS
<1>4. Sound(x, P, L, D)
  BY <1>3 DEF RInv, SoundNow
<1>5. QED
  BY <1>1, <1>2, <1>3, <1>4, StepReports

\* In every state of a sequence of reports the sections behind the tasks are complete.
THEOREM Reports == Spec => []RInv
<1>1. RInv /\ [Next]_vars => RInv'
  BY PrintReports, BcastReports, GatherReports, ReduceReports, StutterReports DEF Next, Goes
<1>2. QED
  BY InitReports, <1>1, PTL DEF Spec

\* What the invariant says of a report that has been printed.
LEMMA ReportDone ==
  ASSUME RInv, Reported, NEW sec \in Sections, sec \notin lost
  PROVE  Done(sec, printed[sec])
<1>1. PICK x, P, L, D : x = st[Collector] /\ P = printed /\ L = lost /\ D = red
  OBVIOUS
<1>2. Proper(x) /\ Sound(x, P, L, D)
  BY <1>1 DEF RInv, IInv, SoundNow
<1>3. x.step = "end"
  BY <1>1, PrintingAssumption DEF Reported, Finished
<1>4. x.sec = 5
  BY <1>2, <1>3 DEF Proper
<1>5. Behind(5, P, L) /\ opt.detail /\ style # "none"
  BY <1>2, <1>4 DEF Sound, Reported
<1>6. PICK k \in 1 .. 4 : Order[k] = sec
  BY OrderIs
<1>7. k < 5
  OBVIOUS
<1>8. QED
  BY <1>1, <1>5, <1>6, <1>7 DEF Behind

\* Every section of a verbose report, printed by the collector alone or with -l, lists every call
\* site that it is about once, in order, with the figures of each task and of all of them; except
\* sections for which the collector had no memory.
THEOREM VerboseReports == Spec => []VerboseExact
<1>1. RInv => VerboseExact
  <2>1. SUFFICES ASSUME RInv, Reported, style = "verbose", NEW sec \in Sections \ lost
                 PROVE  ExactRows(printed[sec], sec, AggSites)
    BY DEF VerboseExact
  <2>2. Done(sec, printed[sec])
    BY <2>1, ReportDone
  <2>3. QED
    BY <2>1, <2>2 DEF Done
<1>2. QED
  BY Reports, <1>1, PTL

\* Every section of a concise report that the collector had memory for has a row for every call
\* site that it is about, with its sum and its largest contribution, and how many tasks contributed
\* and the smallest contribution if all did.
THEOREM ConciseReports == Spec => []ConciseExact
<1>1. RInv => ConciseExact
  <2>1. SUFFICES ASSUME RInv, Reported, style = "concise", NEW sec \in Sections \ lost
                 PROVE  SummariesExact(printed[sec], sec, ConciseSites(sec))
    BY DEF ConciseExact, SummariesExact, ConciseSites, Moved
  <2>2. Done(sec, printed[sec])
    BY <2>1, ReportDone
  <2>3. QED
    BY <2>1, <2>2 DEF Done
<1>2. QED
  BY Reports, <1>1, PTL

\* The variables have their types: a section has rows of its style with tasks and call sites that
\* exist, and the places of the tasks stay within the lists.
THEOREM Typing == Spec => []TypeOK
<1>1. RInv => TypeOK
  <2>1. SUFFICES ASSUME RInv PROVE TypeOK
    OBVIOUS
  <2>2. PICK x, P, L, D : x = st[Collector] /\ P = printed /\ L = lost /\ D = red
    OBVIOUS
  <2>3. Tables /\ Shaped(x) /\ Proper(x) /\ Sound(x, P, L, D) /\ Static
    BY <2>1, <2>2 DEF RInv, IInv, SoundNow
  <2>4. Place(x) /\ Received(x, D) /\ GivenUp(L) /\ AllTyped(P)
    BY <2>3 DEF Sound
  <2>5. x.sec \in 1 .. 5 /\ x.i \in Nat /\ x.n \in Nat /\ x.i <= x.n /\ x.step \in Steps \cup {"end"}
    BY <2>3 DEF Proper
  <2>6. KindOf(x.step) \in {"Bcast", "Gather", "Reduce", "none"}
    BY <2>5 DEF KindOf, Steps
  <2>7. x.n \in 0 .. Sites
    <3>1. CASE x.step \in OfASite
      <4>1. x.step # "end"
        BY <3>1 DEF OfASite
      <4>2. Order[x.sec] \in Sections /\ x.n = Cardinality(Listed(Order[x.sec]))
        BY <2>3, <3>1, <4>1, InPrint
      <4>3. Listed(Order[x.sec]) \subseteq Site
        BY <2>3, <4>2, AggTotalType
      <4>4. IsFiniteSet(1 .. Sites) /\ Cardinality(1 .. Sites) = Sites /\ Sites \in Nat
        <5>1. Sites \in Nat \ {0}
          BY PrintingAssumption
        <5>2. Cardinality(1 .. Sites) = Sites /\ IsFiniteSet(1 .. Sites)
          BY <5>1, FS_Interval
        <5>3. QED
          BY <5>1, <5>2
      <4>5. Cardinality(Listed(Order[x.sec])) <= Sites
        BY <4>3, <4>4, FS_Subset DEF Site
      <4>6. QED
        BY <2>5, <4>2, <4>4, <4>5
    <3>2. CASE x.step \notin OfASite
      <4>1. x.n = 0
        BY <2>4, <3>2 DEF Place
      <4>2. QED
        BY <4>1, PrintingAssumption
    <3>3. QED
      BY <3>1, <3>2
  <2>8. x.i \in 0 .. x.n /\ x.site \in Site \cup {0}
    BY <2>4, <2>5 DEF Place
  <2>9. Len(D) <= 3
    <3>1. CASE x.step \notin {"max", "sum", "tasks"}
      BY <2>4, <3>1 DEF Received
    <3>2. CASE x.step = "max"
      <4>1. PICK a : D = <<a>>
        BY <2>4, <3>2 DEF Received
      <4>2. QED
        BY <4>1
    <3>3. CASE x.step = "sum"
      <4>1. PICK a, b : D = <<a, b>>
        BY <2>4, <3>3 DEF Received
      <4>2. QED
        BY <4>1
    <3>4. CASE x.step = "tasks"
      <4>1. PICK a, b, c : D = <<a, b, c>>
        BY <2>4, <3>4 DEF Received
      <4>2. QED
        BY <4>1
    <3>5. QED
      BY <3>1, <3>2, <3>3, <3>4
  <2>10. \A t \in Rank : st[t] = x
    BY <2>1, <2>2 DEF RInv, IInv, Together
  <2>11. \A t \in Rank : /\ st[t].sec \in 1 .. 5 /\ KindOf(st[t].step) \in {"Bcast", "Gather", "Reduce", "none"}
                         /\ st[t].n \in 0 .. Sites /\ st[t].i \in 0 .. st[t].n
                         /\ st[t].site \in Site \cup {0}
    BY <2>5, <2>6, <2>7, <2>8, <2>10
  <2>12. \A sec \in Sections : printed[sec] \in Seq(IF style = "concise" THEN ConciseType ELSE RowType)
    BY <2>2, <2>4 DEF AllTyped, Typed
  <2>13. lost \subseteq Sections /\ Len(red) <= 3
    BY <2>2, <2>4, <2>9 DEF GivenUp
  <2>14. QED
    BY <2>3, <2>11, <2>12, <2>13 DEF TypeOK, Static
<1>2. QED
  BY Reports, <1>1, PTL
=============================================================================
