------------------------- MODULE SavedRunStoreProofs -------------------------
(***************************************************************************)
(* Proofs about SavedRunStore for any writers and any events, with calls   *)
(* that fail, processes that are killed and power that is lost.            *)
(*                                                                         *)
(* The argument: only the holder of the update lock writes (Locking), and  *)
(* the four versions of the ledger are always prefixes of each other, the  *)
(* synced checkpoint first and the cached events last (Ordered).  Until    *)
(* the checkpoint is renamed nothing a reader accepts has changed; from    *)
(* then on no power loss can take the event back once its caller knows     *)
(* (Writing, Committing, Acknowledged).  A snapshot is synced before the   *)
(* stop it belongs to is written (Snapshotted).                            *)
(***************************************************************************)
EXTENDS SavedRunStore, SequenceTheorems, WellFoundedInduction, TLAPS

\* What the files and the processes may hold.  Ledgers are bounded by
\* EventLimit, which nothing here depends on.
Typed ==
  /\ cache \in [events : Seq(Inputs), partial : BOOLEAN, head : Seq(Inputs),
                passed : BOOLEAN, snapshot : Nat]
  /\ disk \in [events : Seq(Inputs), partial : BOOLEAN, head : Seq(Inputs),
               passed : BOOLEAN, snapshot : Nat]
  /\ pc \in [Writers -> Steps]
  /\ next \in [Writers -> Seq(Inputs)]
  /\ call \in [Writers -> [event : Inputs \cup {RunBlocked}, passed : BOOLEAN]]
  /\ \A p \in Writers : pc[p] # "idle" => call[p].event \in Inputs
  /\ acked \in Seq(Inputs) /\ floor \in Seq(Inputs)
  /\ reader \in [step : {"idle", "checkpoint", "events", "check", "returned"},
                 head : Seq(Inputs), events : Seq(Inputs)]

\* Whoever is inside append holds the update lock.
Locking == \A p \in Writers : pc[p] # "idle" => lock = p

\* The checkpoint never runs ahead of what is synced of the ledger.
Ordered ==
  /\ IsPrefix(disk.head, cache.head)
  /\ IsPrefix(cache.head, disk.events)
  /\ IsPrefix(disk.events, cache.events)

Unwritten == {"snapshot", "syncSnapshot", "append", "line"}
Unsealed  == {"syncEvents", "checkpoint"}
Sealed    == {"syncCheckpoint", "release"}

\* The event of p may follow the ledger that the checkpoint vouches for.
Allowed(p) ==
  LET L == Summary(cache.head)
      N == Apply(L, call[p].event)
  IN  Accepts(L, call[p].event, IF N.lastIteration = 0 THEN 1 ELSE N.lastIteration,
              N.calls, call[p].passed)

\* An append until its checkpoint is renamed: it adds one event to the ledger
\* it has read, and nobody else has changed that ledger meanwhile.
Writing(p) ==
  pc[p] \in Unwritten \cup Unsealed =>
    /\ Allowed(p)
    /\ next[p] = Append(cache.head, call[p].event)
    /\ cache.events = IF pc[p] \in Unwritten THEN cache.head ELSE next[p]
    /\ pc[p] = "checkpoint" => disk.events = next[p]

\* An append whose checkpoint is renamed.
Committing(p) ==
  pc[p] \in Sealed =>
    /\ cache.head = disk.events /\ cache.head = cache.events
    /\ IsSubsequence(Append(acked, call[p].event), cache.head)
    /\ pc[p] = "release" => disk.head = cache.head

\* A stop is written when its snapshot is synced, and the snapshot before a
\* stop replaces none that is needed.
Snapshotting(p) ==
  /\ pc[p] \in {"snapshot", "syncSnapshot"} => Snapshots(call[p].event)
  /\ pc[p] = "syncSnapshot" => cache.snapshot = Len(next[p])
  /\ pc[p] \in {"append", "line"} \cup Unsealed /\ Snapshots(call[p].event) =>
       cache.snapshot = Len(next[p]) /\ disk.snapshot = Len(next[p])

Snapshotted ==
  Summary(cache.head).status = "stopped" /\ cache.head = disk.events =>
    cache.snapshot = Len(cache.head) /\ disk.snapshot = Len(cache.head)

\* What is acknowledged is in every checkpoint.
Acknowledged == IsSubsequence(acked, disk.head)

\* What the inspection that runs has seen.
Inspecting ==
  /\ reader.step = "checkpoint" => IsSubsequence(floor, cache.head)
  /\ reader.step \in {"events", "check", "returned"} =>
       IsSubsequence(floor, reader.head) /\ IsPrefix(reader.head, cache.head)
  /\ reader.step \in {"check", "returned"} => reader.events = reader.head

Inv ==
  /\ Typed /\ Locking /\ Ordered
  /\ \A p \in Writers : Writing(p) /\ Committing(p) /\ Snapshotting(p)
  /\ Snapshotted /\ Acknowledged /\ Inspecting

-----------------------------------------------------------------------------
(* Prefixes and subsequences.                                              *)

LEMMA PrefixPoints ==
  ASSUME NEW S, NEW s \in Seq(S), NEW t \in Seq(S)
  PROVE  IsPrefix(s, t) <=> Len(s) <= Len(t) /\ \A i \in 1..Len(s) : s[i] = t[i]
<1>1. ASSUME Len(s) <= Len(t)
      PROVE  SubSeq(s, 1, Len(s)) = SubSeq(t, 1, Len(s)) <=> \A i \in 1..Len(s) : s[i] = t[i]
  <2>1. SubSeq(s, 1, Len(s)) = [i \in 1..Len(s) |-> s[i]]
    OBVIOUS
  <2>2. SubSeq(t, 1, Len(s)) = [i \in 1..Len(s) |-> t[i]]
    BY <1>1
  <2> QED
    BY <2>1, <2>2
<1> QED
  BY <1>1 DEF IsPrefix

LEMMA PrefixTransitive ==
  ASSUME NEW S, NEW s \in Seq(S), NEW t \in Seq(S), NEW u \in Seq(S),
         IsPrefix(s, t), IsPrefix(t, u)
  PROVE  IsPrefix(s, u)
<1>1. Len(s) <= Len(t) /\ \A i \in 1..Len(s) : s[i] = t[i]
  BY PrefixPoints
<1>2. Len(t) <= Len(u) /\ \A i \in 1..Len(t) : t[i] = u[i]
  BY PrefixPoints
<1>3. Len(s) <= Len(u) /\ \A i \in 1..Len(s) : s[i] = u[i]
  BY <1>1, <1>2
<1> QED
  BY <1>3, PrefixPoints

LEMMA PrefixBothWays ==
  ASSUME NEW S, NEW s \in Seq(S), NEW t \in Seq(S), IsPrefix(s, t), IsPrefix(t, s)
  PROVE  s = t
<1>1. Len(s) = Len(t) /\ \A i \in 1..Len(s) : s[i] = t[i]
  BY PrefixPoints
<1> QED
  BY <1>1, SeqEqual

LEMMA PrefixSelf ==
  ASSUME NEW S, NEW s \in Seq(S)
  PROVE  IsPrefix(s, s)
  BY PrefixPoints

LEMMA PrefixAppended ==
  ASSUME NEW S, NEW s \in Seq(S), NEW e \in S
  PROVE  /\ Append(s, e) \in Seq(S)
         /\ Len(Append(s, e)) = Len(s) + 1
         /\ Append(s, e) # s
         /\ IsPrefix(s, Append(s, e))
<1>1. /\ Append(s, e) \in Seq(S) /\ Len(Append(s, e)) = Len(s) + 1
      /\ \A i \in 1..Len(s) : Append(s, e)[i] = s[i]
  OBVIOUS
<1>2. IsPrefix(s, Append(s, e))
  <2> DEFINE longer == Append(s, e)
  <2>1. longer \in Seq(S) /\ Len(s) <= Len(longer) /\ \A i \in 1..Len(s) : s[i] = longer[i]
    BY <1>1
  <2> HIDE DEF longer
  <2>2. IsPrefix(s, longer)
    BY <2>1, PrefixPoints
  <2> QED
    BY <2>2 DEF longer
<1> QED
  BY <1>1, <1>2

\* What lies between two versions of the ledger extends the shorter one.
LEMMA PrefixTaken ==
  ASSUME NEW S, NEW s \in Seq(S), NEW t \in Seq(S), IsPrefix(s, t), NEW n \in Len(s)..Len(t)
  PROVE  /\ SubSeq(t, 1, n) \in Seq(S)
         /\ IsPrefix(s, SubSeq(t, 1, n)) /\ IsPrefix(SubSeq(t, 1, n), t)
<1>1. n \in Nat /\ n <= Len(t) /\ Len(s) <= n
  OBVIOUS
<1>2. /\ SubSeq(t, 1, n) \in Seq(S) /\ Len(SubSeq(t, 1, n)) = n
      /\ \A i \in 1..n : SubSeq(t, 1, n)[i] = t[i]
  BY <1>1
<1>3. \A i \in 1..Len(s) : s[i] = t[i]
  BY PrefixPoints
<1>4. \A i \in 1..Len(s) : s[i] = SubSeq(t, 1, n)[i]
  BY <1>1, <1>2, <1>3
<1> QED
  BY <1>1, <1>2, <1>4, PrefixPoints

LEMMA SubsequencePrefix ==
  ASSUME NEW S, NEW s \in Seq(S), NEW t \in Seq(S), NEW u \in Seq(S),
         IsSubsequence(s, t), IsPrefix(t, u)
  PROVE  IsSubsequence(s, u)
<1>1. PICK f \in [DOMAIN s -> DOMAIN t] :
        /\ \A i, j \in DOMAIN s : i < j => f[i] < f[j]
        /\ \A i \in DOMAIN s : s[i] = t[f[i]]
  BY DEF IsSubsequence
<1>2. /\ DOMAIN t = 1..Len(t) /\ DOMAIN u = 1..Len(u)
      /\ Len(t) <= Len(u) /\ \A i \in 1..Len(t) : t[i] = u[i]
  BY PrefixPoints
<1>3. DOMAIN t \subseteq DOMAIN u
  BY <1>2
<1>4. f \in [DOMAIN s -> DOMAIN u]
  BY <1>3
<1>5. \A i \in DOMAIN s : s[i] = u[f[i]]
  BY <1>1, <1>2
<1> QED
  BY <1>1, <1>4, <1>5 DEF IsSubsequence

LEMMA SubsequenceAppended ==
  ASSUME NEW S, NEW s \in Seq(S), NEW t \in Seq(S), NEW e \in S, IsSubsequence(s, t)
  PROVE  IsSubsequence(Append(s, e), Append(t, e))
<1>1. PICK f \in [DOMAIN s -> DOMAIN t] :
        /\ \A i, j \in DOMAIN s : i < j => f[i] < f[j]
        /\ \A i \in DOMAIN s : s[i] = t[f[i]]
  BY DEF IsSubsequence
<1>2. /\ DOMAIN s = 1..Len(s) /\ DOMAIN Append(s, e) = 1..(Len(s) + 1) /\ Len(s) \in Nat
      /\ DOMAIN t = 1..Len(t) /\ DOMAIN Append(t, e) = 1..(Len(t) + 1) /\ Len(t) \in Nat
  OBVIOUS
<1> DEFINE g == [i \in 1..(Len(s) + 1) |-> IF i = Len(s) + 1 THEN Len(t) + 1 ELSE f[i]]
<1>3. \A i \in 1..Len(s) : f[i] \in 1..Len(t)
  BY <1>2
<1>4. g \in [1..(Len(s) + 1) -> 1..(Len(t) + 1)]
  BY <1>2, <1>3
<1>5. \A i, j \in 1..(Len(s) + 1) : i < j => g[i] < g[j]
  <2> SUFFICES ASSUME NEW i \in 1..(Len(s) + 1), NEW j \in 1..(Len(s) + 1), i < j
               PROVE  g[i] < g[j]
    OBVIOUS
  <2>1. i \in 1..Len(s) /\ g[i] = f[i]
    BY <1>2
  <2>2. CASE j = Len(s) + 1
    BY <2>1, <2>2, <1>2, <1>3
  <2>3. CASE j # Len(s) + 1
    <3>1. j \in 1..Len(s) /\ g[j] = f[j]
      BY <2>3, <1>2
    <3> QED
      BY <2>1, <3>1, <1>1, <1>2
  <2> QED
    BY <2>2, <2>3
<1>6. \A i \in 1..(Len(s) + 1) : Append(s, e)[i] = Append(t, e)[g[i]]
  <2> SUFFICES ASSUME NEW i \in 1..(Len(s) + 1)
               PROVE  Append(s, e)[i] = Append(t, e)[g[i]]
    OBVIOUS
  <2>1. CASE i = Len(s) + 1
    BY <2>1, <1>2
  <2>2. CASE i # Len(s) + 1
    <3>1. i \in 1..Len(s) /\ g[i] = f[i] /\ f[i] \in 1..Len(t)
      BY <2>2, <1>2, <1>3
    <3>2. Append(s, e)[i] = s[i] /\ Append(t, e)[f[i]] = t[f[i]]
      BY <3>1
    <3> QED
      BY <3>1, <3>2, <1>1, <1>2
  <2> QED
    BY <2>1, <2>2
<1> HIDE DEF g
<1> QED
  BY <1>2, <1>4, <1>5, <1>6 DEF IsSubsequence

LEMMA SubsequenceEmpty ==
  ASSUME NEW S, NEW t \in Seq(S)
  PROVE  IsSubsequence(<<>>, t)
<1>1. DOMAIN <<>> = {}
  OBVIOUS
<1>2. PICK f : f \in [{} -> DOMAIN t]
  <2>1. [i \in {} |-> 0] \in [{} -> DOMAIN t]
    OBVIOUS
  <2> QED
    BY <2>1
<1> QED
  BY <1>1, <1>2 DEF IsSubsequence

-----------------------------------------------------------------------------
(* The summary of a ledger.  The recursion of Summary is over the length;  *)
(* that a recursive function exists and is the only one is shown with a    *)
(* least length for which it would not.                                    *)

Less == {ss \in Nat \X Nat : ss[1] < ss[2]}

LEMMA LeastLength ==
  ASSUME NEW T, T \subseteq Nat, T # {}
  PROVE  \E x \in T : \A y \in T : x <= y
<1>1. IsWellFoundedOn(Less, Nat)
  BY NatLessThanWellFounded DEF OpToRel, Less
<1>2. PICK x \in T : \A y \in T : ~(<<y, x>> \in Less)
  BY <1>1, WFMin
<1>3. \A y \in T : x <= y
  <2> SUFFICES ASSUME NEW y \in T, y < x PROVE FALSE
    BY <1>2
  <2>1. <<y, x>> \in Less
    BY DEF Less
  <2> QED
    BY <1>2, <2>1
<1> QED
  BY <1>3

\* g holds the summaries of the first events up to n of them.
Summaries(events, n, g) ==
  g = [k \in 0..n |-> IF k = 0 THEN Created ELSE Apply(g[k - 1], events[k])]

LEMMA SummariesExist ==
  ASSUME NEW events, NEW n \in Nat
  PROVE  \E g : Summaries(events, n, g)
<1> DEFINE T == {m \in Nat : ~\E g : Summaries(events, m, g)}
<1> SUFFICES ASSUME T # {} PROVE FALSE
  OBVIOUS
<1>1. PICK m \in T : \A y \in T : m <= y
  <2>1. T \subseteq Nat
    OBVIOUS
  <2> HIDE DEF T
  <2> QED
    BY <2>1, LeastLength
<1>2. CASE m = 0
  <2> DEFINE g == [k \in 0..0 |-> Created]
  <2>1. g = [k \in 0..0 |-> IF k = 0 THEN Created ELSE Apply(g[k - 1], events[k])]
    OBVIOUS
  <2>2. Summaries(events, 0, g)
    BY <2>1 DEF Summaries
  <2> QED
    BY <1>2, <2>2
<1>3. CASE m # 0
  <2>1. m - 1 \in Nat /\ m - 1 \notin T
    BY <1>1, <1>3
  <2>2. PICK g : Summaries(events, m - 1, g)
    BY <2>1
  <2>3. \A k \in 0..(m - 1) : g[k] = IF k = 0 THEN Created ELSE Apply(g[k - 1], events[k])
    BY <2>2 DEF Summaries
  <2> DEFINE h == [k \in 0..m |-> IF k = m THEN Apply(g[m - 1], events[m]) ELSE g[k]]
  <2>4. \A k \in 0..m : h[k] = IF k = 0 THEN Created ELSE Apply(h[k - 1], events[k])
    <3> SUFFICES ASSUME NEW k \in 0..m
                 PROVE  h[k] = IF k = 0 THEN Created ELSE Apply(h[k - 1], events[k])
      OBVIOUS
    <3>1. CASE k = m
      <4>1. h[m - 1] = g[m - 1] /\ h[m] = Apply(g[m - 1], events[m])
        BY <2>1
      <4> QED
        BY <4>1, <3>1, <1>3
    <3>2. CASE k # m
      <4>1. k \in 0..(m - 1) /\ h[k] = g[k] /\ (k # 0 => h[k - 1] = g[k - 1])
        BY <3>2, <2>1
      <4>2. g[k] = IF k = 0 THEN Created ELSE Apply(g[k - 1], events[k])
        BY <2>3, <4>1
      <4> QED
        BY <4>1, <4>2
    <3> QED
      BY <3>1, <3>2
  <2>5. h = [k \in 0..m |-> h[k]]
    OBVIOUS
  <2> HIDE DEF h
  <2>6. Summaries(events, m, h)
    BY <2>4, <2>5 DEF Summaries
  <2> QED
    BY <2>6
<1> QED
  BY <1>2, <1>3

\* The summaries of the first events depend on those events only.
LEMMA SummariesAgree ==
  ASSUME NEW s, NEW t, NEW m \in Nat, NEW n \in Nat, m <= n,
         \A k \in 1..m : s[k] = t[k],
         NEW g, Summaries(s, m, g), NEW h, Summaries(t, n, h)
  PROVE  \A k \in 0..m : g[k] = h[k]
<1> DEFINE T == {k \in 0..m : g[k] # h[k]}
<1> SUFFICES ASSUME T # {} PROVE FALSE
  OBVIOUS
<1>1. PICK k \in T : \A y \in T : k <= y
  <2>1. T \subseteq Nat
    OBVIOUS
  <2> HIDE DEF T
  <2> QED
    BY <2>1, LeastLength
<1>2. \A i \in 0..m : g[i] = IF i = 0 THEN Created ELSE Apply(g[i - 1], s[i])
  BY DEF Summaries
<1>3. \A i \in 0..n : h[i] = IF i = 0 THEN Created ELSE Apply(h[i - 1], t[i])
  BY DEF Summaries
<1>4. CASE k = 0
  BY <1>2, <1>3, <1>4
<1>5. CASE k # 0
  <2>1. k - 1 \in 0..m /\ k - 1 \notin T /\ k \in 1..m /\ k \in 0..n
    BY <1>1, <1>5
  <2>2. g[k - 1] = h[k - 1] /\ s[k] = t[k]
    BY <2>1
  <2>3. g[k] = Apply(g[k - 1], s[k]) /\ h[k] = Apply(h[k - 1], t[k])
    BY <2>1, <1>2, <1>3, <1>5
  <2> QED
    BY <2>2, <2>3
<1> QED
  BY <1>4, <1>5

LEMMA NextSummary ==
  ASSUME NEW s, NEW t, NEW n \in Nat, \A k \in 1..n : s[k] = t[k],
         NEW g, Summaries(s, n, g), NEW h, Summaries(t, n + 1, h)
  PROVE  h[n + 1] = Apply(g[n], t[n + 1])
<1>1. n + 1 \in Nat /\ n <= n + 1 /\ n \in 0..n
  OBVIOUS
<1>2. \A k \in 0..n : g[k] = h[k]
  BY <1>1, SummariesAgree
<1>3. h[n + 1] = Apply(h[n], t[n + 1])
  BY DEF Summaries
<1> QED
  BY <1>1, <1>2, <1>3

LEMMA SummaryIsLast ==
  ASSUME NEW S, NEW events \in Seq(S)
  PROVE  \E g : Summaries(events, Len(events), g) /\ Summary(events) = g[Len(events)]
<1> DEFINE n == Len(events)
           after == CHOOSE g : g = [k \in 0..n |-> IF k = 0 THEN Created
                                                   ELSE Apply(g[k - 1], events[k])]
<1>1. \E g : g = [k \in 0..n |-> IF k = 0 THEN Created ELSE Apply(g[k - 1], events[k])]
  <2>1. n \in Nat
    OBVIOUS
  <2> HIDE DEF n
  <2>2. PICK g : Summaries(events, n, g)
    BY <2>1, SummariesExist
  <2> QED
    BY <2>2 DEF Summaries
<1>2. after = [k \in 0..n |-> IF k = 0 THEN Created ELSE Apply(after[k - 1], events[k])]
  <2> HIDE DEF n
  <2> QED
    BY <1>1
<1>3. Summary(events) = after[n]
  BY DEF Summary
<1> HIDE DEF after
<1> QED
  BY <1>2, <1>3 DEF Summaries

LEMMA SummaryCreated == Summary(<<>>) = Created
<1>1. PICK g : Summaries(<<>>, 0, g) /\ Summary(<<>>) = g[0]
  <2>1. <<>> \in Seq({}) /\ Len(<<>>) = 0
    OBVIOUS
  <2> QED
    BY <2>1, SummaryIsLast
<1> QED
  BY <1>1 DEF Summaries

LEMMA SummaryAppended ==
  ASSUME NEW S, NEW events \in Seq(S), NEW e \in S
  PROVE  Summary(Append(events, e)) = Apply(Summary(events), e)
<1> DEFINE n == Len(events)
           longer == Append(events, e)
<1>1. /\ longer \in Seq(S) /\ Len(longer) = n + 1 /\ n \in Nat
      /\ longer[n + 1] = e /\ \A k \in 1..n : events[k] = longer[k]
  OBVIOUS
<1>2. PICK g : Summaries(events, n, g) /\ Summary(events) = g[n]
  BY SummaryIsLast
<1> HIDE DEF longer
<1>3. PICK h : Summaries(longer, n + 1, h) /\ Summary(longer) = h[n + 1]
  BY <1>1, SummaryIsLast
<1> HIDE DEF n
<1>4. h[n + 1] = Apply(g[n], longer[n + 1])
  BY <1>1, <1>2, <1>3, NextSummary
<1> QED
  BY <1>1, <1>2, <1>3, <1>4 DEF longer

-----------------------------------------------------------------------------
(* Types and the lock.                                                     *)

LEMMA TypedStep == Typed /\ [Next]_vars => Typed'
<1> SUFFICES ASSUME Typed, [Next]_vars PROVE Typed'
  OBVIOUS
<1> USE DEF Typed, files, writer, inspection
<1>0. /\ <<>> \in Seq(Inputs)
      /\ NoCall \in [event : Inputs \cup {RunBlocked}, passed : BOOLEAN]
      /\ NoRead \in [step : {"idle", "checkpoint", "events", "check", "returned"},
                     head : Seq(Inputs), events : Seq(Inputs)]
  BY DEF NoCall, NoRead
<1>1. ASSUME NEW p \in Writers, Appends(p) PROVE Typed'
  <2> USE DEF Step, Steps
  <2>1. ASSUME NEW e \in Inputs, NEW passed \in BOOLEAN, AcquireUpdateLock(p, e, passed)
        PROVE  Typed'
    BY <2>1 DEF AcquireUpdateLock
  <2>2. CASE ReadAndValidate(p)
    <3>1. cache.events \in Seq(Inputs) /\ pc[p] # "idle" /\ call[p].event \in Inputs
      BY <2>2 DEF ReadAndValidate
    <3>2. Append(cache.events, call[p].event) \in Seq(Inputs)
      BY <3>1
    <3>3. /\ next' \in [Writers -> Seq(Inputs)] /\ pc' \in [Writers -> Steps]
          /\ \A q \in Writers : pc'[q] # "idle" => pc[q] # "idle"
      BY <2>2, <3>1, <3>2 DEF ReadAndValidate
    <3> QED
      BY <2>2, <3>3 DEF ReadAndValidate
  <2>3. CASE RenameSnapshot(p)
    <3>1. Len(next[p]) \in Nat
      OBVIOUS
    <3> QED
      BY <2>3, <3>1 DEF RenameSnapshot
  <2>4. CASE SyncSnapshot(p)
    BY <2>4 DEF SyncSnapshot
  <2>5. CASE WritePart(p)
    BY <2>5 DEF WritePart
  <2>6. CASE WriteLine(p)
    BY <2>6 DEF WriteLine
  <2>7. CASE SyncEvents(p)
    BY <2>7 DEF SyncEvents
  <2>8. CASE RenameCheckpoint(p)
    BY <2>8 DEF RenameCheckpoint
  <2>9. CASE SyncCheckpoint(p)
    BY <2>9 DEF SyncCheckpoint
  <2>10. CASE Return(p)
    <3>1. acked' \in Seq(Inputs)
      BY <2>10 DEF Return
    <3> QED
      BY <1>0, <2>10, <3>1 DEF Return
  <2> QED
    BY <1>1, <2>1, <2>2, <2>3, <2>4, <2>5, <2>6, <2>7, <2>8, <2>9, <2>10 DEF Appends
<1>2. ASSUME NEW p \in Writers, CallFails(p) \/ ReleaseFails(p) \/ Killed(p) PROVE Typed'
  <2>1. CASE CallFails(p)
    BY <2>1 DEF CallFails, Steps
  <2>2. CASE ReleaseFails(p) \/ Killed(p)
    <3>1. Forget(p) /\ UNCHANGED <<files, acked, inspection>>
      BY <2>2 DEF ReleaseFails, Killed
    <3>2. pc' \in [Writers -> Steps] /\ \A q \in Writers : pc'[q] # "idle" => pc'[q] = pc[q]
      BY <3>1 DEF Forget, Steps
    <3>3. /\ call' \in [Writers -> [event : Inputs \cup {RunBlocked}, passed : BOOLEAN]]
          /\ next' \in [Writers -> Seq(Inputs)]
          /\ \A q \in Writers : q # p => call'[q] = call[q]
      BY <1>0, <3>1 DEF Forget
    <3>4. pc'[p] = "idle"
      BY <3>1 DEF Forget
    <3> QED
      BY <3>1, <3>2, <3>3, <3>4
  <2> QED
    BY <1>2, <2>1, <2>2
<1>3. CASE Inspects
  <2>1. CASE InspectionBegins
    BY <1>0, <2>1 DEF InspectionBegins
  <2>2. CASE InspectCheckpoint
    BY <2>2 DEF InspectCheckpoint
  <2>3. CASE InspectEvents
    BY <1>0, <2>3 DEF InspectEvents
  <2>4. CASE InspectionEnds \/ InspectionShown
    BY <1>0, <2>4 DEF InspectionEnds, InspectionShown
  <2> QED
    BY <1>3, <2>1, <2>2, <2>3, <2>4 DEF Inspects
<1>4. CASE PowerFails
  <2>1. PICK ledger \in SurvivingLedger, c \in {cache, disk}, s \in {cache, disk} :
          cache' = [events |-> ledger.events, partial |-> ledger.partial,
                    head |-> c.head, passed |-> c.passed, snapshot |-> s.snapshot]
    BY <1>4 DEF PowerFails
  <2>2. ledger.events \in Seq(Inputs) /\ ledger.partial \in BOOLEAN
    <3>1. PICK n \in Len(disk.events)..Len(cache.events) :
            ledger.events = SubSeq(cache.events, 1, n)
      BY DEF SurvivingLedger
    <3>2. n \in Nat /\ n <= Len(cache.events) /\ cache.events \in Seq(Inputs)
      OBVIOUS
    <3>3. SubSeq(cache.events, 1, n) \in Seq(Inputs)
      BY <3>2
    <3> QED
      BY <3>1, <3>3 DEF SurvivingLedger
  <2>3. c \in [events : Seq(Inputs), partial : BOOLEAN, head : Seq(Inputs),
               passed : BOOLEAN, snapshot : Nat] /\ s.snapshot \in Nat
    OBVIOUS
  <2>4. cache' \in [events : Seq(Inputs), partial : BOOLEAN, head : Seq(Inputs),
                    passed : BOOLEAN, snapshot : Nat]
    BY <2>1, <2>2, <2>3
  <2> QED
    BY <1>0, <1>4, <2>4 DEF PowerFails, Steps
<1>5. CASE StaleLockRemoved
  BY <1>5 DEF StaleLockRemoved
<1>6. CASE UNCHANGED vars
  BY <1>6 DEF vars
<1> QED
  BY <1>1, <1>2, <1>3, <1>4, <1>5, <1>6 DEF Next

LEMMA LockingStep == Typed /\ Locking /\ [Next]_vars => Locking'
<1> SUFFICES ASSUME Typed, Locking, [Next]_vars PROVE Locking'
  OBVIOUS
<1> USE DEF Locking, files, writer, inspection
<1>0. pc \in [Writers -> Steps] /\ "free" \notin Writers /\ "stale" \notin Writers
  BY StoreAssumption DEF Typed
<1>1. ASSUME NEW p \in Writers, Appends(p) PROVE Locking'
  BY <1>0, <1>1 DEF Appends, Step, AcquireUpdateLock, ReadAndValidate, RenameSnapshot, SyncSnapshot,
       WritePart, WriteLine, SyncEvents, RenameCheckpoint, SyncCheckpoint, Return
<1>2. ASSUME NEW p \in Writers, CallFails(p) \/ ReleaseFails(p) \/ Killed(p) PROVE Locking'
  BY <1>0, <1>2 DEF CallFails, ReleaseFails, Killed, Forget
<1>3. CASE Inspects \/ StaleLockRemoved
  BY <1>0, <1>3 DEF Inspects, InspectionBegins, InspectCheckpoint, InspectEvents, InspectionEnds,
              InspectionShown, StaleLockRemoved
<1>4. CASE PowerFails
  BY <1>4 DEF PowerFails
<1>5. CASE UNCHANGED vars
  BY <1>5 DEF vars
<1> QED
  BY <1>1, <1>2, <1>3, <1>4, <1>5 DEF Next

-----------------------------------------------------------------------------
(* The other conjuncts.  Writer(p) is what the invariant says of writer p. *)

Writer(p) == Writing(p) /\ Committing(p) /\ Snapshotting(p)

\* Only one process is inside append.
LEMMA OthersIdle ==
  ASSUME Typed, Locking, NEW p \in Writers, pc[p] # "idle" \/ lock = "free",
         pc' \in [Writers -> Steps], \A q \in Writers \ {p} : pc'[q] = pc[q]
  PROVE  \A q \in Writers \ {p} : Writer(q)'
<1> SUFFICES ASSUME NEW q \in Writers \ {p} PROVE Writer(q)'
  OBVIOUS
<1>1. pc'[q] = "idle"
  BY StoreAssumption DEF Locking, Typed
<1> QED
  BY <1>1 DEF Writer, Writing, Committing, Snapshotting, Unwritten, Unsealed, Sealed

\* While a stop is being written the record before it is not a stopped one.
LEMMA StopsOnce ==
  ASSUME NEW p \in Writers, Allowed(p), Snapshots(call[p].event)
  PROVE  Summary(cache.head).status # "stopped"
<1> DEFINE L == Summary(cache.head)
           e == call[p].event
<1>1. ValidNext(L, e, call[p].passed) /\ e.type = "run_stopped"
  BY DEF Allowed, Accepts, Snapshots
<1> HIDE DEF L, e
<1>2. StopRule(L, e)
  BY <1>1 DEF ValidNext, ResumeRule, IterationRule, EvaluationRule, ApprovalRule, ReservationRule,
              OutcomeRule, ClarificationRule, FinishRule, LimitRule
<1> QED
  BY <1>2 DEF StopRule, L

\* A record is stopped by its last event alone.
LEMMA StoppedBySnapshot ==
  ASSUME NEW h \in Seq(Inputs), NEW e \in Inputs, Summary(Append(h, e)).status = "stopped"
  PROVE  Snapshots(e)
<1>1. Apply(Summary(h), e).status = "stopped"
  BY SummaryAppended
<1>2. EventStatus(e) = "stopped"
  BY <1>1 DEF Apply
<1> QED
  BY <1>2 DEF EventStatus, Snapshots

\* What the proofs below use of the types.
LEMMA Sequences ==
  ASSUME Typed
  PROVE  /\ cache.events \in Seq(Inputs) /\ cache.head \in Seq(Inputs)
         /\ disk.events \in Seq(Inputs) /\ disk.head \in Seq(Inputs)
         /\ acked \in Seq(Inputs) /\ floor \in Seq(Inputs)
         /\ reader.head \in Seq(Inputs) /\ reader.events \in Seq(Inputs)
         /\ \A p \in Writers : next[p] \in Seq(Inputs)
         /\ \A p \in Writers : pc[p] # "idle" => call[p].event \in Inputs
  BY DEF Typed

Rest == Ordered /\ (\A p \in Writers : Writer(p)) /\ Snapshotted /\ Acknowledged /\ Inspecting

LEMMA AcquireStep ==
  ASSUME Inv, Typed', NEW p \in Writers, NEW e \in Inputs, NEW passed \in BOOLEAN,
         AcquireUpdateLock(p, e, passed)
  PROVE  Rest'
<1>1. /\ Typed /\ Locking /\ lock = "free" /\ pc' \in [Writers -> Steps]
      /\ pc'[p] = "reading" /\ \A q \in Writers \ {p} : pc'[q] = pc[q]
      /\ UNCHANGED <<cache, disk, acked, reader, floor>>
  BY DEF Inv, Typed, AcquireUpdateLock, Step, files, inspection
<1>2. Writer(p)'
  BY <1>1 DEF Writer, Writing, Committing, Snapshotting, Unwritten, Unsealed, Sealed
<1>3. \A q \in Writers \ {p} : Writer(q)'
  BY <1>1, OthersIdle
<1>4. Ordered' /\ Snapshotted' /\ Acknowledged' /\ Inspecting'
  BY <1>1 DEF Inv, Ordered, Snapshotted, Acknowledged, Inspecting
<1> QED
  BY <1>2, <1>3, <1>4 DEF Rest

LEMMA ReadStep ==
  ASSUME Inv, Typed', NEW p \in Writers, ReadAndValidate(p)
  PROVE  Rest'
<1>1. /\ Typed /\ Locking /\ pc[p] # "idle" /\ pc' \in [Writers -> Steps]
      /\ pc'[p] \in {"snapshot", "append", "refused"} /\ \A q \in Writers \ {p} : pc'[q] = pc[q]
      /\ UNCHANGED <<cache, disk, acked, reader, floor, call>>
  BY DEF Inv, Typed, ReadAndValidate, files, inspection
<1>2. pc'[p] # "refused" =>
        /\ Acceptable(p) /\ next'[p] = Append(cache.events, call[p].event)
        /\ pc'[p] = "snapshot" <=> Snapshots(call[p].event)
  BY <1>1 DEF ReadAndValidate, Typed
<1>3. pc'[p] # "refused" => Allowed(p)' /\ cache.head = cache.events
  <2> SUFFICES ASSUME Acceptable(p) PROVE Allowed(p)' /\ cache.head = cache.events
    BY <1>2
  <2> QED
    BY <1>1 DEF Acceptable, Allowed, Consistent
<1>4. Writer(p)'
  <2>1. Writing(p)'
    BY <1>1, <1>2, <1>3 DEF Writing, Unwritten, Unsealed
  <2>2. Committing(p)' /\ Snapshotting(p)'
    BY <1>1, <1>2 DEF Committing, Snapshotting, Unsealed, Sealed
  <2> QED
    BY <2>1, <2>2 DEF Writer
<1>5. \A q \in Writers \ {p} : Writer(q)'
  BY <1>1, OthersIdle
<1>6. Ordered' /\ Snapshotted' /\ Acknowledged' /\ Inspecting'
  BY <1>1 DEF Inv, Ordered, Snapshotted, Acknowledged, Inspecting
<1> QED
  BY <1>4, <1>5, <1>6 DEF Rest

LEMMA RenameSnapshotStep ==
  ASSUME Inv, Typed', NEW p \in Writers, RenameSnapshot(p)
  PROVE  Rest'
<1>1. /\ Typed /\ Locking /\ pc[p] = "snapshot" /\ pc' \in [Writers -> Steps]
      /\ pc'[p] = "syncSnapshot" /\ \A q \in Writers \ {p} : pc'[q] = pc[q]
      /\ UNCHANGED <<disk, acked, reader, floor, call, next>>
      /\ cache'.head = cache.head /\ cache'.events = cache.events
      /\ cache'.snapshot = Len(next[p])
  BY DEF Inv, Typed, RenameSnapshot, Step, inspection
<1>2. Writing(p) /\ Snapshotting(p)
  BY DEF Inv
<1>3. Allowed(p) /\ Snapshots(call[p].event)
  BY <1>1, <1>2 DEF Writing, Snapshotting, Unwritten
<1>4. Writer(p)'
  <2>1. Allowed(p)'
    BY <1>1, <1>3 DEF Allowed
  <2>2. Writing(p)'
    BY <1>1, <1>2, <2>1 DEF Writing, Unwritten, Unsealed
  <2>3. Committing(p)' /\ Snapshotting(p)'
    BY <1>1, <1>3 DEF Committing, Snapshotting, Sealed, Unsealed
  <2> QED
    BY <2>2, <2>3 DEF Writer
<1>5. \A q \in Writers \ {p} : Writer(q)'
  BY <1>1, OthersIdle
<1>6. Snapshotted'
  <2>1. Summary(cache.head).status # "stopped"
    BY <1>3, StopsOnce
  <2> QED
    BY <1>1, <2>1 DEF Snapshotted
<1>7. Ordered' /\ Acknowledged' /\ Inspecting'
  BY <1>1 DEF Inv, Ordered, Acknowledged, Inspecting
<1> QED
  BY <1>4, <1>5, <1>6, <1>7 DEF Rest

LEMMA SyncSnapshotStep ==
  ASSUME Inv, Typed', NEW p \in Writers, SyncSnapshot(p)
  PROVE  Rest'
<1>1. /\ Typed /\ Locking /\ pc[p] = "syncSnapshot" /\ pc' \in [Writers -> Steps]
      /\ pc'[p] = "append" /\ \A q \in Writers \ {p} : pc'[q] = pc[q]
      /\ UNCHANGED <<cache, acked, reader, floor, call, next>>
      /\ disk'.head = disk.head /\ disk'.events = disk.events
      /\ disk'.snapshot = cache.snapshot
  BY DEF Inv, Typed, SyncSnapshot, Step, inspection
<1>2. Writing(p) /\ Snapshotting(p)
  BY DEF Inv
<1>3. Allowed(p) /\ Snapshots(call[p].event) /\ cache.snapshot = Len(next[p])
  BY <1>1, <1>2 DEF Writing, Snapshotting, Unwritten
<1>4. Writer(p)'
  <2>1. Allowed(p)'
    BY <1>1, <1>3 DEF Allowed
  <2>2. Writing(p)'
    BY <1>1, <1>2, <2>1 DEF Writing, Unwritten, Unsealed
  <2>3. Committing(p)' /\ Snapshotting(p)'
    BY <1>1, <1>3 DEF Committing, Snapshotting, Sealed, Unsealed
  <2> QED
    BY <2>2, <2>3 DEF Writer
<1>5. \A q \in Writers \ {p} : Writer(q)'
  BY <1>1, OthersIdle
<1>6. Snapshotted'
  <2>1. Summary(cache.head).status # "stopped"
    BY <1>3, StopsOnce
  <2> QED
    BY <1>1, <2>1 DEF Snapshotted
<1>7. Ordered' /\ Acknowledged' /\ Inspecting'
  BY <1>1 DEF Inv, Ordered, Acknowledged, Inspecting
<1> QED
  BY <1>4, <1>5, <1>6, <1>7 DEF Rest

\* The two halves of writing the line change the end of the cached ledger only.
LEMMA WriteStep ==
  ASSUME Inv, Typed', NEW p \in Writers, WritePart(p) \/ WriteLine(p)
  PROVE  Rest'
<1>1. /\ Typed /\ Locking /\ pc[p] \in {"append", "line"} /\ pc' \in [Writers -> Steps]
      /\ \A q \in Writers \ {p} : pc'[q] = pc[q]
      /\ UNCHANGED <<disk, acked, reader, floor, call, next>>
      /\ cache'.head = cache.head /\ cache'.snapshot = cache.snapshot
      /\ \/ pc'[p] = "line" /\ cache'.events = cache.events
         \/ pc'[p] = "syncEvents" /\ cache'.events = next[p]
  BY DEF Inv, Typed, WritePart, WriteLine, Step, inspection
<1>2. Writing(p) /\ Snapshotting(p)
  BY DEF Inv
<1>3. Allowed(p) /\ next[p] = Append(cache.head, call[p].event) /\ cache.events = cache.head
  BY <1>1, <1>2 DEF Writing, Unwritten
<1>4. Writer(p)'
  <2>1. Allowed(p)'
    BY <1>1, <1>3 DEF Allowed
  <2>2. Writing(p)'
    BY <1>1, <1>3, <2>1 DEF Writing, Unwritten, Unsealed
  <2>3. Committing(p)' /\ Snapshotting(p)'
    BY <1>1, <1>2 DEF Committing, Snapshotting, Sealed, Unsealed
  <2> QED
    BY <2>2, <2>3 DEF Writer
<1>5. \A q \in Writers \ {p} : Writer(q)'
  BY <1>1, OthersIdle
<1>6. Ordered'
  <2>1. IsPrefix(disk.head, cache.head) /\ IsPrefix(cache.head, disk.events)
        /\ IsPrefix(disk.events, cache.events)
    BY DEF Inv, Ordered
  <2>2. call[p].event \in Inputs /\ cache.head \in Seq(Inputs)
        /\ disk.events \in Seq(Inputs) /\ next[p] \in Seq(Inputs)
    BY <1>1, Sequences
  <2>3. IsPrefix(cache.head, next[p])
    BY <1>3, <2>2, PrefixAppended
  <2>4. IsPrefix(disk.events, next[p])
    BY <1>3, <2>1, <2>2, <2>3, PrefixTransitive
  <2> QED
    BY <1>1, <2>1, <2>4 DEF Ordered
<1>7. Snapshotted' /\ Acknowledged' /\ Inspecting'
  BY <1>1 DEF Inv, Snapshotted, Acknowledged, Inspecting
<1> QED
  BY <1>4, <1>5, <1>6, <1>7 DEF Rest

LEMMA SyncEventsStep ==
  ASSUME Inv, Typed', NEW p \in Writers, SyncEvents(p)
  PROVE  Rest'
<1>1. /\ Typed /\ Locking /\ pc[p] = "syncEvents" /\ pc' \in [Writers -> Steps]
      /\ pc'[p] = "checkpoint" /\ \A q \in Writers \ {p} : pc'[q] = pc[q]
      /\ UNCHANGED <<cache, acked, reader, floor, call, next>>
      /\ disk'.head = disk.head /\ disk'.snapshot = disk.snapshot
      /\ disk'.events = cache.events
  BY DEF Inv, Typed, SyncEvents, Step, inspection
<1>2. Writing(p) /\ Snapshotting(p)
  BY DEF Inv
<1>3. Allowed(p) /\ next[p] = Append(cache.head, call[p].event) /\ cache.events = next[p]
  BY <1>1, <1>2 DEF Writing, Unwritten, Unsealed
<1>4. Writer(p)'
  <2>1. Allowed(p)'
    BY <1>1, <1>3 DEF Allowed
  <2>2. Writing(p)'
    BY <1>1, <1>3, <2>1 DEF Writing, Unwritten, Unsealed
  <2>3. Committing(p)' /\ Snapshotting(p)'
    BY <1>1, <1>2 DEF Committing, Snapshotting, Sealed, Unsealed
  <2> QED
    BY <2>2, <2>3 DEF Writer
<1>5. \A q \in Writers \ {p} : Writer(q)'
  BY <1>1, OthersIdle
<1>6. /\ call[p].event \in Inputs /\ cache.head \in Seq(Inputs) /\ next[p] \in Seq(Inputs)
      /\ IsPrefix(cache.head, next[p]) /\ cache.head # next[p] /\ IsPrefix(next[p], next[p])
  <2>1. call[p].event \in Inputs /\ cache.head \in Seq(Inputs) /\ next[p] \in Seq(Inputs)
    BY <1>1, Sequences
  <2> QED
    BY <1>3, <2>1, PrefixAppended, PrefixSelf
<1>7. Ordered'
  BY <1>1, <1>3, <1>6 DEF Inv, Ordered
<1>8. Snapshotted'
  BY <1>1, <1>3, <1>6 DEF Snapshotted
<1>9. Acknowledged' /\ Inspecting'
  BY <1>1 DEF Inv, Acknowledged, Inspecting
<1> QED
  BY <1>4, <1>5, <1>7, <1>8, <1>9 DEF Rest

\* The step that commits: what readers accept grows by one event.
LEMMA RenameCheckpointStep ==
  ASSUME Inv, Typed', NEW p \in Writers, RenameCheckpoint(p)
  PROVE  Rest'
<1>1. /\ Typed /\ Locking /\ pc[p] = "checkpoint" /\ pc' \in [Writers -> Steps]
      /\ pc'[p] = "syncCheckpoint" /\ \A q \in Writers \ {p} : pc'[q] = pc[q]
      /\ UNCHANGED <<disk, acked, reader, floor, call, next>>
      /\ cache'.head = next[p] /\ cache'.events = cache.events /\ cache'.snapshot = cache.snapshot
  BY DEF Inv, Typed, RenameCheckpoint, Step, inspection
<1>2. Writing(p) /\ Snapshotting(p) /\ Ordered /\ Acknowledged /\ Inspecting
  BY DEF Inv
<1>3. next[p] = Append(cache.head, call[p].event) /\ cache.events = next[p] /\ disk.events = next[p]
  BY <1>1, <1>2 DEF Writing, Unwritten, Unsealed
<1>4. /\ call[p].event \in Inputs /\ cache.head \in Seq(Inputs) /\ next[p] \in Seq(Inputs)
      /\ disk.head \in Seq(Inputs) /\ acked \in Seq(Inputs) /\ floor \in Seq(Inputs)
      /\ reader.head \in Seq(Inputs)
  BY <1>1, Sequences
<1>5. IsPrefix(cache.head, next[p]) /\ IsPrefix(next[p], next[p])
  BY <1>3, <1>4, PrefixAppended, PrefixSelf
<1>6. Writer(p)'
  <2>1. IsSubsequence(acked, cache.head)
    BY <1>2, <1>4, SubsequencePrefix DEF Ordered, Acknowledged
  <2>2. IsSubsequence(Append(acked, call[p].event), next[p])
    BY <1>3, <1>4, <2>1, SubsequenceAppended
  <2> QED
    BY <1>1, <1>3, <2>2 DEF Writer, Writing, Committing, Snapshotting, Unwritten, Unsealed, Sealed
<1>7. \A q \in Writers \ {p} : Writer(q)'
  BY <1>1, OthersIdle
<1>8. Ordered'
  <2>1. IsPrefix(disk.head, next[p])
    BY <1>2, <1>4, <1>5, PrefixTransitive DEF Ordered
  <2> QED
    BY <1>1, <1>3, <1>5, <2>1 DEF Ordered
<1>9. Snapshotted'
  <2> SUFFICES ASSUME Summary(next[p]).status = "stopped"
               PROVE  cache.snapshot = Len(next[p]) /\ disk.snapshot = Len(next[p])
    BY <1>1 DEF Snapshotted
  <2>1. Snapshots(call[p].event)
    BY <1>3, <1>4, StoppedBySnapshot
  <2> QED
    BY <1>1, <1>2, <2>1 DEF Snapshotting, Unsealed
<1>10. Acknowledged'
  BY <1>1 DEF Inv, Acknowledged
<1>11. Inspecting'
  <2>1. reader.step = "checkpoint" => IsSubsequence(floor, next[p])
    BY <1>2, <1>4, <1>5, SubsequencePrefix DEF Inspecting
  <2>2. reader.step \in {"events", "check", "returned"} => IsPrefix(reader.head, next[p])
    BY <1>2, <1>4, <1>5, PrefixTransitive DEF Inspecting
  <2> QED
    BY <1>1, <1>2, <2>1, <2>2 DEF Inspecting
<1> QED
  BY <1>6, <1>7, <1>8, <1>9, <1>10, <1>11 DEF Rest

LEMMA SyncCheckpointStep ==
  ASSUME Inv, Typed', NEW p \in Writers, SyncCheckpoint(p)
  PROVE  Rest'
<1>1. /\ Typed /\ Locking /\ pc[p] = "syncCheckpoint" /\ pc' \in [Writers -> Steps]
      /\ pc'[p] = "release" /\ \A q \in Writers \ {p} : pc'[q] = pc[q]
      /\ UNCHANGED <<cache, acked, reader, floor, call, next>>
      /\ disk'.events = disk.events /\ disk'.snapshot = disk.snapshot
      /\ disk'.head = cache.head
  BY DEF Inv, Typed, SyncCheckpoint, Step, inspection
<1>2. Committing(p) /\ Ordered /\ Acknowledged
  BY DEF Inv
<1>3. /\ cache.head \in Seq(Inputs) /\ disk.head \in Seq(Inputs) /\ acked \in Seq(Inputs)
      /\ IsPrefix(cache.head, cache.head)
  BY <1>1, Sequences, PrefixSelf
<1>4. Writer(p)'
  BY <1>1, <1>2 DEF Writer, Writing, Committing, Snapshotting, Unwritten, Unsealed, Sealed
<1>5. \A q \in Writers \ {p} : Writer(q)'
  BY <1>1, OthersIdle
<1>6. Ordered' /\ Snapshotted' /\ Inspecting'
  BY <1>1, <1>3 DEF Inv, Ordered, Snapshotted, Inspecting
<1>7. Acknowledged'
  <2>1. IsSubsequence(acked, cache.head)
    BY <1>2, <1>3, SubsequencePrefix DEF Ordered, Acknowledged
  <2> QED
    BY <1>1, <2>1 DEF Acknowledged
<1> QED
  BY <1>4, <1>5, <1>6, <1>7 DEF Rest

\* Whoever leaves append leaves no trace but its event among the acknowledged.
LEMMA LeaveStep ==
  ASSUME Inv, Typed', NEW p \in Writers,
         Return(p) \/ CallFails(p) \/ ReleaseFails(p) \/ Killed(p)
  PROVE  Rest'
<1>1. /\ Typed /\ Locking /\ pc[p] # "idle" /\ pc' \in [Writers -> Steps]
      /\ pc'[p] \in {"idle", "refused"} /\ \A q \in Writers \ {p} : pc'[q] = pc[q]
      /\ UNCHANGED <<cache, disk, reader, floor>>
      /\ \/ acked' = acked
         \/ pc[p] = "release" /\ acked' = Append(acked, call[p].event)
  <2>1. Typed /\ Locking /\ pc \in [Writers -> Steps] /\ pc' \in [Writers -> Steps]
    BY DEF Inv, Typed
  <2>2. pc[p] # "idle" /\ UNCHANGED <<cache, disk, reader, floor>>
    BY DEF Return, CallFails, ReleaseFails, Killed, files, inspection
  <2>3. pc' = [pc EXCEPT ![p] = "idle"] \/ pc' = [pc EXCEPT ![p] = "refused"]
    BY DEF Return, CallFails, ReleaseFails, Killed, Forget
  <2>4. \/ acked' = acked
        \/ pc[p] = "release" /\ acked' = Append(acked, call[p].event)
    BY DEF Return, CallFails, ReleaseFails, Killed
  <2> QED
    BY <2>1, <2>2, <2>3, <2>4
<1>2. Writer(p)'
  BY <1>1 DEF Writer, Writing, Committing, Snapshotting, Unwritten, Unsealed, Sealed
<1>3. \A q \in Writers \ {p} : Writer(q)'
  BY <1>1, OthersIdle
<1>4. Acknowledged'
  <2>1. Acknowledged /\ Committing(p)
    BY DEF Inv
  <2> QED
    BY <1>1, <2>1 DEF Acknowledged, Committing, Sealed
<1>5. Ordered' /\ Snapshotted' /\ Inspecting'
  BY <1>1 DEF Inv, Ordered, Snapshotted, Inspecting
<1> QED
  BY <1>2, <1>3, <1>4, <1>5 DEF Rest

\* The steps of the inspection and of the operator touch nothing of append.
LEMMA InspectStep ==
  ASSUME Inv, Inspects \/ StaleLockRemoved \/ UNCHANGED vars
  PROVE  Rest'
<1>1. /\ UNCHANGED <<cache, disk, pc, call, next, acked>>
      /\ reader' # reader => Inspects
  BY DEF Inspects, InspectionBegins, InspectCheckpoint, InspectEvents, InspectionEnds,
         InspectionShown, StaleLockRemoved, vars, files, writer, inspection
<1>2. \A p \in Writers : Writer(p)'
  BY <1>1 DEF Inv, Writer, Writing, Committing, Snapshotting, Allowed
<1>3. Ordered' /\ Snapshotted' /\ Acknowledged'
  BY <1>1 DEF Inv, Ordered, Snapshotted, Acknowledged
<1>4. Inspecting'
  <2>1. /\ Typed /\ Inspecting /\ cache' = cache
        /\ IsSubsequence(acked, cache.head) /\ IsPrefix(cache.head, cache.head)
    BY <1>1, Sequences, SubsequencePrefix, PrefixSelf DEF Inv, Ordered, Acknowledged
  <2>2. CASE InspectionBegins
    BY <2>1, <2>2 DEF InspectionBegins, Inspecting, NoRead
  <2>3. CASE InspectCheckpoint
    BY <2>1, <2>3 DEF InspectCheckpoint, Inspecting, Typed
  <2>4. CASE InspectEvents
    BY <2>1, <2>4 DEF InspectEvents, Inspecting, Consistent, NoRead, Typed
  <2>5. CASE InspectionEnds
    BY <2>1, <2>5 DEF InspectionEnds, Inspecting, NoRead, Typed
  <2>6. CASE InspectionShown
    BY <2>6 DEF InspectionShown, Inspecting, NoRead
  <2>7. CASE StaleLockRemoved \/ UNCHANGED vars
    BY <2>1, <2>7 DEF StaleLockRemoved, Inspecting, vars, inspection
  <2> QED
    BY <2>2, <2>3, <2>4, <2>5, <2>6, <2>7 DEF Inspects
<1> QED
  BY <1>2, <1>3, <1>4 DEF Rest

\* What a power loss leaves: a ledger between the synced and the cached one,
\* and of the other files either version.
LEMMA WhatSurvives ==
  ASSUME Inv, PowerFails
  PROVE  /\ cache'.events \in Seq(Inputs)
         /\ cache'.head \in {cache.head, disk.head}
         /\ cache'.snapshot \in {cache.snapshot, disk.snapshot}
         /\ IsPrefix(disk.events, cache'.events) /\ IsPrefix(cache'.events, cache.events)
         /\ disk' = cache'
<1>1. PICK ledger \in SurvivingLedger, c \in {cache, disk}, s \in {cache, disk} :
        cache' = [events |-> ledger.events, partial |-> ledger.partial,
                  head |-> c.head, passed |-> c.passed, snapshot |-> s.snapshot]
  BY DEF PowerFails
<1>2. PICK n \in Len(disk.events)..Len(cache.events) : ledger.events = SubSeq(cache.events, 1, n)
  BY DEF SurvivingLedger
<1>3. /\ disk.events \in Seq(Inputs) /\ cache.events \in Seq(Inputs)
      /\ IsPrefix(disk.events, cache.events)
  BY Sequences DEF Inv, Ordered
<1>4. /\ ledger.events \in Seq(Inputs)
      /\ IsPrefix(disk.events, ledger.events) /\ IsPrefix(ledger.events, cache.events)
  BY <1>2, <1>3, PrefixTaken
<1>5. /\ cache'.events = ledger.events /\ cache'.head = c.head /\ cache'.snapshot = s.snapshot
      /\ disk' = cache'
  BY <1>1 DEF PowerFails
<1> QED
  BY <1>4, <1>5

LEMMA PowerStep ==
  ASSUME Inv, PowerFails
  PROVE  Rest'
<1>1. /\ \A p \in Writers : pc'[p] = "idle"
      /\ reader' = NoRead /\ UNCHANGED <<acked, floor>>
  BY DEF PowerFails
<1>2. /\ cache'.events \in Seq(Inputs)
      /\ cache'.head \in {cache.head, disk.head}
      /\ cache'.snapshot \in {cache.snapshot, disk.snapshot}
      /\ IsPrefix(disk.events, cache'.events) /\ disk' = cache'
  BY WhatSurvives
<1>3. /\ Ordered /\ Snapshotted /\ Acknowledged
      /\ disk.events \in Seq(Inputs) /\ disk.head \in Seq(Inputs)
      /\ cache.head \in Seq(Inputs) /\ acked \in Seq(Inputs)
  BY Sequences DEF Inv
<1>4. \A p \in Writers : Writer(p)'
  BY <1>1 DEF Writer, Writing, Committing, Snapshotting, Unwritten, Unsealed, Sealed
<1>5. cache'.head \in Seq(Inputs) /\ IsPrefix(cache'.head, disk.events)
  BY <1>2, <1>3, PrefixTransitive DEF Ordered
<1>6. Ordered'
  <2>1. IsPrefix(cache'.head, cache'.events)
    BY <1>2, <1>3, <1>5, PrefixTransitive
  <2>2. IsPrefix(cache'.head, cache'.head) /\ IsPrefix(cache'.events, cache'.events)
    BY <1>2, <1>5, PrefixSelf
  <2> QED
    BY <1>2, <2>1, <2>2 DEF Ordered
<1>7. Snapshotted'
  <2> SUFFICES ASSUME Summary(cache'.head).status = "stopped", cache'.head = cache'.events
               PROVE  cache'.snapshot = Len(cache'.head)
    BY <1>2 DEF Snapshotted
  <2>1. cache'.head = disk.events
    BY <1>2, <1>3, <1>5, PrefixBothWays
  <2>2. cache.head = disk.events
    <3>1. CASE cache'.head = disk.head
      BY <2>1, <3>1, <1>3, PrefixBothWays DEF Ordered
    <3> QED
      BY <2>1, <3>1, <1>2
  <2>3. cache.snapshot = Len(cache.head) /\ disk.snapshot = Len(cache.head)
    BY <2>1, <2>2, <1>3 DEF Snapshotted
  <2> QED
    BY <2>1, <2>2, <2>3, <1>2
<1>8. Acknowledged'
  <2>1. IsSubsequence(acked, cache.head)
    BY <1>3, SubsequencePrefix DEF Ordered, Acknowledged
  <2> QED
    BY <1>1, <1>2, <1>3, <2>1 DEF Acknowledged
<1>9. Inspecting'
  BY <1>1 DEF Inspecting, NoRead
<1> QED
  BY <1>4, <1>6, <1>7, <1>8, <1>9 DEF Rest

LEMMA InvInit == Init => Inv
<1> SUFFICES ASSUME Init PROVE Inv
  OBVIOUS
<1>1. /\ cache = Created0 /\ disk = Created0 /\ acked = <<>> /\ floor = <<>> /\ reader = NoRead
      /\ pc = [p \in Writers |-> "idle"] /\ call = [p \in Writers |-> NoCall]
      /\ next = [p \in Writers |-> <<>>]
  BY DEF Init
<1>2. <<>> \in Seq(Inputs) /\ Created0.head = <<>> /\ Created0.events = <<>>
      /\ Created0 \in [events : Seq(Inputs), partial : BOOLEAN, head : Seq(Inputs),
                       passed : BOOLEAN, snapshot : Nat]
  BY DEF Created0
<1>3. Typed
  BY <1>1, <1>2 DEF Typed, Steps, NoCall, NoRead
<1>4. Locking /\ \A p \in Writers : Writer(p)
  BY <1>1 DEF Locking, Writer, Writing, Committing, Snapshotting, Unwritten, Unsealed, Sealed
<1>5. Ordered /\ Acknowledged /\ Inspecting
  BY <1>1, <1>2, PrefixSelf, SubsequenceEmpty DEF Ordered, Acknowledged, Inspecting, NoRead
<1>6. Snapshotted
  BY <1>1, <1>2, SummaryCreated DEF Snapshotted, Created
<1> QED
  BY <1>3, <1>4, <1>5, <1>6 DEF Inv, Writer

LEMMA InvStep == Inv /\ [Next]_vars => Inv'
<1> SUFFICES ASSUME Inv, [Next]_vars PROVE Inv'
  OBVIOUS
<1>1. Typed' /\ Locking'
  BY TypedStep, LockingStep DEF Inv
<1>2. ASSUME NEW p \in Writers, Appends(p) PROVE Rest'
  BY <1>1, <1>2, AcquireStep, ReadStep, RenameSnapshotStep, SyncSnapshotStep, WriteStep,
     SyncEventsStep, RenameCheckpointStep, SyncCheckpointStep, LeaveStep DEF Appends
<1>3. ASSUME NEW p \in Writers, CallFails(p) \/ ReleaseFails(p) \/ Killed(p) PROVE Rest'
  BY <1>1, <1>3, LeaveStep
<1>4. ASSUME Inspects \/ StaleLockRemoved \/ UNCHANGED vars PROVE Rest'
  BY <1>4, InspectStep
<1>5. ASSUME PowerFails PROVE Rest'
  BY <1>5, PowerStep
<1>6. Rest'
  BY <1>2, <1>3, <1>4, <1>5 DEF Next
<1> QED
  BY <1>1, <1>6 DEF Inv, Rest, Writer

-----------------------------------------------------------------------------
(* The theorems.                                                           *)

\* The inductive invariant of the files of a saved run and of the processes
\* that use them (store.ts append, readForInspection).
THEOREM InvHolds == Spec => []Inv
<1>1. Init => Inv
  BY InvInit
<1>2. Inv /\ [Next]_vars => Inv'
  BY InvStep
<1> QED
  BY <1>1, <1>2, PTL DEF Spec

\* No event whose append returned is ever lost or reordered, whatever fails
\* afterwards: each is in the cached and in the synced checkpoint, and both
\* vouch for what the ledger holds (store.ts sync before rename before release).
THEOREM AcknowledgedSurvivesHolds == Spec => []AcknowledgedSurvives
<1>1. Inv => AcknowledgedSurvives
  <2> SUFFICES ASSUME Inv PROVE AcknowledgedSurvives
    OBVIOUS
  <2>1. /\ cache.head \in Seq(Inputs) /\ cache.events \in Seq(Inputs) /\ disk.head \in Seq(Inputs)
        /\ disk.events \in Seq(Inputs) /\ acked \in Seq(Inputs)
    BY Sequences DEF Inv
  <2>2. /\ IsPrefix(disk.head, cache.head) /\ IsPrefix(cache.head, disk.events)
        /\ IsPrefix(disk.events, cache.events) /\ IsSubsequence(acked, disk.head)
    BY DEF Inv, Ordered, Acknowledged
  <2>3. IsSubsequence(acked, cache.head)
    BY <2>1, <2>2, SubsequencePrefix
  <2>4. IsPrefix(cache.head, cache.events) /\ IsPrefix(disk.head, disk.events)
    BY <2>1, <2>2, PrefixTransitive
  <2> QED
    BY <2>2, <2>3, <2>4 DEF AcknowledgedSurvives
<1> QED
  BY <1>1, InvHolds, PTL

\* A stopped record that can be read has on disk the snapshot that was taken
\* for that very stop (store.ts 846-850).
THEOREM StopHasItsSnapshotHolds == Spec => []StopHasItsSnapshot
<1>1. Inv => StopHasItsSnapshot
  <2> SUFFICES ASSUME Inv, Summary(disk.head).status = "stopped", disk.head = disk.events
               PROVE  disk.snapshot = Len(disk.head)
    BY DEF StopHasItsSnapshot, Consistent
  <2>1. cache.head = disk.head
    <3>1. cache.head \in Seq(Inputs) /\ disk.head \in Seq(Inputs)
      BY Sequences DEF Inv
    <3>2. IsPrefix(disk.head, cache.head) /\ IsPrefix(cache.head, disk.head)
      BY DEF Inv, Ordered
    <3> QED
      BY <3>1, <3>2, PrefixBothWays
  <2> QED
    BY <2>1 DEF Inv, Snapshotted
<1> QED
  BY <1>1, InvHolds, PTL

\* What an inspection without locks shows was the committed record: complete
\* up to what was acknowledged when it began, and nothing beyond the checkpoint
\* (store.ts readForInspection).
THEOREM InspectionShowsCommittedHolds == Spec => []InspectionShowsCommitted
<1>1. Inv => InspectionShowsCommitted
  BY DEF Inv, Inspecting, InspectionShowsCommitted
<1> QED
  BY <1>1, InvHolds, PTL

-----------------------------------------------------------------------------
(* The refinement: the rules of the record are those of the store.         *)

LEMMA RecordApply == \A L, e : Record!Apply(L, e) = Apply(L, e)
BY DEF Apply, Record!Apply, EventStatus, Record!EventStatus, LastIterationAfter,
       Record!LastIterationAfter, ApprovedAfter, Record!ApprovedAfter, OpenAfter, Record!OpenAfter,
       PendingFailureAfter, Record!PendingFailureAfter, Charges, Record!Charges, Workers,
       Record!Workers

LEMMA RecordAppendGuard ==
  \A L, e, passed : Record!AppendGuard(L, e, passed) <=> AppendGuard(L, e, passed)
BY DEF AppendGuard, Record!AppendGuard, Terminal, Record!Terminal, HasRoom, Record!HasRoom

LEMMA RecordValidNext ==
  ASSUME NEW L, NEW e, NEW passed
  PROVE  ValidNext(L, e, passed) => Record!ValidNext(L, e, passed)
<1> SUFFICES ASSUME ValidNext(L, e, passed) PROVE Record!ValidNext(L, e, passed)
  OBVIOUS
<1>1. L.status \notin Record!Terminal
  BY DEF ValidNext, Terminal, Record!Terminal
<1>2. ResumeRule(L, e) => Record!ResumeRule(L, e)
  BY DEF ResumeRule, Record!ResumeRule
<1>3. IterationRule(L, e) => Record!IterationRule(L, e)
  BY DEF IterationRule, Record!IterationRule
<1>4. EvaluationRule(L, e) => Record!EvaluationRule(L, e)
  BY DEF EvaluationRule, Record!EvaluationRule
<1>5. ApprovalRule(L, e) => Record!ApprovalRule(L, e)
  BY DEF ApprovalRule, Record!ApprovalRule, Workers, Record!Workers
<1>6. ReservationRule(L, e) => Record!ReservationRule(L, e)
  BY DEF ReservationRule, Record!ReservationRule, Workers, Record!Workers
<1>7. OutcomeRule(L, e) => Record!OutcomeRule(L, e)
  BY DEF OutcomeRule, Record!OutcomeRule
<1>8. ClarificationRule(L, e) => Record!ClarificationRule(L, e)
  BY DEF ClarificationRule, Record!ClarificationRule
<1>9. StopRule(L, e) => Record!StopRule(L, e)
  BY DEF StopRule, Record!StopRule
<1>10. FinishRule(L, e, passed) => Record!FinishRule(L, e, passed)
  BY DEF FinishRule, Record!FinishRule
<1>11. LimitRule(L, e) => Record!LimitRule(L, e)
  BY DEF LimitRule, Record!LimitRule
<1> QED
  BY <1>1, <1>2, <1>3, <1>4, <1>5, <1>6, <1>7, <1>8, <1>9, <1>10, <1>11
  DEF ValidNext, Record!ValidNext

\* An accepted event is one that the abstract record offers at that point.
LEMMA OfferedInRecord ==
  ASSUME NEW L, NEW e \in Inputs, NEW passed, ValidNext(L, e, passed)
  PROVE  e \in Record!Events({L.segment, L.segment + 1})
<1>1. e \in Record!Events(2..EventLimit)
  BY InputsAssumption
<1>2. CASE e.type # "run_resumed"
  BY <1>1, <1>2 DEF Record!Events, Record!RunResumed
<1>3. CASE e.type = "run_resumed"
  <2>1. PICK s \in 2..EventLimit, r \in BOOLEAN : e = Record!RunResumed(s, r)
    BY <1>1, <1>3 DEF Record!Events, Record!RunResumed, Record!IterationReserved,
       Record!EvaluationCompleted, Record!EvaluationFailed, Record!ActionApproved,
       Record!ExecutionReserved, Record!ExecutionOutcome, Record!Clarification,
       Record!RunStopped, Record!RunFinished, Record!IterationLimitReached, Record!RunBlocked
  <2>2. ResumeRule(L, e)
    BY <1>3 DEF ValidNext, ResumeRule, IterationRule, EvaluationRule, ApprovalRule,
       ReservationRule, OutcomeRule, ClarificationRule, StopRule, FinishRule, LimitRule
  <2>3. s = L.segment + 1
    BY <2>1, <2>2 DEF ResumeRule, Record!RunResumed
  <2> QED
    BY <2>1, <2>3 DEF Record!Events
<1> QED
  BY <1>2, <1>3

LEMMA CheckpointIsAppend ==
  ASSUME Inv, NEW p \in Writers, RenameCheckpoint(p)
  PROVE  Record!Next
<1> DEFINE e == call[p].event
           L == Summary(cache.head)
           N == Apply(L, e)
           passed == call[p].passed
<1>1. /\ pc[p] = "checkpoint" /\ cache'.head = next[p] /\ cache'.passed = passed
      /\ cache.head \in Seq(Inputs) /\ e \in Inputs /\ passed \in BOOLEAN
  BY DEF Inv, Typed, RenameCheckpoint, Step
<1>2. Allowed(p) /\ next[p] = Append(cache.head, e)
  BY <1>1 DEF Inv, Writing, Unsealed
<1>3. Summary(cache'.head) = N
  BY <1>1, <1>2, SummaryAppended
<1>4. Accepts(L, e, IF N.lastIteration = 0 THEN 1 ELSE N.lastIteration, N.calls, passed)
  BY <1>2 DEF Allowed
<1>5. Record!Apply(L, e) = N
  BY RecordApply
<1> HIDE DEF e, L, N, passed
<1>6. Record!Accepts(L, e, IF N.lastIteration = 0 THEN 1 ELSE N.lastIteration, N.calls, passed)
  BY <1>4, RecordApply, RecordAppendGuard, RecordValidNext
  DEF Accepts, Record!Accepts, StateAgrees, Record!StateAgrees
<1>7. e \in Record!Events({L.segment, L.segment + 1})
  BY <1>1, <1>4, OfferedInRecord DEF Accepts
<1>8. Record!AppendEvent(e, passed)
  BY <1>1, <1>2, <1>3, <1>5, <1>6 DEF Record!AppendEvent, L
<1> QED
  BY <1>1, <1>7, <1>8 DEF Record!Next, L

\* With writers that race, calls that fail and processes that are killed, the
\* files are one record to which events are appended whole or not at all; a
\* power loss alone takes events back, and none that was acknowledged.
THEOREM RecordSpecHolds == Spec => RecordSpec
<1>1. Init => Record!Init
  BY SummaryCreated DEF Init, Record!Init, Created0, Created, Record!Created, Workers, Record!Workers
<1>2. Inv /\ Inv' /\ [Next]_vars => [TakenBack \/ Record!Next]_<<cache.head, cache.passed>>
  <2> SUFFICES ASSUME Inv, Inv', [Next]_vars
               PROVE  TakenBack \/ Record!Next \/ UNCHANGED <<cache.head, cache.passed>>
    OBVIOUS
  <2>1. ASSUME NEW p \in Writers, Appends(p), ~RenameCheckpoint(p)
        PROVE  UNCHANGED <<cache.head, cache.passed>>
    BY <2>1 DEF Appends, AcquireUpdateLock, ReadAndValidate, RenameSnapshot, SyncSnapshot,
       WritePart, WriteLine, SyncEvents, SyncCheckpoint, Return, files, Inv, Typed
  <2>2. ASSUME NEW p \in Writers, RenameCheckpoint(p) PROVE Record!Next
    BY <2>2, CheckpointIsAppend
  <2>3. CASE PowerFails
    <3>1. cache'.head \in {cache.head, disk.head} /\ UNCHANGED acked
      BY <2>3, WhatSurvives DEF PowerFails
    <3>2. cache.head \in Seq(Inputs) /\ IsPrefix(disk.head, cache.head)
      BY Sequences DEF Inv, Ordered
    <3>3. IsPrefix(cache'.head, cache.head)
      BY <3>1, <3>2, PrefixSelf
    <3>4. IsSubsequence(acked, cache'.head)
      <4>1. disk' = cache'
        BY <2>3 DEF PowerFails
      <4> QED
        BY <3>1, <4>1 DEF Inv, Acknowledged
    <3> QED
      BY <2>3, <3>3, <3>4 DEF TakenBack
  <2>4. ASSUME NEW p \in Writers, CallFails(p) \/ ReleaseFails(p) \/ Killed(p)
        PROVE  UNCHANGED <<cache.head, cache.passed>>
    BY <2>4 DEF CallFails, ReleaseFails, Killed, files
  <2>5. CASE Inspects \/ StaleLockRemoved \/ UNCHANGED vars
    BY <2>5 DEF Inspects, InspectionBegins, InspectCheckpoint, InspectEvents, InspectionEnds,
       InspectionShown, StaleLockRemoved, vars, files
  <2> QED
    BY <2>1, <2>2, <2>3, <2>4, <2>5 DEF Next
<1> QED
  BY <1>1, <1>2, InvHolds, PTL DEF Spec, RecordSpec

=============================================================================
