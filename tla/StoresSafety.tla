---------------------------- MODULE StoresSafety ----------------------------
(***************************************************************************)
(* Proofs about the three files: for any processes, finitely many jobs,    *)
(* whatever they save, in whatever order, one job of a process at a time   *)
(* works on a locked file, each save is an update of what is there, and    *)
(* what was answered as saved is found again.                              *)
(***************************************************************************)
EXTENDS LearningStores, SequenceTheorems, FiniteSetTheorems, TLAPS

Active(j) == pc[j] \in {"ready", "waiting", "read", "open", "written"}
InLine(j, f) == AtFile(j, f) /\ pc[j] \in {"waiting", "read", "written"}
Holds(j, f) == AtFile(j, f) /\ pc[j] \in {"read", "written"}
SameLine(i, j, f) == AtFile(i, f) /\ AtFile(j, f) /\ Home(i) = Home(j)

\* A job that goes on has a save to make; only saves of scores open their file.
StepInv ==
  \A j \in Jobs : /\ Active(j) => step[j] <= Len(Saves(work[j])) /\ FileOf(j) \in Files
                  /\ pc[j] = "open" => AtFile(j, "policies")
                  /\ pc[j] = "written" => FileOf(j) \in Locked

\* Who has a ticket stands in the line of a lock, no further back than its tail.
TicketInv ==
  \A j \in Jobs :
    /\ ticket[j] # 0 => \E f \in Locked : InLine(j, f) /\ ticket[j] <= tail[Home(j)][f]
    /\ \A f \in Locked : InLine(j, f) => ticket[j] # 0

\* Two jobs never have one ticket.
DistinctInv ==
  \A f \in Locked : \A i, j \in Jobs :
    SameLine(i, j, f) /\ ticket[i] # 0 /\ ticket[i] = ticket[j] => i = j

\* A line has no gaps: while somebody is ahead, the next one ahead is.
GapInv ==
  \A f \in Locked : \A i, j \in Jobs :
    SameLine(i, j, f) /\ ticket[i] # 0 /\ ticket[i] < ticket[j]
    => \E h \in Jobs : SameLine(h, j, f) /\ ticket[h] = ticket[j] - 1

\* The entry of the map is the last ticket of its line.
TailInv ==
  \A p \in Processes, f \in Locked :
    tail[p][f] # 0 => \E j \in Jobs : AtFile(j, f) /\ Home(j) = p /\ ticket[j] = tail[p][f]

\* Who holds the lock is first in the line.
FirstInv ==
  \A f \in Locked : \A i, j \in Jobs :
    SameLine(i, j, f) /\ Holds(j, f) /\ ticket[i] # 0 => ticket[j] <= ticket[i]

\* A copy that no other process has overtaken is what a read of the file gives.
CopyInv ==
  \A f \in Locked : \A j \in Jobs :
    AtFile(j, f) /\ pc[j] = "read" /\ j \notin excused => copy[j] \in Seen(f)

ShapeInv ==
  /\ DOMAIN contents = Files
  /\ DOMAIN copy = Jobs

LineInv == TicketInv /\ DistinctInv /\ GapInv /\ TailInv /\ FirstInv

IInv == TypeOK /\ ShapeInv /\ StepInv /\ LineInv /\ CopyInv

\* One job of a process at a time has read a locked file and not returned.
OneHolder ==
  \A f \in Locked : \A i, j \in Jobs :
    Holds(i, f) /\ Holds(j, f) /\ Home(i) = Home(j) => i = j
-----------------------------------------------------------------------------
(* Lemmas.                                                                 *)

LEMMA SavesType ==
  ASSUME NEW w
  PROVE  Saves(w) \in Seq(Files) /\ Len(Saves(w)) \in Nat \ {0}
<1>1. /\ <<"traces", "policies">> \in Seq(Files) /\ Len(<<"traces", "policies">>) = 2
      /\ <<"traces">> \in Seq(Files) /\ Len(<<"traces">>) = 1
      /\ <<"policies">> \in Seq(Files) /\ Len(<<"policies">>) = 1
      /\ <<"memory">> \in Seq(Files) /\ Len(<<"memory">>) = 1
  BY DEF Files, Locked
<1>2. Learn(w) \in Seq(Files) /\ Len(Learn(w)) \in Nat
  BY <1>1 DEF Learn
<1>3. /\ <<"traces", "policies">> \o Learn(w) \in Seq(Files)
      /\ Len(<<"traces", "policies">> \o Learn(w)) = 2 + Len(Learn(w))
      /\ <<"traces">> \o Learn(w) \in Seq(Files)
      /\ Len(<<"traces">> \o Learn(w)) = 1 + Len(Learn(w))
  BY <1>1, <1>2, ConcatProperties
<1>4. /\ <<"traces", "policies">> \o Learn(w) \o <<"traces", "policies">> \in Seq(Files)
      /\ Len(<<"traces", "policies">> \o Learn(w) \o <<"traces", "policies">>)
           = 2 + Len(Learn(w)) + 2
  BY <1>1, <1>3, ConcatProperties
<1> QED
  BY <1>1, <1>2, <1>3, <1>4 DEF Saves

\* Whoever may enter is first in the line.
LEMMA EntryIsFirst ==
  ASSUME TypeOK, LineInv, NEW f \in Locked, NEW j \in Jobs, InLine(j, f), MayEnter(j),
         NEW i \in Jobs, SameLine(i, j, f), ticket[i] # 0
  PROVE  ticket[j] <= ticket[i]
<1> SUFFICES ASSUME ticket[i] < ticket[j]
             PROVE  FALSE
  BY DEF TypeOK
<1>1. PICK h \in Jobs : SameLine(h, j, f) /\ ticket[h] = ticket[j] - 1
  BY DEF LineInv, GapInv
<1>2. ticket[j] # 1 /\ h # j
  BY <1>1 DEF TypeOK
<1>3. h \in Neighbours(j) /\ FileOf(j) \in Locked
  BY <1>1, <1>2 DEF Neighbours, SameLine, AtFile
<1> QED
  BY <1>1, <1>2, <1>3 DEF MayEnter

\* A job that begins a save goes to the end of the line of its file.
LEMMA JoinsLine ==
  ASSUME TypeOK, StepInv, LineInv, NEW j \in Jobs, Begin(j)
  PROVE  LineInv'
<1> DEFINE f == FileOf(j)
<1> DEFINE n == tail[Home(j)][f] + 1
<1>1. /\ pc[j] = "ready" /\ AtFile(j, f) /\ f \in Files /\ Home(j) \in Processes
      /\ UNCHANGED <<work, step>> /\ pc' = [pc EXCEPT ![j] = "waiting"]
  BY DEF Begin, StepInv, Active, AtFile, TypeOK, Home, Work
<1>2. \A i \in Jobs : /\ Home(i)' = Home(i)
                      /\ \A g : AtFile(i, g)' <=> AtFile(i, g)
  BY <1>1 DEF AtFile, FileOf, Home
<1>3. \A i, k \in Jobs : \A g : SameLine(i, k, g)' <=> SameLine(i, k, g)
  BY <1>2 DEF SameLine
<1>4. \A i \in Jobs : \A g : Holds(i, g)' <=> Holds(i, g)
  BY <1>1, <1>2 DEF Holds, TypeOK
<1>5. \A i \in Jobs : \A g : InLine(i, g)' <=> InLine(i, g) \/ (i = j /\ g = f)
  BY <1>1, <1>2 DEF InLine, TypeOK, AtFile
<1>6. ticket[j] = 0
  BY <1>1 DEF LineInv, TicketInv, InLine
<1>7. CASE f \notin Locked
  <2>1. UNCHANGED <<ticket, tail>>
    BY <1>7 DEF Begin
  <2>2. TicketInv'
    BY <2>1, <1>2, <1>5, <1>7 DEF LineInv, TicketInv
  <2>3. DistinctInv'
    BY <2>1, <1>3 DEF LineInv, DistinctInv
  <2>4. GapInv'
    BY <2>1, <1>3 DEF LineInv, GapInv
  <2>5. TailInv'
    BY <2>1, <1>2 DEF LineInv, TailInv
  <2>6. FirstInv'
    BY <2>1, <1>3, <1>4 DEF LineInv, FirstInv
  <2> QED
    BY <2>2, <2>3, <2>4, <2>5, <2>6 DEF LineInv
<1>8. CASE f \in Locked
  <2>1. /\ ticket' = [ticket EXCEPT ![j] = n]
        /\ tail[Home(j)][f] \in Nat /\ n \in Nat \ {0}
        /\ \A p \in Processes, g \in Locked :
             tail'[p][g] = IF p = Home(j) /\ g = f THEN n ELSE tail[p][g]
    BY <1>1, <1>8 DEF Begin, TypeOK
  <2>2. \A i \in Jobs : /\ ticket'[i] = IF i = j THEN n ELSE ticket[i]
                        /\ ticket[i] \in Nat
    BY <2>1 DEF TypeOK
  <2> HIDE DEF n, f
  <2>3. \A i \in Jobs : SameLine(i, j, f) => ticket[i] < n
    <3> SUFFICES ASSUME NEW i \in Jobs, SameLine(i, j, f), ticket[i] # 0
                 PROVE  ticket[i] < n
      BY <2>1, <2>2
    <3>1. PICK g \in Locked : InLine(i, g) /\ ticket[i] <= tail[Home(i)][g]
      BY DEF LineInv, TicketInv
    <3>2. g = f /\ Home(i) = Home(j)
      BY <3>1 DEF InLine, SameLine, AtFile
    <3> QED
      BY <3>1, <3>2, <2>1, <2>2 DEF n
  <2>4. TicketInv'
    <3>1. \A i \in Jobs : ticket'[i] # 0
            => \E g \in Locked : InLine(i, g)' /\ ticket'[i] <= tail'[Home(i)'][g]
      <4> SUFFICES ASSUME NEW i \in Jobs, ticket'[i] # 0
                   PROVE  \E g \in Locked : InLine(i, g)' /\ ticket'[i] <= tail'[Home(i)][g]
        BY <1>2
      <4>1. CASE i = j
        BY <4>1, <1>1, <1>5, <1>8, <2>1, <2>2
      <4>2. CASE i # j
        <5>1. PICK g \in Locked : InLine(i, g) /\ ticket[i] <= tail[Home(i)][g]
          BY <4>2, <2>2 DEF LineInv, TicketInv
        <5>2. Home(i) \in Processes
          BY DEF Home, TypeOK, Work
        <5>3. tail[Home(i)][g] <= tail'[Home(i)][g]
          BY <5>2, <2>1 DEF TypeOK, n
        <5>4. tail[Home(i)][g] \in Nat /\ tail'[Home(i)][g] \in Nat
          BY <5>2, <2>1 DEF TypeOK
        <5> QED
          BY <5>1, <5>3, <5>4, <4>2, <1>5, <2>2
      <4> QED
        BY <4>1, <4>2
    <3>2. \A i \in Jobs : \A g \in Locked : InLine(i, g)' => ticket'[i] # 0
      BY <1>5, <2>1, <2>2 DEF LineInv, TicketInv
    <3> QED
      BY <3>1, <3>2 DEF TicketInv
  <2>5. DistinctInv'
    <3> SUFFICES ASSUME NEW g \in Locked, NEW i \in Jobs, NEW k \in Jobs,
                        SameLine(i, k, g), ticket'[i] # 0, ticket'[i] = ticket'[k]
                 PROVE  i = k
      BY <1>3 DEF DistinctInv
    <3>1. i = j \/ k = j => g = f
      BY <1>1 DEF SameLine, AtFile, f
    <3> QED
      BY <3>1, <2>1, <2>2, <2>3 DEF LineInv, DistinctInv, SameLine
  <2>6. GapInv'
    <3> SUFFICES ASSUME NEW g \in Locked, NEW i \in Jobs, NEW k \in Jobs,
                        SameLine(i, k, g), ticket'[i] # 0, ticket'[i] < ticket'[k]
                 PROVE  \E h \in Jobs : SameLine(h, k, g) /\ ticket'[h] = ticket'[k] - 1
      BY <1>3 DEF GapInv
    <3>0. i = j \/ k = j => g = f
      BY <1>1 DEF SameLine, AtFile, f
    <3>1. i # j
      <4> SUFFICES ASSUME i = j
                   PROVE  FALSE
        OBVIOUS
      <4>1. k # j /\ SameLine(k, j, f)
        BY <3>0, <2>1, <2>2 DEF SameLine
      <4> QED
        BY <4>1, <2>1, <2>2, <2>3
    <3>2. CASE k = j
      <4>1. g = f /\ ticket[i] < n /\ ticket[i] # 0
        BY <3>0, <3>1, <3>2, <2>2
      <4>2. tail[Home(j)][f] # 0
        BY <4>1, <2>1, <2>2 DEF LineInv, TicketInv, n
      <4>3. PICK h \in Jobs : AtFile(h, f) /\ Home(h) = Home(j) /\ ticket[h] = tail[Home(j)][f]
        BY <4>2, <1>1, <1>8 DEF LineInv, TailInv
      <4>4. h # j
        BY <4>2, <4>3, <1>6
      <4> QED
        BY <4>1, <4>3, <4>4, <3>2, <2>1, <2>2, <1>1 DEF SameLine, n, f
    <3>3. CASE k # j
      <4>1. PICK h \in Jobs : SameLine(h, k, g) /\ ticket[h] = ticket[k] - 1
        BY <3>1, <3>3, <2>2 DEF LineInv, GapInv
      <4>2. h # j
        <5>1. ticket[k] - 1 # 0
          BY <3>1, <3>3, <2>2
        <5> QED
          BY <5>1, <4>1, <1>6
      <4> QED
        BY <4>1, <4>2, <3>3, <2>2
    <3> QED
      BY <3>2, <3>3
  <2>7. TailInv'
    <3> SUFFICES ASSUME NEW p \in Processes, NEW g \in Locked, tail'[p][g] # 0
                 PROVE  \E i \in Jobs : AtFile(i, g) /\ Home(i) = p /\ ticket'[i] = tail'[p][g]
      BY <1>2 DEF TailInv
    <3>1. CASE p = Home(j) /\ g = f
      BY <3>1, <1>1, <2>1, <2>2 DEF f
    <3>2. CASE ~ (p = Home(j) /\ g = f)
      <4>1. PICK i \in Jobs : AtFile(i, g) /\ Home(i) = p /\ ticket[i] = tail[p][g]
        BY <3>2, <2>1 DEF LineInv, TailInv
      <4>2. i # j
        BY <4>1, <3>2, <2>1, <1>6
      <4> QED
        BY <4>1, <4>2, <3>2, <2>1, <2>2
    <3> QED
      BY <3>1, <3>2
  <2>8. FirstInv'
    <3> SUFFICES ASSUME NEW g \in Locked, NEW i \in Jobs, NEW k \in Jobs,
                        SameLine(i, k, g), Holds(k, g), ticket'[i] # 0
                 PROVE  ticket'[k] <= ticket'[i]
      BY <1>3, <1>4 DEF FirstInv
    <3>1. k # j
      BY <1>1 DEF Holds
    <3>2. CASE i = j
      <4>1. SameLine(k, j, f)
        BY <3>2, <1>1 DEF SameLine, AtFile, f
      <4> QED
        BY <4>1, <3>1, <3>2, <2>1, <2>2, <2>3
    <3>3. CASE i # j
      BY <3>1, <3>3, <2>2 DEF LineInv, FirstInv
    <3> QED
      BY <3>2, <3>3
  <2> QED
    BY <2>4, <2>5, <2>6, <2>7, <2>8 DEF LineInv
<1> QED
  BY <1>7, <1>8

\* A job that gives its place back was first, or never had one.
LEMMA LeavesLine ==
  ASSUME TypeOK, StepInv, LineInv, NEW j \in Jobs, Active(j), pc[j] # "ready",
         pc[j] = "waiting" => MayEnter(j),
         Release(j), work' = work, NEW how, Go(j, how)
  PROVE  LineInv'
<1> DEFINE f == FileOf(j)
<1>1. f \in Files /\ AtFile(j, f) /\ Home(j) \in Processes
  BY DEF StepInv, AtFile, Home, TypeOK, Work
<1>2. /\ \A i \in Jobs \ {j} : step'[i] = step[i] /\ pc'[i] = pc[i]
      /\ pc'[j] \in {"failed", "done", "ready"}
  BY DEF Go, TypeOK
<1>3. \A i \in Jobs : /\ Home(i)' = Home(i) /\ Home(i) \in Processes
                      /\ i # j => \A g : AtFile(i, g)' <=> AtFile(i, g)
  BY <1>2 DEF AtFile, FileOf, Home, TypeOK, Work
<1>4. \A i, k \in Jobs \ {j} : \A g : SameLine(i, k, g)' <=> SameLine(i, k, g)
  BY <1>3 DEF SameLine
<1>5. \A i \in Jobs : \A g : Holds(i, g)' <=> i # j /\ Holds(i, g)
  BY <1>2, <1>3 DEF Holds
<1>6. \A i \in Jobs : \A g : InLine(i, g)' <=> i # j /\ InLine(i, g)
  BY <1>2, <1>3 DEF InLine
<1>7. \A i \in Jobs : ticket[i] \in Nat
  BY DEF TypeOK
<1>8. \A i \in Jobs : ticket'[i] = IF i = j THEN 0 ELSE ticket[i]
  <2>1. CASE f \in Locked
    BY <2>1 DEF Release, TypeOK
  <2>2. CASE f \notin Locked
    BY <2>2, <1>1 DEF Release, LineInv, TicketInv, InLine, AtFile
  <2> QED
    BY <2>1, <2>2
<1>9. \A p \in Processes, g \in Locked :
        tail'[p][g] = IF p = Home(j) /\ g = f /\ tail[p][g] = ticket[j] THEN 0 ELSE tail[p][g]
  BY <1>1 DEF Release, TailAfter, TypeOK
<1>10. f \in Locked => InLine(j, f) /\ ticket[j] # 0 /\ ticket[j] <= tail[Home(j)][f]
  <2> SUFFICES ASSUME f \in Locked
               PROVE  InLine(j, f) /\ ticket[j] # 0 /\ ticket[j] <= tail[Home(j)][f]
    OBVIOUS
  <2>1. InLine(j, f)
    BY <1>1 DEF Active, StepInv, InLine, AtFile, Locked
  <2>2. ticket[j] # 0
    BY <2>1 DEF LineInv, TicketInv
  <2>3. PICK g \in Locked : InLine(j, g) /\ ticket[j] <= tail[Home(j)][g]
    BY <2>2 DEF LineInv, TicketInv
  <2> QED
    BY <2>1, <2>2, <2>3 DEF InLine, AtFile
<1> HIDE DEF f
<1>11. ASSUME NEW i \in Jobs, SameLine(i, j, f), ticket[i] # 0, f \in Locked
       PROVE  ticket[j] <= ticket[i]
  BY <1>1, <1>10, <1>11, EntryIsFirst DEF InLine, LineInv, FirstInv, Holds
<1>12. ASSUME NEW i \in Jobs \ {j}, SameLine(i, j, f), f \in Locked,
              ticket[i] # 0, tail[Home(j)][f] = ticket[j]
       PROVE  FALSE
  <2>1. PICK g \in Locked : InLine(i, g) /\ ticket[i] <= tail[Home(i)][g]
    BY <1>12 DEF LineInv, TicketInv
  <2>2. g = f /\ Home(i) = Home(j)
    BY <2>1, <1>12 DEF InLine, SameLine, AtFile
  <2>3. ticket[i] = ticket[j]
    BY <2>1, <2>2, <1>7, <1>11, <1>12
  <2> QED
    BY <2>3, <1>12 DEF LineInv, DistinctInv
<1>13. TicketInv'
  <2>1. \A i \in Jobs : \A g \in Locked : InLine(i, g)' => ticket'[i] # 0
    BY <1>6, <1>8 DEF LineInv, TicketInv
  <2>2. ASSUME NEW i \in Jobs, ticket'[i] # 0
        PROVE  \E g \in Locked : InLine(i, g)' /\ ticket'[i] <= tail'[Home(i)'][g]
    <3>1. i # j /\ ticket'[i] = ticket[i] /\ ticket[i] # 0
      BY <2>2, <1>8
    <3>2. PICK g \in Locked : InLine(i, g) /\ ticket[i] <= tail[Home(i)][g]
      BY <3>1 DEF LineInv, TicketInv
    <3>3. ~ (Home(i) = Home(j) /\ g = f /\ tail[Home(i)][g] = ticket[j])
      BY <3>1, <3>2, <1>1, <1>12 DEF InLine, SameLine
    <3>4. tail'[Home(i)][g] = tail[Home(i)][g]
      BY <3>3, <1>3, <1>9
    <3> QED
      BY <3>1, <3>2, <3>4, <1>3, <1>6
  <2> QED
    BY <2>1, <2>2 DEF TicketInv
<1>14. DistinctInv'
  <2> SUFFICES ASSUME NEW g \in Locked, NEW i \in Jobs, NEW k \in Jobs,
                      SameLine(i, k, g)', ticket'[i] # 0, ticket'[i] = ticket'[k]
               PROVE  i = k
    BY DEF DistinctInv
  <2>1. i # j /\ k # j
    BY <1>8
  <2> QED
    BY <2>1, <1>4, <1>8 DEF LineInv, DistinctInv
<1>15. GapInv'
  <2> SUFFICES ASSUME NEW g \in Locked, NEW i \in Jobs, NEW k \in Jobs,
                      SameLine(i, k, g)', ticket'[i] # 0, ticket'[i] < ticket'[k]
               PROVE  \E h \in Jobs : SameLine(h, k, g)' /\ ticket'[h] = ticket'[k] - 1
    BY DEF GapInv
  <2>1. i # j /\ k # j
    BY <1>7, <1>8
  <2>2. SameLine(i, k, g) /\ ticket[i] # 0 /\ ticket[i] < ticket[k]
    BY <2>1, <1>4, <1>8
  <2>3. PICK h \in Jobs : SameLine(h, k, g) /\ ticket[h] = ticket[k] - 1
    BY <2>2 DEF LineInv, GapInv
  <2>4. h # j
    <3> SUFFICES ASSUME h = j
                 PROVE  FALSE
      OBVIOUS
    <3>1. g = f /\ SameLine(i, j, f)
      BY <2>2, <2>3, <1>1 DEF SameLine, AtFile
    <3>2. ticket[j] <= ticket[i] /\ ticket[i] <= ticket[j]
      BY <3>1, <2>2, <2>3, <1>7, <1>11
    <3> QED
      BY <3>1, <3>2, <2>1, <2>2, <1>7 DEF LineInv, DistinctInv
  <2> QED
    BY <2>1, <2>3, <2>4, <1>4, <1>8
<1>16. TailInv'
  <2> SUFFICES ASSUME NEW p \in Processes, NEW g \in Locked, tail'[p][g] # 0
               PROVE  \E i \in Jobs : AtFile(i, g)' /\ Home(i)' = p /\ ticket'[i] = tail'[p][g]
    BY DEF TailInv
  <2>1. tail'[p][g] = tail[p][g]
    BY <1>9
  <2>2. PICK i \in Jobs : AtFile(i, g) /\ Home(i) = p /\ ticket[i] = tail[p][g]
    BY <2>1 DEF LineInv, TailInv
  <2>3. i # j
    BY <2>1, <2>2, <1>1, <1>9 DEF AtFile
  <2> QED
    BY <2>1, <2>2, <2>3, <1>3, <1>8
<1>17. FirstInv'
  <2> SUFFICES ASSUME NEW g \in Locked, NEW i \in Jobs, NEW k \in Jobs,
                      SameLine(i, k, g)', Holds(k, g)', ticket'[i] # 0
               PROVE  ticket'[k] <= ticket'[i]
    BY DEF FirstInv
  <2>1. i # j /\ k # j
    BY <1>5, <1>8
  <2> QED
    BY <2>1, <1>4, <1>5, <1>8 DEF LineInv, FirstInv
<1> QED
  BY <1>13, <1>14, <1>15, <1>16, <1>17 DEF LineInv

\* A job that stays in its line, or has none, leaves it as it is.
LEMMA StaysInLine ==
  ASSUME TypeOK, LineInv, NEW j \in Jobs, UNCHANGED <<work, step, ticket, tail>>,
         pc[j] \in {"waiting", "read", "open"},
         NEW at \in {"read", "open", "written"}, pc' = [pc EXCEPT ![j] = at],
         at = "open" \/ pc[j] = "open" => FileOf(j) \notin Locked,
         pc[j] = "waiting" => MayEnter(j)
  PROVE  LineInv'
<1>1. \A i \in Jobs : /\ Home(i)' = Home(i)
                      /\ \A g : AtFile(i, g)' <=> AtFile(i, g)
  BY DEF AtFile, FileOf, Home
<1>2. \A i, k \in Jobs : \A g : SameLine(i, k, g)' <=> SameLine(i, k, g)
  BY <1>1 DEF SameLine
<1>3. \A i \in Jobs : \A g \in Locked : InLine(i, g)' <=> InLine(i, g)
  BY <1>1 DEF InLine, TypeOK, AtFile
<1>4. \A i \in Jobs \ {j} : \A g : Holds(i, g)' <=> Holds(i, g)
  BY <1>1 DEF Holds, TypeOK
<1>5. TicketInv'
  BY <1>1, <1>3 DEF LineInv, TicketInv
<1>6. DistinctInv' /\ GapInv'
  BY <1>2 DEF LineInv, DistinctInv, GapInv
<1>7. TailInv'
  BY <1>1 DEF LineInv, TailInv
<1>8. FirstInv'
  <2> SUFFICES ASSUME NEW g \in Locked, NEW i \in Jobs, NEW k \in Jobs,
                      SameLine(i, k, g), Holds(k, g)', ticket[i] # 0
               PROVE  ticket[k] <= ticket[i]
    BY <1>2 DEF FirstInv
  <2>1. CASE k # j
    BY <2>1, <1>4 DEF LineInv, FirstInv
  <2>2. CASE k = j
    <3>1. AtFile(j, g) /\ InLine(j, g)
      BY <2>2, <1>1, <1>3 DEF Holds, InLine
    <3>2. CASE pc[j] = "waiting"
      BY <3>1, <3>2, <2>2, EntryIsFirst
    <3>3. CASE pc[j] = "read"
      BY <3>1, <3>3, <2>2 DEF LineInv, FirstInv, Holds
    <3>4. CASE pc[j] = "open"
      BY <3>1, <3>4 DEF InLine
    <3> QED
      BY <3>2, <3>3, <3>4
  <2> QED
    BY <2>1, <2>2
<1> QED
  BY <1>5, <1>6, <1>7, <1>8 DEF LineInv

\* Two jobs of a process never hold one lock.
LEMMA HoldersAreOne ==
  ASSUME TypeOK, StepInv, LineInv
  PROVE  OneHolder
<1> SUFFICES ASSUME NEW f \in Locked, NEW i \in Jobs, NEW j \in Jobs,
                    Holds(i, f), Holds(j, f), Home(i) = Home(j)
             PROVE  i = j
  BY DEF OneHolder
<1>1. SameLine(i, j, f) /\ SameLine(j, i, f)
  BY DEF SameLine, Holds
<1>2. ticket[i] # 0 /\ ticket[j] # 0
  BY DEF LineInv, TicketInv, InLine, Holds
<1>3. ticket[i] = ticket[j]
  <2>1. ticket[i] <= ticket[j] /\ ticket[j] <= ticket[i]
    BY <1>1, <1>2 DEF LineInv, FirstInv
  <2>2. ticket[i] \in Nat /\ ticket[j] \in Nat
    BY DEF TypeOK
  <2> QED
    BY <2>1, <2>2
<1> QED
  BY <1>1, <1>2, <1>3 DEF LineInv, DistinctInv

\* A job that ends a save goes on to one it has, or stops.
LEMMA GoesOn ==
  ASSUME TypeOK, ShapeInv, StepInv, NEW j \in Jobs, Active(j), work' = work,
         NEW how, Go(j, how)
  PROVE  /\ step' \in [Jobs -> Nat \ {0}]
         /\ pc' \in [Jobs -> {"ready", "waiting", "read", "open", "written",
                              "done", "failed", "dead"}]
         /\ DOMAIN copy' = Jobs
         /\ StepInv'
<1> DEFINE n == Len(Saves(work[j]))
<1>1. /\ n \in Nat /\ step[j] \in Nat \ {0} /\ step[j] <= n
      /\ \A k \in 1 .. n : Saves(work[j])[k] \in Files
  BY SavesType DEF TypeOK, StepInv
<1>2. step' \in [Jobs -> Nat \ {0}]
  BY <1>1 DEF Go, TypeOK
<1>3. pc' \in [Jobs -> {"ready", "waiting", "read", "open", "written", "done", "failed", "dead"}]
  BY DEF Go, TypeOK
<1>4. DOMAIN copy' = Jobs
  BY DEF Go, ShapeInv
<1>5. StepInv'
  <2> SUFFICES ASSUME NEW i \in Jobs
               PROVE  /\ Active(i)' => step'[i] <= Len(Saves(work[i])) /\ FileOf(i)' \in Files
                      /\ pc'[i] = "open" => AtFile(i, "policies")'
                      /\ pc'[i] = "written" => FileOf(i)' \in Locked
    BY DEF StepInv
  <2>1. CASE i # j
    <3>1. step'[i] = step[i] /\ pc'[i] = pc[i]
      BY <2>1 DEF Go, TypeOK
    <3> QED
      BY <3>1 DEF StepInv, Active, AtFile, FileOf
  <2>2. CASE i = j
    <3>1. pc'[j] \in {"failed", "done", "ready"}
      BY DEF Go, TypeOK
    <3>2. ASSUME pc'[j] = "ready"
          PROVE  step'[j] \in 1 .. n
      BY <3>2, <1>1 DEF Go, TypeOK
    <3> QED
      BY <3>1, <3>2, <2>2, <1>1 DEF Active, FileOf
  <2> QED
    BY <2>1, <2>2
<1> QED
  BY <1>2, <1>3, <1>4, <1>5
LEMMA ReleaseType ==
  ASSUME TypeOK, NEW j \in Jobs, Release(j)
  PROVE  ticket' \in [Jobs -> Nat] /\ tail' \in [Processes -> [Locked -> Nat]]
<1>1. CASE FileOf(j) \in Locked
  BY <1>1 DEF Release, TailAfter, TypeOK
<1>2. CASE FileOf(j) \notin Locked
  BY <1>2 DEF Release, TypeOK
<1> QED
  BY <1>1, <1>2

\* Ends of saves: nothing is written, and the job has no copy any more.
\* What a read gives depends on nothing but the file.
LEMMA SameSeen ==
  ASSUME NEW f, contents'[f] = contents[f]
  PROVE  Seen(f)' = Seen(f)
BY DEF Seen, Newest

LEMMA EndsSave ==
  ASSUME IInv, NEW j \in Jobs, Active(j), pc[j] # "ready",
         pc[j] = "waiting" => MayEnter(j), Release(j), NEW how, Go(j, how),
         UNCHANGED <<work, contents, torn, up>>,
         excused' \in {excused, excused \ {j}}, lossy' \subseteq lossy \cup {"policies"}
  PROVE  IInv'
<1>1. TypeOK'
  BY GoesOn, ReleaseType DEF IInv, TypeOK, Files
<1>2. ShapeInv' /\ StepInv'
  BY GoesOn DEF IInv, ShapeInv
<1>3. LineInv'
  BY LeavesLine DEF IInv
<1>4. CopyInv'
  <2>1. \A i \in Jobs \ {j} : step'[i] = step[i] /\ pc'[i] = pc[i] /\ copy'[i] = copy[i]
    BY DEF Go, IInv, TypeOK, ShapeInv
  <2>2. pc'[j] # "read"
    BY DEF Go, IInv, TypeOK
  <2>3. \A f : Seen(f)' = Seen(f)
    BY SameSeen
  <2> QED
    BY <2>1, <2>2, <2>3 DEF IInv, CopyInv, AtFile, FileOf
<1> QED
  BY <1>1, <1>2, <1>3, <1>4 DEF IInv

-----------------------------------------------------------------------------
(* The inductive invariant.                                                *)

LEMMA InitIInv == Init => IInv
<1> SUFFICES ASSUME Init
             PROVE  IInv
  OBVIOUS
<1>1. work \in [Jobs -> Work]
  BY StoresAssumption DEF Init
<1>2. TypeOK
  <2>1. step \in [Jobs -> Nat \ {0}] /\ ticket \in [Jobs -> Nat]
    BY DEF Init
  <2>2. tail \in [Processes -> [Locked -> Nat]]
    BY DEF Init
  <2>3. pc \in [Jobs -> {"ready", "waiting", "read", "open", "written", "done", "failed", "dead"}]
    BY DEF Init
  <2> QED
    BY <1>1, <2>1, <2>2, <2>3 DEF Init, TypeOK
<1>3. ShapeInv
  BY DEF Init, ShapeInv, Empty
<1>4. StepInv
  <2> SUFFICES ASSUME NEW j \in Jobs
               PROVE  step[j] <= Len(Saves(work[j])) /\ FileOf(j) \in Files
    BY DEF Init, StepInv
  <2>1. Saves(work[j]) \in Seq(Files) /\ Len(Saves(work[j])) \in Nat \ {0}
    BY SavesType
  <2> QED
    BY <2>1 DEF Init, FileOf
<1>5. LineInv
  BY DEF Init, LineInv, TicketInv, DistinctInv, GapInv, TailInv, FirstInv, InLine, Holds
<1>6. CopyInv
  BY DEF Init, CopyInv
<1> QED
  BY <1>2, <1>3, <1>4, <1>5, <1>6 DEF IInv

LEMMA BeginKeeps ==
  ASSUME IInv, NEW j \in Jobs, Begin(j)
  PROVE  IInv'
<1>1. \A i \in Jobs : /\ pc'[i] = IF i = j THEN "waiting" ELSE pc[i]
                      /\ \A f : AtFile(i, f)' <=> AtFile(i, f)
  BY DEF Begin, IInv, TypeOK, AtFile, FileOf
<1>2. TypeOK'
  <2>1. ticket' \in [Jobs -> Nat] /\ tail' \in [Processes -> [Locked -> Nat]]
    <3>1. CASE FileOf(j) \in Locked
      <4>1. Home(j) \in Processes
        BY DEF IInv, TypeOK, Home, Work
      <4>2. tail[Home(j)][FileOf(j)] \in Nat
        BY <3>1, <4>1 DEF IInv, TypeOK
      <4>3. ticket' = [ticket EXCEPT ![j] = tail[Home(j)][FileOf(j)] + 1]
            /\ tail' = [tail EXCEPT ![Home(j)][FileOf(j)] = @ + 1]
        BY <3>1 DEF Begin
      <4>4. tail \in [Processes -> [Locked -> Nat]] /\ ticket \in [Jobs -> Nat]
        BY DEF IInv, TypeOK
      <4> QED
        BY <3>1, <4>1, <4>2, <4>3, <4>4
    <3>2. CASE FileOf(j) \notin Locked
      BY <3>2 DEF Begin, IInv, TypeOK
    <3> QED
      BY <3>1, <3>2
  <2> QED
    BY <2>1 DEF Begin, IInv, TypeOK
<1>3. ShapeInv' /\ StepInv'
  BY <1>1 DEF Begin, IInv, ShapeInv, StepInv, Active, FileOf
<1>4. LineInv'
  BY JoinsLine DEF IInv
<1>5. CopyInv'
  <2>1. UNCHANGED <<contents, copy, excused>>
    BY DEF Begin
  <2>2. \A f : Seen(f)' = Seen(f)
    BY <2>1, SameSeen
  <2> QED
    BY <1>1, <2>1, <2>2 DEF Begin, IInv, CopyInv
<1> QED
  BY <1>2, <1>3, <1>4, <1>5 DEF IInv

LEMMA ReadKeeps ==
  ASSUME IInv, NEW j \in Jobs, Read(j)
  PROVE  IInv'
<1>1. PICK rows \in Seen(FileOf(j)) \cup {Empty[FileOf(j)]} :
        IF work[j].kind = "forget" /\ Known(rows, work[j].lesson) = {}
        THEN Release(j) /\ Go(j, "nothing to do") /\ UNCHANGED excused
        ELSE /\ copy' = [copy EXCEPT ![j] = rows]
             /\ pc' = [pc EXCEPT ![j] = "read"]
             /\ excused' = IF \/ rows \notin Seen(FileOf(j))
                              \/ FileOf(j) = "policies" /\ Rewriting
                           THEN excused \cup {j} ELSE excused
             /\ UNCHANGED <<step, ticket, tail>>
  BY DEF Read
<1>2. /\ pc[j] = "waiting" /\ Active(j) /\ MayEnter(j)
      /\ UNCHANGED <<work, contents, torn, up, lossy>>
  BY DEF Read, Active
<1>3. CASE work[j].kind = "forget" /\ Known(rows, work[j].lesson) = {}
  BY <1>1, <1>2, <1>3, EndsSave
<1>4. CASE ~ (work[j].kind = "forget" /\ Known(rows, work[j].lesson) = {})
  <2>1. /\ pc' = [pc EXCEPT ![j] = "read"] /\ copy' = [copy EXCEPT ![j] = rows]
        /\ UNCHANGED <<step, ticket, tail>>
        /\ excused \subseteq excused' /\ excused' \subseteq excused \cup {j}
        /\ j \notin excused' => rows \in Seen(FileOf(j))
    BY <1>1, <1>4
  <2>2. \A i \in Jobs : /\ pc'[i] = IF i = j THEN "read" ELSE pc[i]
                        /\ copy'[i] = IF i = j THEN rows ELSE copy[i]
                        /\ FileOf(i)' = FileOf(i)
                        /\ \A f : AtFile(i, f)' <=> AtFile(i, f)
    BY <2>1, <1>2 DEF IInv, TypeOK, ShapeInv, AtFile, FileOf
  <2>3. TypeOK'
    BY <2>1, <1>2 DEF IInv, TypeOK
  <2>4. ShapeInv'
    BY <2>1, <1>2 DEF IInv, ShapeInv
  <2>5. StepInv'
    BY <2>1, <2>2, <1>2 DEF IInv, StepInv, Active
  <2>6. LineInv'
    BY <2>1, <1>2, StaysInLine DEF IInv
  <2>7. CopyInv'
    <3>1. \A f : Seen(f)' = Seen(f)
      BY <1>2, SameSeen
    <3> QED
      BY <3>1, <2>1, <2>2 DEF IInv, CopyInv, AtFile
  <2> QED
    BY <2>3, <2>4, <2>5, <2>6, <2>7 DEF IInv
<1> QED
  BY <1>3, <1>4

LEMMA WriteKeeps ==
  ASSUME IInv, NEW j \in Jobs, Write(j)
  PROVE  IInv'
<1> DEFINE f == FileOf(j)
<1>1. PICK rows \in Updated(work[j], f, copy[j], j) : contents' = [contents EXCEPT ![f] = rows]
  BY DEF Write
<1>2. /\ pc[j] = "read" /\ f \in Locked /\ f \in Files /\ pc' = [pc EXCEPT ![j] = "written"]
      /\ excused' = excused \cup {i \in Readers(f) : Home(i) # Home(j)}
      /\ lossy' \subseteq lossy \cup {f}
      /\ UNCHANGED <<work, step, copy, ticket, tail, torn, up>>
  BY DEF Write, Files
<1>3. \A i \in Jobs : /\ pc'[i] = IF i = j THEN "written" ELSE pc[i]
                      /\ FileOf(i)' = FileOf(i)
                      /\ \A g : AtFile(i, g)' <=> AtFile(i, g)
  BY <1>2 DEF IInv, TypeOK, AtFile, FileOf
<1>4. AtFile(j, f) /\ Holds(j, f)
  BY <1>2 DEF IInv, StepInv, Active, AtFile, Holds
<1>5. TypeOK'
  BY <1>2 DEF IInv, TypeOK, Readers
<1>6. ShapeInv'
  BY <1>1, <1>2 DEF IInv, ShapeInv
<1>7. StepInv'
  BY <1>2, <1>3 DEF IInv, StepInv, Active
<1>8. LineInv'
  BY <1>2, StaysInLine DEF IInv
<1>9. CopyInv'
  <2> SUFFICES ASSUME NEW g \in Locked, NEW i \in Jobs,
                      AtFile(i, g), pc'[i] = "read", i \notin excused'
               PROVE  copy[i] \in Seen(g)'
    BY <1>2, <1>3 DEF CopyInv
  <2>1. i # j /\ pc[i] = "read" /\ copy[i] \in Seen(g)
    BY <1>2, <1>3 DEF IInv, CopyInv
  <2>2. CASE g = f
    <3>1. Holds(i, f) /\ i \in Readers(f)
      BY <2>1, <2>2 DEF Holds, Readers
    <3>2. Home(i) # Home(j)
      BY <3>1, <2>1, <1>2, <1>4, HoldersAreOne DEF IInv, OneHolder
    <3> QED
      BY <3>1, <3>2, <1>2
  <2>3. CASE g # f
    <3>1. contents'[g] = contents[g]
      BY <2>3, <1>1, <1>2 DEF IInv, ShapeInv, Files
    <3> QED
      BY <3>1, <2>1, SameSeen
  <2> QED
    BY <2>2, <2>3
<1> QED
  BY <1>5, <1>6, <1>7, <1>8, <1>9 DEF IInv
LEMMA ReturnKeeps ==
  ASSUME IInv, NEW j \in Jobs, Return(j)
  PROVE  IInv'
<1>1. /\ pc[j] = "written" /\ Release(j) /\ Go(j, "saved") /\ excused' = excused \ {j}
      /\ UNCHANGED <<work, contents, torn, up, lossy>>
  BY DEF Return
<1> QED
  BY <1>1, EndsSave DEF Active

LEMMA FailKeeps ==
  ASSUME IInv, NEW j \in Jobs, Fail(j)
  PROVE  IInv'
<1> DEFINE how == IF Swallowed(j) THEN "swallowed" ELSE "failed"
<1>1. /\ pc[j] \in {"read", "open", "written"} /\ Release(j) /\ Go(j, how)
      /\ excused' = excused \ {j}
      /\ UNCHANGED <<work, contents, torn, up>>
      /\ lossy' \subseteq lossy \cup {"policies"}
  BY DEF Fail
<1> HIDE DEF how
<1> QED
  BY <1>1, EndsSave DEF Active

LEMMA TruncateKeeps ==
  ASSUME IInv, NEW j \in Jobs, Truncate(j)
  PROVE  IInv'
<1>1. /\ pc[j] = "read" /\ FileOf(j) = "policies" /\ FileOf(j) \notin Locked
      /\ contents' = [contents EXCEPT !["policies"] = <<>>]
      /\ torn' = FALSE /\ pc' = [pc EXCEPT ![j] = "open"]
      /\ excused' = excused \cup (Readers("policies") \ {j})
      /\ UNCHANGED <<work, step, copy, ticket, tail, up, lossy>>
  BY DEF Truncate, Locked
<1>2. \A i \in Jobs : /\ pc'[i] = IF i = j THEN "open" ELSE pc[i]
                      /\ FileOf(i)' = FileOf(i)
                      /\ \A g : AtFile(i, g)' <=> AtFile(i, g)
  BY <1>1 DEF IInv, TypeOK, AtFile, FileOf
<1>3. \A g \in Locked : contents'[g] = contents[g]
  BY <1>1 DEF IInv, ShapeInv, Locked, Files
<1>4. TypeOK'
  BY <1>1 DEF IInv, TypeOK, Readers
<1>5. ShapeInv'
  BY <1>1 DEF IInv, ShapeInv
<1>6. StepInv'
  BY <1>1, <1>2 DEF IInv, StepInv, Active, AtFile
<1>7. LineInv'
  BY <1>1, StaysInLine DEF IInv
<1>8. CopyInv'
  <2>1. \A g \in Locked : Seen(g)' = Seen(g)
    BY <1>3, SameSeen
  <2> QED
    BY <1>1, <1>2, <2>1 DEF IInv, CopyInv
<1> QED
  BY <1>4, <1>5, <1>6, <1>7, <1>8 DEF IInv

LEMMA FillKeeps ==
  ASSUME IInv, NEW j \in Jobs, Fill(j)
  PROVE  IInv'
<1>1. /\ pc[j] = "open" /\ torn' \in BOOLEAN /\ Go(j, "saved")
      /\ excused' = (excused \cup Readers("policies")) \ {j}
      /\ lossy' \subseteq lossy \cup {"policies"}
      /\ UNCHANGED <<work, ticket, tail, up>>
  BY DEF Fill
<1>2. AtFile(j, "policies") /\ Release(j) /\ Active(j)
  BY <1>1 DEF IInv, StepInv, AtFile, Release, Locked, Active
<1>3. /\ \A g \in Locked : contents'[g] = contents[g]
      /\ DOMAIN contents' = Files
  BY DEF Fill, IInv, ShapeInv, Locked, Files
<1>4. /\ step' \in [Jobs -> Nat \ {0}]
      /\ pc' \in [Jobs -> {"ready", "waiting", "read", "open", "written", "done", "failed", "dead"}]
      /\ DOMAIN copy' = Jobs /\ StepInv'
  BY <1>1, <1>2, GoesOn DEF IInv
<1>5. TypeOK'
  BY <1>1, <1>4 DEF IInv, TypeOK, Readers, Files
<1>6. ShapeInv'
  BY <1>3, <1>4 DEF ShapeInv
<1>7. LineInv'
  BY <1>1, <1>2, LeavesLine DEF IInv
<1>8. CopyInv'
  <2>1. \A i \in Jobs \ {j} : step'[i] = step[i] /\ pc'[i] = pc[i] /\ copy'[i] = copy[i]
    BY <1>1 DEF Go, IInv, TypeOK, ShapeInv
  <2>2. pc'[j] # "read"
    BY <1>1 DEF Go, IInv, TypeOK
  <2> QED
    <3>1. \A g \in Locked : Seen(g)' = Seen(g)
      BY <1>3, SameSeen
    <3> QED
      BY <2>1, <2>2, <3>1, <1>1 DEF IInv, CopyInv, AtFile, FileOf
<1> QED
  BY <1>4, <1>5, <1>6, <1>7, <1>8 DEF IInv

\* A process that dies takes all of its lines with it.
LEMMA CrashKeeps ==
  ASSUME IInv, NEW p \in Processes, Crash(p)
  PROVE  IInv'
<1> DEFINE dying == {j \in Jobs : Home(j) = p /\ ~Over(j)}
<1>1. /\ up' = up \ {p} /\ UNCHANGED <<work, step, contents, torn>>
      /\ pc' = [j \in Jobs |-> IF j \in dying THEN "dead" ELSE pc[j]]
      /\ copy' = [j \in Jobs |-> IF j \in dying THEN NoCopy ELSE copy[j]]
      /\ ticket' = [j \in Jobs |-> IF Home(j) = p THEN 0 ELSE ticket[j]]
      /\ tail' = [tail EXCEPT ![p] = [f \in Locked |-> 0]]
      /\ excused' = excused \ dying
      /\ lossy' \subseteq lossy \cup {"policies"}
  BY DEF Crash
<1>2. \A i \in Jobs : /\ Home(i)' = Home(i) /\ FileOf(i)' = FileOf(i) /\ Home(i) \in Processes
                      /\ \A g : AtFile(i, g)' <=> AtFile(i, g)
  BY <1>1 DEF AtFile, FileOf, Home, IInv, TypeOK, Work
<1>3. \A i, k \in Jobs : \A g : SameLine(i, k, g)' <=> SameLine(i, k, g)
  BY <1>2 DEF SameLine
<1>4. \A i \in Jobs : Home(i) = p => pc'[i] \in {"done", "failed", "dead"}
  BY <1>1 DEF Over
<1>5. \A i \in Jobs : Home(i) # p => pc'[i] = pc[i] /\ copy'[i] = copy[i] /\ i \notin dying
                                     /\ ticket'[i] = ticket[i]
  BY <1>1
<1>6. \A i \in Jobs : pc'[i] \in {pc[i], "dead"}
  BY <1>1
<1>7. \A q \in Processes, f \in Locked : tail'[q][f] = IF q = p THEN 0 ELSE tail[q][f]
  BY <1>1 DEF IInv, TypeOK
<1>8. TypeOK'
  <2>1. pc' \in [Jobs -> {"ready", "waiting", "read", "open", "written", "done", "failed", "dead"}]
    BY <1>1 DEF IInv, TypeOK
  <2>2. ticket' \in [Jobs -> Nat]
    BY <1>1 DEF IInv, TypeOK
  <2>3. tail' \in [Processes -> [Locked -> Nat]]
    BY <1>1 DEF IInv, TypeOK
  <2> QED
    BY <2>1, <2>2, <2>3, <1>1 DEF IInv, TypeOK, Files
<1>9. ShapeInv'
  BY <1>1 DEF IInv, ShapeInv
<1>10. StepInv'
  BY <1>1, <1>2, <1>6 DEF IInv, StepInv, Active
<1> HIDE DEF dying
<1>11. LineInv'
  <2>1. \A i \in Jobs : \A g : InLine(i, g)' <=> Home(i) # p /\ InLine(i, g)
    BY <1>2, <1>4, <1>5 DEF InLine
  <2>2. \A i \in Jobs : \A g : Holds(i, g)' <=> Home(i) # p /\ Holds(i, g)
    BY <1>2, <1>4, <1>5 DEF Holds
  <2>3. \A i \in Jobs : ticket'[i] = IF Home(i) = p THEN 0 ELSE ticket[i]
    BY <1>1
  <2>4. TicketInv'
    <3>1. \A i \in Jobs : \A g \in Locked : InLine(i, g)' => ticket'[i] # 0
      BY <2>1, <2>3 DEF IInv, LineInv, TicketInv
    <3>2. ASSUME NEW i \in Jobs, ticket'[i] # 0
          PROVE  \E g \in Locked : InLine(i, g)' /\ ticket'[i] <= tail'[Home(i)'][g]
      <4>1. Home(i) # p /\ ticket'[i] = ticket[i]
        BY <3>2, <2>3
      <4>2. PICK g \in Locked : InLine(i, g) /\ ticket[i] <= tail[Home(i)][g]
        BY <3>2, <4>1 DEF IInv, LineInv, TicketInv
      <4> QED
        BY <4>1, <4>2, <2>1, <1>2, <1>7
    <3> QED
      BY <3>1, <3>2 DEF TicketInv
  <2>5. DistinctInv'
    BY <2>3, <1>3 DEF IInv, LineInv, DistinctInv, SameLine
  <2>6. GapInv'
    <3> SUFFICES ASSUME NEW g \in Locked, NEW i \in Jobs, NEW k \in Jobs,
                        SameLine(i, k, g), ticket'[i] # 0, ticket'[i] < ticket'[k]
                 PROVE  \E h \in Jobs : SameLine(h, k, g) /\ ticket'[h] = ticket'[k] - 1
      BY <1>3 DEF GapInv
    <3>1. Home(i) # p /\ Home(k) # p /\ ticket[i] # 0 /\ ticket[i] < ticket[k]
      BY <2>3 DEF SameLine
    <3>2. PICK h \in Jobs : SameLine(h, k, g) /\ ticket[h] = ticket[k] - 1
      BY <3>1 DEF IInv, LineInv, GapInv
    <3> QED
      BY <3>1, <3>2, <2>3 DEF SameLine
  <2>7. TailInv'
    <3> SUFFICES ASSUME NEW q \in Processes, NEW g \in Locked, tail'[q][g] # 0
                 PROVE  \E i \in Jobs : AtFile(i, g) /\ Home(i) = q /\ ticket'[i] = tail'[q][g]
      BY <1>2 DEF TailInv
    <3>1. q # p /\ tail'[q][g] = tail[q][g]
      BY <1>7
    <3> QED
      BY <3>1, <2>3 DEF IInv, LineInv, TailInv
  <2>8. FirstInv'
    <3> SUFFICES ASSUME NEW g \in Locked, NEW i \in Jobs, NEW k \in Jobs,
                        SameLine(i, k, g), Holds(k, g), Home(k) # p, ticket'[i] # 0
                 PROVE  ticket'[k] <= ticket'[i]
      BY <1>3, <2>2 DEF FirstInv
    <3> QED
      BY <2>3 DEF IInv, LineInv, FirstInv, SameLine
  <2> QED
    BY <2>4, <2>5, <2>6, <2>7, <2>8 DEF LineInv
<1>12. CopyInv'
  <2>0. \A g : Seen(g)' = Seen(g)
    BY <1>1, SameSeen
  <2> SUFFICES ASSUME NEW g \in Locked, NEW i \in Jobs,
                      AtFile(i, g), pc'[i] = "read", i \notin excused'
               PROVE  copy'[i] \in Seen(g)
    BY <2>0, <1>1, <1>2 DEF CopyInv
  <2>1. Home(i) # p
    BY <1>4
  <2>2. i \notin excused /\ pc[i] = "read" /\ copy'[i] = copy[i]
    BY <2>1, <1>1, <1>5
  <2> QED
    BY <2>2 DEF IInv, CopyInv
<1> QED
  BY <1>8, <1>9, <1>10, <1>11, <1>12 DEF IInv

LEMMA StutterKeeps ==
  ASSUME IInv, UNCHANGED vars
  PROVE  IInv'
BY DEF vars, IInv, TypeOK, ShapeInv, StepInv, LineInv, TicketInv, DistinctInv, GapInv, TailInv,
   FirstInv, CopyInv, Seen, Newest, Active, InLine, Holds, SameLine, AtFile, FileOf, Home

LEMMA NextIInv == IInv /\ [Next]_vars => IInv'
<1> SUFFICES ASSUME IInv, [Next]_vars
             PROVE  IInv'
  OBVIOUS
<1>1. ASSUME NEW j \in Jobs, Begin(j) \/ Proceed(j)
      PROVE  IInv'
  BY <1>1, BeginKeeps, ReadKeeps, WriteKeeps, ReturnKeeps, TruncateKeeps, FillKeeps, FailKeeps
     DEF Proceed
<1>2. ASSUME NEW p \in Processes, Crash(p)
      PROVE  IInv'
  BY <1>2, CrashKeeps
<1>3. CASE UNCHANGED vars
  BY <1>3, StutterKeeps
<1> QED
  BY <1>1, <1>2, <1>3 DEF Next

-----------------------------------------------------------------------------
(* Theorems.                                                               *)

\* Every variable keeps its type.
THEOREM TypeCorrect == Spec => []TypeOK
<1>1. IInv => TypeOK
  BY DEF IInv
<1> QED
  BY <1>1, InitIInv, NextIInv, PTL DEF Spec

\* withFileLock: between the read of a locked file and the return of its save no other
\* job of the process is between its own.
THEOREM LockExcludes == Spec => []OneHolder
<1>1. IInv => OneHolder
  BY HoldersAreOne DEF IInv
<1> QED
  BY <1>1, InitIInv, NextIInv, PTL DEF Spec

UpdateStep ==
  \A f \in Locked :
    contents'[f] # contents[f] =>
      \E j \in Jobs : /\ AtFile(j, f) /\ pc[j] = "read"
                      /\ \/ \E rows \in Seen(f) : contents'[f] \in Updated(work[j], f, rows, j)
                         \/ j \in excused

LEMMA StepUpdates == IInv /\ [Next]_vars => UpdateStep
<1> SUFFICES ASSUME IInv, [Next]_vars, NEW f \in Locked, contents'[f] # contents[f]
             PROVE  \E j \in Jobs : /\ AtFile(j, f) /\ pc[j] = "read"
                                    /\ \/ \E rows \in Seen(f) :
                                            contents'[f] \in Updated(work[j], f, rows, j)
                                       \/ j \in excused
  BY DEF UpdateStep
<1>1. PICK j \in Jobs : Write(j)
  <2>1. ASSUME NEW j \in Jobs, Truncate(j) \/ Fill(j)
        PROVE  FALSE
    BY <2>1 DEF Truncate, Fill, IInv, ShapeInv, Locked, Files
  <2>2. ASSUME NEW j \in Jobs, Begin(j) \/ Read(j) \/ Return(j) \/ Fail(j)
        PROVE  FALSE
    BY <2>2 DEF Begin, Read, Return, Fail
  <2>3. ASSUME NEW p \in Processes, Crash(p)
        PROVE  FALSE
    BY <2>3 DEF Crash
  <2> QED
    BY <2>1, <2>2, <2>3 DEF Next, Proceed, vars
<1>2. /\ pc[j] = "read" /\ FileOf(j) \in Locked
      /\ \E rows \in Updated(work[j], FileOf(j), copy[j], j) :
            contents' = [contents EXCEPT ![FileOf(j)] = rows]
  BY <1>1 DEF Write
<1>3. FileOf(j) = f /\ contents'[f] \in Updated(work[j], f, copy[j], j)
  BY <1>2 DEF IInv, ShapeInv, Files
<1>4. AtFile(j, f)
  BY <1>2, <1>3 DEF IInv, StepInv, Active, AtFile
<1>5. j \in excused \/ copy[j] \in Seen(f)
  BY <1>2, <1>4 DEF IInv, CopyInv
<1> QED
  BY <1>2, <1>3, <1>4, <1>5

\* addTrace, appendLearnedTaskMemory, deleteFailureMemory and compactFailureMemories are
\* atomic updates of their file: no save is lost between the read and the rename of another,
\* unless that belongs to another process or could not read the file.
THEOREM SavesAreUpdates == Spec => UpdatesAreAtomic
<1>1. IInv /\ [Next]_vars => [UpdateStep]_vars
  BY StepUpdates
<1> QED
  BY <1>1, InitIInv, NextIInv, PTL DEF Spec, UpdatesAreAtomic, UpdateStep

-----------------------------------------------------------------------------
(* Rows.  A trace and a policy have one row at most, and no file more rows *)
(* than its limit.                                                         *)

TraceRows ==
  {s \in Seq(Jobs) : /\ Len(s) <= MaxTraces
                     /\ \A i, k \in 1 .. Len(s) : s[i] = s[k] => i = k}
MemoryRow == [lesson : Lessons, by : SUBSET Jobs]
MemoryRows ==
  {s \in SUBSET MemoryRow :
     /\ IsFiniteSet(s)
     /\ \A r \in s : r.by # {} /\ (r.lesson = Success => \E j \in Jobs : r.by = {j})
     /\ \A q, r \in s : q.lesson = r.lesson /\ q.lesson # Success => q = r}
Scores == [policy : Policies, by : Jobs]
ScoreRows ==
  {s \in Seq(Scores) : /\ Len(s) <= MaxPolicies
                       /\ \A i, k \in 1 .. Len(s) : s[i].policy = s[k].policy => i = k}

Rows(f) == CASE f = "traces" -> TraceRows
             [] f = "memory" -> MemoryRows
             [] f = "policies" -> ScoreRows

\* The rows W are those of s at other places than K, each once.
Rest(s, K, W) ==
  /\ Len(W) = IF K = {} THEN Len(s) ELSE Len(s) - 1
  /\ \A i \in (1 .. Len(s)) \ K : \E k \in 1 .. Len(W) : W[k] = s[i]
  /\ \E place \in [1 .. Len(W) -> (1 .. Len(s)) \ K] :
        /\ \A k \in 1 .. Len(W) : W[k] = s[place[k]]
        /\ \A i, k \in 1 .. Len(W) : place[i] = place[k] => i = k

\* Without takes away what is at the one place of K, and nothing else.
LEMMA WithoutOne ==
  ASSUME NEW S, NEW s \in Seq(S), NEW K \in SUBSET (1 .. Len(s)),
         \A i, k \in K : i = k
  PROVE  Without(s, K) \in Seq(S) /\ Rest(s, K, Without(s, K))
<1> DEFINE W == Without(s, K)
<1>1. CASE K = {}
  <2>1. W = s
    BY <1>1 DEF Without
  <2>2. \E place \in [1 .. Len(s) -> 1 .. Len(s)] :
           /\ \A k \in 1 .. Len(s) : s[k] = s[place[k]]
           /\ \A i, k \in 1 .. Len(s) : place[i] = place[k] => i = k
    <3> DEFINE id == [k \in 1 .. Len(s) |-> k]
    <3>1. /\ id \in [1 .. Len(s) -> 1 .. Len(s)]
          /\ \A k \in 1 .. Len(s) : s[k] = s[id[k]]
          /\ \A i, k \in 1 .. Len(s) : id[i] = id[k] => i = k
      OBVIOUS
    <3> QED BY <3>1
  <2> QED BY <1>1, <2>1, <2>2 DEF Rest
<1>2. CASE K # {}
  <2> DEFINE n == Len(s)
             c == CHOOSE i \in K : TRUE
             A == SubSeq(s, 1, c - 1)
             B == SubSeq(s, c + 1, n)
  <2>1. c \in K /\ c \in 1 .. n /\ n \in Nat
    <3>1. PICK i \in K : TRUE
      BY <1>2
    <3>2. c \in K
      BY <3>1
    <3> QED BY <3>2, LenProperties
  <2>2. K = {c}
    BY <2>1
  <2>3. W = A \o B
    BY <1>2 DEF Without
  <2>4. \A i \in 1 .. n : s[i] \in S
    OBVIOUS
  <2> HIDE DEF c, n
  <2>5. /\ A \in Seq(S) /\ Len(A) = c - 1
        /\ \A i \in 1 .. c - 1 : A[i] = s[i]
    <3>1. \A i \in 1 .. c - 1 : s[i] \in S
      BY <2>1, <2>4
    <3>2. /\ A \in Seq(S) /\ Len(A) = IF 1 <= c - 1 THEN (c - 1) - 1 + 1 ELSE 0
          /\ \A i \in 1 .. (c - 1) - 1 + 1 : A[i] = s[1 + i - 1]
      BY <3>1, <2>1, SubSeqProperties
    <3> QED BY <3>2, <2>1
  <2>6. /\ B \in Seq(S) /\ Len(B) = n - c
        /\ \A i \in 1 .. n - c : B[i] = s[c + i]
    <3>1. \A i \in c + 1 .. n : s[i] \in S
      BY <2>1, <2>4
    <3>2. /\ B \in Seq(S) /\ Len(B) = IF c + 1 <= n THEN n - (c + 1) + 1 ELSE 0
          /\ \A i \in 1 .. n - (c + 1) + 1 : B[i] = s[(c + 1) + i - 1]
      BY <3>1, <2>1, SubSeqProperties
    <3> QED BY <3>2, <2>1
  <2> HIDE DEF A, B
  <2>7. /\ W \in Seq(S) /\ Len(W) = n - 1
        /\ \A i \in 1 .. n - 1 : W[i] = IF i < c THEN s[i] ELSE s[i + 1]
    <3>1. /\ A \o B \in Seq(S) /\ Len(A \o B) = Len(A) + Len(B)
          /\ \A i \in 1 .. Len(A) + Len(B) :
                (A \o B)[i] = IF i <= Len(A) THEN A[i] ELSE B[i - Len(A)]
      <4>1. A \in Seq(S) /\ B \in Seq(S)
        BY <2>5, <2>6
      <4> QED BY <4>1, ConcatProperties, ZenonT(60)
    <3>2. Len(A) + Len(B) = n - 1
      BY <2>1, <2>5, <2>6
    <3>3. ASSUME NEW i \in 1 .. n - 1
          PROVE  (A \o B)[i] = IF i < c THEN s[i] ELSE s[i + 1]
      <4>1. CASE i < c
        BY <4>1, <3>1, <3>2, <2>1, <2>5
      <4>2. CASE ~(i < c)
        <5>1. i - Len(A) \in 1 .. n - c /\ c + (i - Len(A)) = i + 1 /\ ~(i <= Len(A))
          BY <4>2, <2>1, <2>5
        <5> QED BY <5>1, <4>2, <3>1, <3>2, <2>6
      <4> QED BY <4>1, <4>2
    <3> QED BY <3>1, <3>2, <3>3, <2>3
  <2> HIDE DEF W
  <2>8. ASSUME NEW i \in (1 .. n) \ K
        PROVE  \E k \in 1 .. n - 1 : W[k] = s[i]
    <3>1. CASE i < c
      BY <3>1, <2>1, <2>7
    <3>2. CASE i > c
      <4>1. i - 1 \in 1 .. n - 1 /\ ~(i - 1 < c) /\ (i - 1) + 1 = i
        BY <3>2, <2>1
      <4>2. W[i - 1] = s[i]
        BY <4>1, <2>7
      <4> QED BY <4>1, <4>2
    <3> QED BY <3>1, <3>2, <2>1, <2>2
  <2>9. \E place \in [1 .. n - 1 -> (1 .. n) \ K] :
           /\ \A k \in 1 .. n - 1 : W[k] = s[place[k]]
           /\ \A i, k \in 1 .. n - 1 : place[i] = place[k] => i = k
    <3> DEFINE place == [k \in 1 .. n - 1 |-> IF k < c THEN k ELSE k + 1]
    <3>1. place \in [1 .. n - 1 -> (1 .. n) \ K]
      BY <2>1, <2>2
    <3>2. \A k \in 1 .. n - 1 : W[k] = s[place[k]]
      BY <2>7
    <3>3. \A i, k \in 1 .. n - 1 : place[i] = place[k] => i = k
      BY <2>1
    <3> QED BY <3>1, <3>2, <3>3
  <2>10. Rest(s, K, W)
    <3>1. Len(s) = n
      BY DEF n
    <3>2. Len(W) = IF K = {} THEN Len(s) ELSE Len(s) - 1
      BY <3>1, <1>2, <2>7
    <3>3. \A i \in (1 .. Len(s)) \ K : \E k \in 1 .. Len(W) : W[k] = s[i]
      BY <3>1, <2>7, <2>8
    <3>4. \E place \in [1 .. Len(W) -> (1 .. Len(s)) \ K] :
             /\ \A k \in 1 .. Len(W) : W[k] = s[place[k]]
             /\ \A i, k \in 1 .. Len(W) : place[i] = place[k] => i = k
      <4>1. Len(W) = n - 1
        BY <2>7
      <4> QED BY <4>1, <3>1, <2>9
    <3> QED BY <3>2, <3>3, <3>4 DEF Rest
  <2> QED BY <2>7, <2>10 DEF W
<1> QED BY <1>1, <1>2

\* A save of a trace keeps the others, or the newest of a full file.
LEMMA AddTraceSpec ==
  ASSUME NEW s \in TraceRows, NEW t \in Jobs
  PROVE  /\ AddTrace(s, t) \in TraceRows
         /\ \E k \in 1 .. Len(AddTrace(s, t)) : AddTrace(s, t)[k] = t
         /\ \/ Len(AddTrace(s, t)) = MaxTraces
            \/ /\ Len(s) # MaxTraces
               /\ \A i \in 1 .. Len(s) :
                     \E k \in 1 .. Len(AddTrace(s, t)) : AddTrace(s, t)[k] = s[i]
<1> DEFINE K == {k \in DOMAIN s : s[k] = t}
           W == Without(s, K)
           all == Append(W, t)
           m == Len(W)
<1>1. /\ s \in Seq(Jobs) /\ Len(s) \in Nat /\ DOMAIN s = 1 .. Len(s) /\ Len(s) <= MaxTraces
      /\ \A i, k \in 1 .. Len(s) : s[i] = s[k] => i = k
      /\ MaxTraces \in Nat \ {0}
  BY StoresAssumption DEF TraceRows
<1>2. K \in SUBSET (1 .. Len(s)) /\ \A i, k \in K : i = k
  BY <1>1
<1> HIDE DEF K
<1>3. W \in Seq(Jobs) /\ Rest(s, K, W)
  BY <1>1, <1>2, WithoutOne
<1> HIDE DEF W
<1>4. m \in Nat /\ m <= Len(s) /\ Len(s) <= m + 1
  <2>1. CASE K = {}
    BY <2>1, <1>1, <1>3 DEF Rest
  <2>2. CASE K # {}
    <3>1. PICK k \in K : k \in 1 .. Len(s)
      BY <2>2, <1>2
    <3>2. Len(s) >= 1
      BY <3>1, <1>1
    <3>3. m = Len(s) - 1
      BY <2>2, <1>3 DEF Rest
    <3> QED BY <3>2, <3>3, <1>1
  <2> QED BY <2>1, <2>2
<1>5. PICK place \in [1 .. m -> (1 .. Len(s)) \ K] :
            /\ \A k \in 1 .. m : W[k] = s[place[k]]
            /\ \A i, k \in 1 .. m : place[i] = place[k] => i = k
  BY <1>3 DEF Rest
<1>6. \A k \in 1 .. m : W[k] # t
  BY <1>1, <1>5 DEF K
<1>7. \A i, k \in 1 .. m : W[i] = W[k] => i = k
  BY <1>1, <1>5
<1>71. \A i \in (1 .. Len(s)) \ K : \E k \in 1 .. m : W[k] = s[i]
  BY <1>3 DEF Rest
<1> HIDE DEF m
<1>8. /\ all \in Seq(Jobs) /\ all # << >> /\ Len(all) = m + 1
      /\ \A i \in 1 .. m : all[i] = W[i]
      /\ all[m + 1] = t
  BY <1>3, AppendProperties DEF m
<1> HIDE DEF all
<1>9. \A i, k \in 1 .. m + 1 : all[i] = all[k] => i = k
  <2> SUFFICES ASSUME NEW i \in 1 .. m + 1, NEW k \in 1 .. m + 1, all[i] = all[k]
               PROVE  i = k
    OBVIOUS
  <2>1. (i \in 1 .. m \/ i = m + 1) /\ (k \in 1 .. m \/ k = m + 1)
    BY <1>4
  <2>2. CASE i \in 1 .. m /\ k \in 1 .. m
    BY <2>2, <1>7, <1>8
  <2>3. CASE i \in 1 .. m /\ k = m + 1
    BY <2>3, <1>6, <1>8
  <2>4. CASE i = m + 1 /\ k \in 1 .. m
    BY <2>4, <1>6, <1>8
  <2> QED BY <2>1, <2>2, <2>3, <2>4
<1>10. AddTrace(s, t) = IF Len(all) > MaxTraces THEN Tail(all) ELSE all
  BY DEF AddTrace, all, W, K
<1>11. CASE Len(all) > MaxTraces
  <2> DEFINE T == Tail(all)
  <2>1. m = MaxTraces
    BY <1>1, <1>4, <1>8, <1>11
  <2>2. /\ T \in Seq(Jobs) /\ Len(T) = m
        /\ \A i \in 1 .. m : T[i] = all[i + 1]
    BY <1>4, <1>8, HeadTailProperties
  <2>3. T[m] = t /\ m \in 1 .. m
    <3>1. m \in 1 .. m
      BY <2>1, <1>1
    <3> QED BY <3>1, <2>2, <1>8
  <2> HIDE DEF T
  <2>4. ASSUME NEW i \in 1 .. m, NEW k \in 1 .. m, T[i] = T[k]
        PROVE  i = k
    <3>1. i + 1 \in 1 .. m + 1 /\ k + 1 \in 1 .. m + 1
      BY <1>4
    <3>2. all[i + 1] = all[k + 1]
      BY <2>2, <2>4
    <3>3. i + 1 = k + 1
      BY <3>1, <3>2, <1>9
    <3> QED BY <3>3
  <2>5. AddTrace(s, t) = T
    BY <1>10, <1>11 DEF T
  <2>6. T \in TraceRows
    BY <2>1, <2>2, <2>4, <1>1 DEF TraceRows
  <2> QED BY <2>1, <2>2, <2>3, <2>5, <2>6
<1>12. CASE ~(Len(all) > MaxTraces)
  <2>1. AddTrace(s, t) = all /\ m + 1 <= MaxTraces /\ m + 1 \in 1 .. m + 1
    BY <1>1, <1>4, <1>8, <1>10, <1>12
  <2>2. all \in TraceRows
    BY <2>1, <1>8, <1>9 DEF TraceRows
  <2>3. ASSUME NEW i \in 1 .. Len(s)
        PROVE  \E k \in 1 .. m + 1 : all[k] = s[i]
    <3>1. CASE i \in K
      BY <3>1, <2>1, <1>8 DEF K
    <3>2. CASE i \notin K
      <4>1. PICK k \in 1 .. m : W[k] = s[i]
        BY <3>2, <1>71
      <4>2. k \in 1 .. m + 1 /\ all[k] = s[i]
        BY <4>1, <1>4, <1>8
      <4> QED BY <4>2
    <3> QED BY <3>1, <3>2
  <2>4. Len(s) = MaxTraces => m + 1 = MaxTraces
    BY <2>1, <1>1, <1>4
  <2> QED BY <2>1, <2>2, <2>3, <2>4, <1>8
<1> QED BY <1>11, <1>12

\* A save of a score keeps the policies of the others, or the newest of a full list.
LEMMA ScoredSpec ==
  ASSUME NEW s \in ScoreRows, NEW w \in Work, NEW j \in Jobs
  PROVE  /\ Scored(s, w, j) \in ScoreRows
         /\ \E k \in 1 .. Len(Scored(s, w, j)) : Scored(s, w, j)[k].policy = w.policy
         /\ \/ Len(Scored(s, w, j)) = MaxPolicies
            \/ /\ Len(s) # MaxPolicies
               /\ \A i \in 1 .. Len(s) :
                     \E k \in 1 .. Len(Scored(s, w, j)) :
                        Scored(s, w, j)[k].policy = s[i].policy
<1> DEFINE e == [policy |-> w.policy, by |-> j]
           K == {k \in DOMAIN s : s[k].policy = w.policy}
           W == Without(s, K)
           all == <<e>> \o W
           m == Len(W)
<1>1. /\ s \in Seq(Scores) /\ Len(s) \in Nat /\ DOMAIN s = 1 .. Len(s) /\ Len(s) <= MaxPolicies
      /\ \A i, k \in 1 .. Len(s) : s[i].policy = s[k].policy => i = k
      /\ MaxPolicies \in Nat \ {0}
  BY StoresAssumption DEF ScoreRows
<1>2. K \in SUBSET (1 .. Len(s)) /\ \A i, k \in K : i = k
  BY <1>1
<1>3. e \in Scores /\ e.policy = w.policy
  BY DEF Scores, Work
<1> HIDE DEF e, K
<1>4. W \in Seq(Scores) /\ Rest(s, K, W)
  BY <1>1, <1>2, WithoutOne
<1> HIDE DEF W
<1>5. m \in Nat /\ m <= Len(s) /\ Len(s) <= m + 1
  <2>1. CASE K = {}
    BY <2>1, <1>1, <1>4 DEF Rest
  <2>2. CASE K # {}
    <3>1. PICK k \in K : k \in 1 .. Len(s)
      BY <2>2, <1>2
    <3>2. Len(s) >= 1
      BY <3>1, <1>1
    <3>3. m = Len(s) - 1
      BY <2>2, <1>4 DEF Rest
    <3> QED BY <3>2, <3>3, <1>1
  <2> QED BY <2>1, <2>2
<1>6. PICK place \in [1 .. m -> (1 .. Len(s)) \ K] :
            /\ \A k \in 1 .. m : W[k] = s[place[k]]
            /\ \A i, k \in 1 .. m : place[i] = place[k] => i = k
  BY <1>4 DEF Rest
<1>7. \A k \in 1 .. m : W[k].policy # w.policy
  BY <1>1, <1>6 DEF K
<1>8. \A i, k \in 1 .. m : W[i].policy = W[k].policy => i = k
  <2> SUFFICES ASSUME NEW i \in 1 .. m, NEW k \in 1 .. m, W[i].policy = W[k].policy
               PROVE  i = k
    OBVIOUS
  <2>1. /\ place[i] \in 1 .. Len(s) /\ place[k] \in 1 .. Len(s)
        /\ s[place[i]].policy = s[place[k]].policy
    BY <1>6
  <2>2. place[i] = place[k]
    BY <1>1, <2>1
  <2> QED BY <1>6, <2>2
<1>9. \A i \in (1 .. Len(s)) \ K : \E k \in 1 .. m : W[k] = s[i]
  BY <1>4 DEF Rest
<1>10. /\ all \in Seq(Scores) /\ Len(all) = m + 1
       /\ all[1] = e
       /\ \A i \in 1 .. m : all[i + 1] = W[i]
  <2>1. <<e>> \in Seq(Scores) /\ Len(<<e>>) = 1 /\ <<e>>[1] = e
    BY <1>3
  <2>2. /\ all \in Seq(Scores) /\ Len(all) = Len(<<e>>) + Len(W)
        /\ \A i \in 1 .. Len(<<e>>) + Len(W) :
              all[i] = IF i <= Len(<<e>>) THEN <<e>>[i] ELSE W[i - Len(<<e>>)]
    BY <2>1, <1>4, ConcatProperties
  <2>3. all[1] = e
    BY <2>1, <2>2, <1>5
  <2>4. ASSUME NEW i \in 1 .. m
        PROVE  all[i + 1] = W[i]
    <3>1. i + 1 \in 1 .. 1 + m /\ ~(i + 1 <= 1) /\ (i + 1) - 1 = i
      BY <1>5
    <3> QED BY <3>1, <2>1, <2>2
  <2> QED BY <2>1, <2>2, <2>3, <2>4, <1>5
<1> HIDE DEF m, all
<1>11. ASSUME NEW i \in 1 .. m + 1
       PROVE  \/ i = 1 /\ all[i].policy = w.policy
              \/ /\ i - 1 \in 1 .. m /\ all[i].policy = W[i - 1].policy
                 /\ all[i].policy # w.policy
  <2>1. CASE i = 1
    BY <2>1, <1>3, <1>10
  <2>2. CASE i # 1
    <3>1. i - 1 \in 1 .. m /\ (i - 1) + 1 = i
      BY <2>2, <1>5
    <3>2. all[(i - 1) + 1] = W[i - 1]
      BY <3>1, <1>10
    <3> QED BY <3>1, <3>2, <1>7
  <2> QED BY <2>1, <2>2
<1>12. ASSUME NEW i \in 1 .. m + 1, NEW k \in 1 .. m + 1, all[i].policy = all[k].policy
       PROVE  i = k
  <2>1. CASE i = 1
    BY <2>1, <1>11, <1>12
  <2>2. CASE i # 1
    <3>1. /\ i - 1 \in 1 .. m /\ all[i].policy = W[i - 1].policy
          /\ k - 1 \in 1 .. m /\ all[k].policy = W[k - 1].policy
      BY <2>2, <1>11, <1>12
    <3>2. i - 1 = k - 1
      BY <3>1, <1>8, <1>12
    <3> QED BY <3>2
  <2> QED BY <2>1, <2>2
<1>13. Scored(s, w, j) = IF Len(all) > MaxPolicies THEN SubSeq(all, 1, MaxPolicies) ELSE all
  BY DEF Scored, all, W, K, e
<1>14. CASE Len(all) > MaxPolicies
  <2> DEFINE T == SubSeq(all, 1, MaxPolicies)
  <2>1. m = MaxPolicies
    BY <1>1, <1>5, <1>10, <1>14
  <2>2. /\ T \in Seq(Scores) /\ Len(T) = MaxPolicies
        /\ \A i \in 1 .. MaxPolicies : T[i] = all[i]
    <3>1. \A i \in 1 .. MaxPolicies : all[i] \in Scores
      BY <2>1, <1>5, <1>10
    <3>2. /\ T \in Seq(Scores)
          /\ Len(T) = IF 1 <= MaxPolicies THEN MaxPolicies - 1 + 1 ELSE 0
          /\ \A i \in 1 .. MaxPolicies - 1 + 1 : T[i] = all[1 + i - 1]
      BY <3>1, <1>1, SubSeqProperties
    <3> QED BY <3>2, <1>1
  <2> HIDE DEF T
  <2>3. 1 \in 1 .. MaxPolicies /\ T[1].policy = w.policy
    BY <2>2, <1>1, <1>3, <1>10
  <2>4. ASSUME NEW i \in 1 .. MaxPolicies, NEW k \in 1 .. MaxPolicies,
               T[i].policy = T[k].policy
        PROVE  i = k
    <3>1. i \in 1 .. m + 1 /\ k \in 1 .. m + 1
      BY <2>1, <1>5
    <3>2. all[i].policy = all[k].policy
      BY <2>2, <2>4
    <3> QED BY <3>1, <3>2, <1>12
  <2>5. Scored(s, w, j) = T
    BY <1>13, <1>14 DEF T
  <2>6. T \in ScoreRows
    BY <2>2, <2>4, <1>1 DEF ScoreRows
  <2> QED BY <2>2, <2>3, <2>5, <2>6
<1>15. CASE ~(Len(all) > MaxPolicies)
  <2>1. Scored(s, w, j) = all /\ m + 1 <= MaxPolicies /\ 1 \in 1 .. m + 1
    BY <1>1, <1>5, <1>10, <1>13, <1>15
  <2>2. all \in ScoreRows
    BY <2>1, <1>10, <1>12 DEF ScoreRows
  <2>3. all[1].policy = w.policy
    BY <1>3, <1>10
  <2>4. ASSUME NEW i \in 1 .. Len(s)
        PROVE  \E k \in 1 .. m + 1 : all[k].policy = s[i].policy
    <3>1. CASE i \in K
      BY <3>1, <2>1, <2>3 DEF K
    <3>2. CASE i \notin K
      <4>1. PICK k \in 1 .. m : W[k] = s[i]
        BY <3>2, <1>9
      <4>2. k + 1 \in 1 .. m + 1 /\ all[k + 1] = W[k]
        BY <1>5, <1>10
      <4> QED BY <4>1, <4>2
    <3> QED BY <3>1, <3>2
  <2>5. Len(s) = MaxPolicies => m + 1 = MaxPolicies
    BY <2>1, <1>1, <1>5
  <2> QED BY <2>1, <2>2, <2>3, <2>4, <2>5, <1>10
<1> QED BY <1>14, <1>15

\* Fewer rows are rows.
LEMMA FewerRows ==
  ASSUME NEW s \in MemoryRows, NEW t \in SUBSET s
  PROVE  t \in MemoryRows
<1>1. IsFiniteSet(t)
  BY FS_Subset DEF MemoryRows
<1> QED BY <1>1 DEF MemoryRows

\* A lesson that is remembered is counted in its row, and nothing else is lost or made up.
LEMMA RememberSpec ==
  ASSUME NEW s \in MemoryRows, NEW l \in Lessons, NEW j \in Jobs
  PROVE  /\ Remember(s, l, j) \in MemoryRows
         /\ \E r \in Remember(s, l, j) : r.lesson = l /\ j \in r.by
         /\ \A q \in s : \E r \in Remember(s, l, j) : r.lesson = q.lesson /\ q.by \subseteq r.by
         /\ \A r \in Remember(s, l, j) : \A b \in r.by :
               (b = j /\ r.lesson = l) \/ \E q \in s : q.lesson = r.lesson /\ b \in q.by
<1> DEFINE known == IF l = Success THEN {} ELSE Known(s, l)
<1> DEFINE counted == UNION {r.by : r \in known}
<1> DEFINE row == [lesson |-> l, by |-> {j} \cup counted]
<1>1. /\ known \subseteq s
      /\ \A r \in known : r.lesson = l /\ l # Success
      /\ l # Success => \A r \in s : r.lesson = l => r \in known
  BY DEF Known
<1>2. /\ \A b : b \in counted <=> \E r \in known : b \in r.by
      /\ l = Success => counted = {}
  BY <1>1
<1>3. Remember(s, l, j) = (s \ known) \cup {row}
  BY DEF Remember
<1> HIDE DEF known, counted
<1>4. row \in MemoryRow /\ row.lesson = l /\ row.by = {j} \cup counted
  <2>1. counted \subseteq Jobs
    BY <1>1, <1>2 DEF MemoryRows, MemoryRow
  <2> QED BY <2>1 DEF MemoryRow
<1> HIDE DEF row
<1>5. IsFiniteSet((s \ known) \cup {row})
  <2>1. IsFiniteSet(s \ known)
    BY FS_Subset DEF MemoryRows
  <2> QED BY <2>1, FS_AddElement
<1>6. Remember(s, l, j) \in MemoryRows
  <2>1. \A r \in s \ known : r.lesson = l => l = Success
    BY <1>1
  <2>2. row.by # {} /\ (row.lesson = Success => row.by = {j})
    BY <1>2, <1>4
  <2>3. s \in SUBSET MemoryRow
    BY DEF MemoryRows
  <2>4. \A r \in s : r.by # {} /\ (r.lesson = Success => \E b \in Jobs : r.by = {b})
    BY DEF MemoryRows
  <2>5. \A q, r \in s : q.lesson = r.lesson /\ q.lesson # Success => q = r
    BY DEF MemoryRows
  <2> DEFINE new == (s \ known) \cup {row}
  <2>6. new \in SUBSET MemoryRow
    BY <2>3, <1>4
  <2>7. \A r \in new : r.by # {} /\ (r.lesson = Success => \E b \in Jobs : r.by = {b})
    BY <2>2, <2>4
  <2>8. \A q, r \in new : q.lesson = r.lesson /\ q.lesson # Success => q = r
    BY <2>1, <2>5, <1>4
  <2> QED BY <2>6, <2>7, <2>8, <1>3, <1>5 DEF MemoryRows
<1>7. \A q \in s : \E r \in Remember(s, l, j) : r.lesson = q.lesson /\ q.by \subseteq r.by
  <2> SUFFICES ASSUME NEW q \in s
               PROVE  \E r \in Remember(s, l, j) : r.lesson = q.lesson /\ q.by \subseteq r.by
    OBVIOUS
  <2>1. CASE q \in known
    BY <2>1, <1>1, <1>2, <1>3, <1>4
  <2>2. CASE q \notin known
    BY <2>2, <1>3
  <2> QED BY <2>1, <2>2
<1>8. \A r \in Remember(s, l, j) : \A b \in r.by :
        (b = j /\ r.lesson = l) \/ \E q \in s : q.lesson = r.lesson /\ b \in q.by
  BY <1>1, <1>2, <1>3, <1>4
<1> QED BY <1>3, <1>4, <1>6, <1>7, <1>8

\* An update of a locked file makes rows of rows.
LEMMA UpdatedRows ==
  ASSUME NEW f \in Locked, NEW rows \in Rows(f), NEW w \in Work, NEW j \in Jobs,
         NEW new \in Updated(w, f, rows, j)
  PROVE  new \in Rows(f)
<1>1. CASE f = "traces"
  BY <1>1, AddTraceSpec DEF Rows, Updated
<1>2. CASE f = "memory"
  <2>1. rows \in MemoryRows
    BY <1>2 DEF Rows
  <2>2. ASSUME NEW gone, new = Forget(rows, gone)
        PROVE  new \in MemoryRows
    BY <2>1, <2>2, FewerRows DEF Forget
  <2>3. ASSUME new = Remember(rows, w.lesson, j)
        PROVE  new \in MemoryRows
    <3>1. w.lesson \in Lessons
      BY DEF Work
    <3> QED BY <3>1, <2>1, <2>3, RememberSpec
  <2>4. new \in MemoryRows
    BY <1>2, <2>2, <2>3 DEF Updated
  <2> QED BY <1>2, <2>4 DEF Rows
<1> QED BY <1>1, <1>2 DEF Locked

-----------------------------------------------------------------------------
(* What a step does to the job that takes it, and to the others.           *)

Stays(i) == pc'[i] = pc[i] /\ step'[i] = step[i] /\ copy'[i] = copy[i]
Passes(i) == step'[i] = step[i] + 1 /\ pc'[i] \in {"ready", "done"} /\ copy'[i] = NoCopy

Moves(i) ==
  \/ Stays(i)
  \/ Begin(i) /\ pc[i] = "ready" /\ pc'[i] = "waiting" /\ step'[i] = step[i]
  \/ Read(i) /\ pc[i] = "waiting" /\ pc'[i] = "read" /\ step'[i] = step[i]
  \/ Read(i) /\ pc[i] = "waiting" /\ work[i].kind = "forget" /\ Passes(i)
  \/ Write(i) /\ pc[i] = "read" /\ pc'[i] = "written" /\ step'[i] = step[i]
  \/ Return(i) /\ pc[i] = "written" /\ Passes(i)
  \/ Truncate(i) /\ pc[i] = "read" /\ pc'[i] = "open" /\ step'[i] = step[i] /\ copy'[i] = copy[i]
  \/ Fill(i) /\ pc[i] = "open" /\ Passes(i)
  \/ Fail(i) /\ pc[i] \in {"read", "open", "written"} /\ pc'[i] = "failed" /\ step'[i] = step[i]
  \/ Fail(i) /\ pc[i] \in {"read", "open", "written"} /\ Swallowed(i) /\ Passes(i)
  \/ ~Over(i) /\ pc'[i] = "dead" /\ step'[i] = step[i]

LEMMA GoMoves ==
  ASSUME TypeOK, DOMAIN copy = Jobs, NEW j \in Jobs, NEW how, Go(j, how)
  PROVE  /\ \A i \in Jobs \ {j} : Stays(i)
         /\ how # "failed" => Passes(j)
         /\ how = "failed" => pc'[j] = "failed" /\ step'[j] = step[j]
BY DEF Go, TypeOK, Stays, Passes

LEMMA StepMoves ==
  ASSUME IInv, [Next]_vars
  PROVE  work' = work /\ lossy \subseteq lossy' /\ \A i \in Jobs : Moves(i)
<1> USE DEF Moves
<1>1. TypeOK /\ DOMAIN copy = Jobs
  BY DEF IInv, ShapeInv
<1>2. ASSUME NEW j \in Jobs, Begin(j)
      PROVE  work' = work /\ lossy \subseteq lossy' /\ \A i \in Jobs : Moves(i)
  BY <1>1, <1>2 DEF Begin, TypeOK, Stays
<1>3. ASSUME NEW j \in Jobs, Read(j)
      PROVE  work' = work /\ lossy \subseteq lossy' /\ \A i \in Jobs : Moves(i)
  <2>1. pc[j] = "waiting" /\ UNCHANGED <<work, lossy>>
    BY <1>3 DEF Read
  <2>2. \/ work[j].kind = "forget" /\ Go(j, "nothing to do")
        \/ /\ pc' = [pc EXCEPT ![j] = "read"] /\ step' = step
           /\ \E rows : copy' = [copy EXCEPT ![j] = rows]
    BY <1>3 DEF Read
  <2>3. CASE work[j].kind = "forget" /\ Go(j, "nothing to do")
    BY <2>1, <2>3, <1>1, <1>3, GoMoves
  <2>4. CASE /\ pc' = [pc EXCEPT ![j] = "read"] /\ step' = step
             /\ \E rows : copy' = [copy EXCEPT ![j] = rows]
    BY <2>1, <2>4, <1>1, <1>3 DEF TypeOK, Stays
  <2> QED BY <2>2, <2>3, <2>4
<1>4. ASSUME NEW j \in Jobs, Write(j)
      PROVE  work' = work /\ lossy \subseteq lossy' /\ \A i \in Jobs : Moves(i)
  <2>1. /\ pc[j] = "read" /\ pc' = [pc EXCEPT ![j] = "written"]
        /\ lossy \subseteq lossy' /\ UNCHANGED <<work, step, copy>>
    BY <1>4 DEF Write
  <2> QED BY <2>1, <1>1, <1>4 DEF TypeOK, Stays
<1>5. ASSUME NEW j \in Jobs, Return(j)
      PROVE  work' = work /\ lossy \subseteq lossy' /\ \A i \in Jobs : Moves(i)
  <2>1. pc[j] = "written" /\ Go(j, "saved") /\ UNCHANGED <<work, lossy>>
    BY <1>5 DEF Return
  <2> QED BY <2>1, <1>1, <1>5, GoMoves
<1>6. ASSUME NEW j \in Jobs, Truncate(j)
      PROVE  work' = work /\ lossy \subseteq lossy' /\ \A i \in Jobs : Moves(i)
  BY <1>1, <1>6 DEF Truncate, TypeOK, Stays
<1>7. ASSUME NEW j \in Jobs, Fill(j)
      PROVE  work' = work /\ lossy \subseteq lossy' /\ \A i \in Jobs : Moves(i)
  <2>1. pc[j] = "open" /\ Go(j, "saved") /\ work' = work /\ lossy \subseteq lossy'
    BY <1>7 DEF Fill
  <2> QED BY <2>1, <1>1, <1>7, GoMoves
<1>8. ASSUME NEW j \in Jobs, Fail(j)
      PROVE  work' = work /\ lossy \subseteq lossy' /\ \A i \in Jobs : Moves(i)
  <2>1. /\ pc[j] \in {"read", "open", "written"}
        /\ Go(j, IF Swallowed(j) THEN "swallowed" ELSE "failed")
        /\ work' = work /\ lossy \subseteq lossy'
    BY <1>8 DEF Fail
  <2>2. CASE Swallowed(j)
    BY <2>1, <2>2, <1>1, <1>8, GoMoves
  <2>3. CASE ~Swallowed(j)
    BY <2>1, <2>3, <1>1, <1>8, GoMoves
  <2> QED BY <2>2, <2>3
<1>9. ASSUME NEW p \in Processes, Crash(p)
      PROVE  work' = work /\ lossy \subseteq lossy' /\ \A i \in Jobs : Moves(i)
  <2> DEFINE dying == {j \in Jobs : Home(j) = p /\ ~Over(j)}
  <2>1. /\ pc' = [j \in Jobs |-> IF j \in dying THEN "dead" ELSE pc[j]]
        /\ copy' = [j \in Jobs |-> IF j \in dying THEN NoCopy ELSE copy[j]]
        /\ UNCHANGED <<work, step>> /\ lossy \subseteq lossy'
    BY <1>9 DEF Crash
  <2> QED BY <2>1 DEF Stays
<1>10. CASE UNCHANGED vars
  BY <1>10 DEF vars, Stays
<1> QED
  BY <1>2, <1>3, <1>4, <1>5, <1>6, <1>7, <1>8, <1>9, <1>10 DEF Next, Proceed

\* Forgetting once is forgetting for good.
LEMMA ForgettingStays ==
  ASSUME IInv, [Next]_vars, Forgetting
  PROVE  Forgetting'
<1>1. PICK j \in Jobs : /\ work[j].kind \in {"forget", "compact"}
                        /\ pc[j] = "written" \/ step[j] > 1 \/ pc[j] \in {"failed", "dead"}
  BY DEF Forgetting
<1>2. Moves(j) /\ work' = work /\ step[j] \in Nat \ {0}
  BY StepMoves DEF IInv, TypeOK
<1>3. pc'[j] = "written" \/ step'[j] > 1 \/ pc'[j] \in {"failed", "dead"}
  BY <1>1, <1>2 DEF Moves, Stays, Passes, Over
<1> QED
  BY <1>1, <1>2, <1>3 DEF Forgetting

-----------------------------------------------------------------------------
(* What has been stored: acknowledged, or renamed and about to return.      *)

Stored(j, f) == Acknowledged(j, f) \/ (AtFile(j, f) /\ pc[j] = "written")

LEMMA SavesAt ==
  ASSUME IInv, NEW j \in Jobs
  PROVE  /\ Saves(work[j]) \in Seq(Files) /\ Len(Saves(work[j])) \in Nat \ {0}
         /\ step[j] \in Nat \ {0}
BY SavesType DEF IInv, TypeOK

\* A save is acknowledged when its job goes on from it, unless its failure was swallowed.
LEMMA AckStep ==
  ASSUME IInv, [Next]_vars, NEW i \in Jobs, NEW f, Acknowledged(i, f)', ~Acknowledged(i, f)
  PROVE  /\ AtFile(i, f) /\ Passes(i)
         /\ \/ Read(i) /\ pc[i] = "waiting" /\ ~Learner(i)
            \/ Return(i) /\ pc[i] = "written"
            \/ Fill(i) /\ pc[i] = "open"
<1> DEFINE n == Len(Saves(work[i]))
<1>1. work' = work /\ Moves(i) /\ n \in Nat \ {0} /\ step[i] \in Nat \ {0}
  BY StepMoves, SavesAt
<1>2. PICK k \in 1 .. Reported(i) : k < step'[i] /\ Saves(work[i])[k] = f
  BY <1>1 DEF Acknowledged, Reported
<1>3. ~(k < step[i])
  BY <1>2 DEF Acknowledged
<1>4. Reported(i) \in Int /\ Reported(i) <= n
  BY <1>1 DEF Reported
<1>5. step'[i] = step[i] \/ Passes(i)
  BY <1>1 DEF Moves, Stays
<1>6. Passes(i) /\ k = step[i]
  BY <1>1, <1>2, <1>3, <1>4, <1>5 DEF Passes
<1>7. AtFile(i, f)
  BY <1>2, <1>4, <1>6, <1>1 DEF AtFile, FileOf
<1>8. ~Swallowed(i)
  BY <1>1, <1>2, <1>6 DEF Swallowed, Reported
<1>9. pc'[i] \in {"ready", "done"} /\ step'[i] # step[i]
  BY <1>6, <1>1 DEF Passes
<1> QED
  BY <1>1, <1>6, <1>7, <1>8, <1>9 DEF Moves, Stays, Learner

\* Only a write puts into a locked file what was not stored.
LEMMA StoredStep ==
  ASSUME IInv, [Next]_vars, NEW i \in Jobs, Learner(i), NEW f \in Locked,
         Stored(i, f)', ~Stored(i, f)
  PROVE  Write(i) /\ AtFile(i, f)
<1>1. work' = work /\ Moves(i) /\ step[i] \in Nat
  BY StepMoves, SavesAt
<1>2. ~Acknowledged(i, f)'
  <2> SUFFICES ASSUME Acknowledged(i, f)'
               PROVE  FALSE
    OBVIOUS
  <2>1. AtFile(i, f) /\ (pc[i] = "written" \/ pc[i] = "open")
    BY AckStep DEF Stored
  <2>2. AtFile(i, "policies") \/ pc[i] = "written"
    BY <2>1 DEF IInv, StepInv
  <2> QED BY <2>1, <2>2 DEF Stored, AtFile, Locked
<1>3. AtFile(i, f)' /\ pc'[i] = "written"
  BY <1>2 DEF Stored
<1>4. step'[i] = step[i] /\ (Write(i) \/ pc[i] = "written")
  BY <1>1, <1>3 DEF Moves, Stays, Passes
<1>5. AtFile(i, f)
  BY <1>1, <1>3, <1>4 DEF AtFile, FileOf
<1> QED BY <1>4, <1>5 DEF Stored

\* A locked file changes only by a write, and two jobs do not write in one step.
LEMMA LockedStep ==
  ASSUME IInv, [Next]_vars, NEW f \in Locked
  PROVE  \/ contents'[f] = contents[f] /\ \A i \in Jobs : ~(Write(i) /\ AtFile(i, f))
         \/ \E j \in Jobs : Write(j) /\ AtFile(j, f)
<1> SUFFICES ASSUME \A i \in Jobs : ~(Write(i) /\ AtFile(i, f))
             PROVE  contents'[f] = contents[f]
  OBVIOUS
<1>1. ASSUME NEW j \in Jobs, Truncate(j) \/ Fill(j)
      PROVE  contents'[f] = contents[f]
  BY <1>1 DEF Truncate, Fill, IInv, ShapeInv, Locked, Files
<1>2. ASSUME NEW j \in Jobs, Begin(j) \/ Read(j) \/ Return(j) \/ Fail(j)
      PROVE  contents'[f] = contents[f]
  BY <1>2 DEF Begin, Read, Return, Fail
<1>3. ASSUME NEW p \in Processes, Crash(p)
      PROVE  contents'[f] = contents[f]
  BY <1>3 DEF Crash
<1>4. ASSUME NEW j \in Jobs, Write(j)
      PROVE  contents'[f] = contents[f]
  <2>1. AtFile(j, FileOf(j)) /\ FileOf(j) # f
    BY <1>4 DEF Write, IInv, StepInv, Active, AtFile
  <2> QED BY <2>1, <1>4 DEF Write, IInv, ShapeInv
<1> QED
  BY <1>1, <1>2, <1>3, <1>4 DEF Next, Proceed, vars

LEMMA WriteOne ==
  ASSUME IInv, NEW j \in Jobs, Write(j), NEW i \in Jobs, Write(i)
  PROVE  i = j
BY DEF Write, IInv, TypeOK

-----------------------------------------------------------------------------
(* The rows of the files and of the copies.                                *)

Reading(j, f) == AtFile(j, f) /\ pc[j] \in {"read", "open"}

RowsInv ==
  /\ \A f \in Files : contents[f] \in Rows(f)
  /\ \A j \in Jobs, f \in Files : Reading(j, f) => copy[j] \in Rows(f)

LEMMA EmptyRows ==
  ASSUME NEW f \in Files
  PROVE  Empty[f] \in Rows(f)
<1>1. <<>> \in TraceRows /\ <<>> \in ScoreRows
  BY StoresAssumption DEF TraceRows, ScoreRows
<1>2. {} \in MemoryRows
  BY FS_EmptySet DEF MemoryRows
<1> QED
  BY <1>1, <1>2 DEF Empty, Rows, Files, Locked

LEMMA ContentsRows ==
  ASSUME IInv, RowsInv, [Next]_vars, NEW f \in Files
  PROVE  contents'[f] \in Rows(f)
<1>1. ASSUME NEW j \in Jobs, Write(j)
      PROVE  contents'[f] \in Rows(f)
  <2> DEFINE g == FileOf(j)
  <2>1. /\ g \in Locked /\ g \in Files /\ Reading(j, g) /\ work[j] \in Work
    BY <1>1 DEF Write, IInv, TypeOK, StepInv, Active, Reading, AtFile, Files
  <2>2. PICK rows \in Updated(work[j], g, copy[j], j) : contents' = [contents EXCEPT ![g] = rows]
    BY <1>1 DEF Write
  <2>3. rows \in Rows(g)
    BY <2>1, <2>2, UpdatedRows DEF RowsInv
  <2>4. contents'[f] = IF f = g THEN rows ELSE contents[f]
    BY <2>2 DEF IInv, ShapeInv
  <2> QED BY <2>3, <2>4 DEF RowsInv
<1>2. ASSUME NEW j \in Jobs, Truncate(j)
      PROVE  contents'[f] \in Rows(f)
  <2>1. contents' = [contents EXCEPT !["policies"] = <<>>]
    BY <1>2 DEF Truncate
  <2>2. Empty["policies"] = <<>> /\ "policies" \in Files
    BY DEF Empty, Files
  <2>3. contents'[f] = IF f = "policies" THEN <<>> ELSE contents[f]
    BY <2>1 DEF IInv, ShapeInv
  <2> QED BY <2>2, <2>3, EmptyRows DEF RowsInv
<1>3. ASSUME NEW j \in Jobs, Fill(j)
      PROVE  contents'[f] \in Rows(f)
  <2>1. pc[j] = "open" /\ AtFile(j, "policies") /\ "policies" \in Files /\ work[j] \in Work
    BY <1>3 DEF Fill, IInv, StepInv, TypeOK, Files
  <2>2. copy[j] \in ScoreRows
    BY <2>1 DEF RowsInv, Reading, Rows
  <2>3. Scored(copy[j], work[j], j) \in Rows("policies")
    BY <2>1, <2>2, ScoredSpec DEF Rows
  <2>4. <<>> \in Rows("policies")
    BY <2>1, EmptyRows DEF Empty, Files
  <2>5. contents'[f] = IF f = "policies"
                       THEN IF torn' THEN <<>> ELSE Scored(copy[j], work[j], j)
                       ELSE contents[f]
    BY <1>3 DEF Fill, IInv, ShapeInv
  <2> QED BY <2>3, <2>4, <2>5 DEF RowsInv
<1>4. CASE contents' = contents
  BY <1>4 DEF RowsInv
<1> QED
  <2>1. ASSUME NEW j \in Jobs, Begin(j) \/ Read(j) \/ Return(j) \/ Fail(j)
        PROVE  contents' = contents
    BY <2>1 DEF Begin, Read, Return, Fail
  <2>2. ASSUME NEW p \in Processes, Crash(p)
        PROVE  contents' = contents
    BY <2>2 DEF Crash
  <2> QED
    BY <1>1, <1>2, <1>3, <1>4, <2>1, <2>2 DEF Next, Proceed, vars

LEMMA ReadingStep ==
  ASSUME IInv, [Next]_vars, NEW j \in Jobs, NEW f \in Files, Reading(j, f)'
  PROVE  \/ Reading(j, f) /\ Stays(j)
         \/ Reading(j, f) /\ Truncate(j) /\ copy'[j] = copy[j] /\ f = "policies"
         \/ Read(j) /\ AtFile(j, f) /\ pc[j] = "waiting" /\ pc'[j] = "read"
<1>1. work' = work /\ Moves(j) /\ pc'[j] \in {"read", "open"}
  BY StepMoves DEF Reading
<1>2. step'[j] = step[j] => AtFile(j, f)
  BY <1>1 DEF Reading, AtFile, FileOf
<1> QED
  BY <1>1, <1>2 DEF Moves, Stays, Passes, Reading, Truncate, AtFile, Write

\* What is read of a file are rows of it.
LEMMA SeenRows ==
  ASSUME RowsInv, NEW f \in Files, NEW rows \in Seen(f)
  PROVE  /\ rows \in Rows(f)
         /\ f = "memory" => rows \subseteq contents["memory"]
         /\ f # "memory" => rows = contents[f]
<1>1. CASE f # "memory"
  BY <1>1 DEF Seen, RowsInv
<1>2. CASE f = "memory"
  <2>1. contents["memory"] \in MemoryRows /\ rows \subseteq contents["memory"]
    BY <1>2 DEF Seen, Newest, RowsInv, Rows
  <2> QED BY <1>2, <2>1, FewerRows DEF Rows
<1> QED BY <1>1, <1>2

LEMMA ReadCopy ==
  ASSUME IInv, NEW j \in Jobs, NEW f \in Files, Read(j), AtFile(j, f), pc'[j] = "read"
  PROVE  /\ copy'[j] \in Seen(f) \cup {Empty[f]}
         /\ j \notin excused' => copy'[j] \in Seen(f) /\ ~(f = "policies" /\ Rewriting)
<1>1. f = FileOf(j)
  BY DEF AtFile
<1>2. PICK rows \in Seen(f) \cup {Empty[f]} :
        \/ Go(j, "nothing to do")
        \/ /\ copy' = [copy EXCEPT ![j] = rows]
           /\ excused' = IF rows \notin Seen(f) \/ (f = "policies" /\ Rewriting)
                         THEN excused \cup {j} ELSE excused
  BY <1>1 DEF Read
<1>3. ~Go(j, "nothing to do")
  BY DEF Go, IInv, TypeOK
<1> QED BY <1>2, <1>3 DEF IInv, ShapeInv

LEMMA RowsStep == IInv /\ RowsInv /\ [Next]_vars => RowsInv'
<1> SUFFICES ASSUME IInv, RowsInv, [Next]_vars, NEW j \in Jobs, NEW f \in Files, Reading(j, f)'
             PROVE  copy'[j] \in Rows(f)
  BY ContentsRows DEF RowsInv
<1>1. CASE Reading(j, f) /\ copy'[j] = copy[j]
  BY <1>1 DEF RowsInv
<1>2. CASE Read(j) /\ AtFile(j, f) /\ pc'[j] = "read"
  <2>1. copy'[j] \in Seen(f) \cup {Empty[f]}
    BY <1>2, ReadCopy
  <2> QED BY <2>1, EmptyRows, SeenRows
<1> QED
  BY <1>1, <1>2, ReadingStep DEF Stays

LEMMA RowsInit == Init => RowsInv
BY EmptyRows DEF Init, RowsInv, Reading

-----------------------------------------------------------------------------
(* No trace is lost.                                                       *)

TraceInv ==
  "traces" \notin lossy =>
    \A i \in Jobs : Stored(i, "traces") =>
      \/ Len(contents["traces"]) = MaxTraces
      \/ \E k \in 1 .. Len(contents["traces"]) : contents["traces"][k] = i

\* Who forgets has no trace to save.
LEMMA TracesAreLearners ==
  ASSUME NEW w, w.kind \in {"forget", "compact"}, NEW k \in 1 .. Len(Saves(w))
  PROVE  Saves(w)[k] = "memory"
BY DEF Saves

LEMMA TraceStep == IInv /\ RowsInv /\ TraceInv /\ [Next]_vars => TraceInv'
<1> SUFFICES ASSUME IInv, RowsInv, TraceInv, [Next]_vars, "traces" \notin lossy',
                    NEW i \in Jobs, Stored(i, "traces")'
             PROVE  \/ Len(contents'["traces"]) = MaxTraces
                    \/ \E k \in 1 .. Len(contents'["traces"]) : contents'["traces"][k] = i
  BY DEF TraceInv
<1> DEFINE s == contents["traces"]
<1>1. "traces" \notin lossy /\ "traces" \in Locked /\ "traces" \in Files
  BY StepMoves DEF Locked, Files
<1>2. s \in TraceRows
  BY <1>1 DEF RowsInv, Rows
<1>3. Learner(i)
  <2>1. work' = work /\ IInv'
    BY NextIInv, StepMoves
  <2>2. \E k \in 1 .. Len(Saves(work[i])) : Saves(work[i])[k] = "traces"
    <3>1. CASE Acknowledged(i, "traces")'
      <4>1. PICK k \in 1 .. Reported(i)' : Saves(work[i])[k] = "traces"
        BY <3>1, <2>1 DEF Acknowledged
      <4>2. Reported(i)' \in Int /\ Reported(i)' <= Len(Saves(work[i])) /\ Len(Saves(work[i])) \in Nat
        BY <2>1, SavesAt DEF Reported
      <4> QED BY <4>1, <4>2
    <3>2. CASE AtFile(i, "traces")'
      <4>1. step'[i] \in Nat \ {0} /\ Len(Saves(work[i])) \in Nat
        BY <2>1, SavesAt DEF IInv, TypeOK
      <4> QED BY <3>2, <4>1, <2>1 DEF AtFile, FileOf
    <3> QED BY <3>1, <3>2 DEF Stored
  <2> QED BY <2>2, TracesAreLearners DEF Learner
<1>4. CASE \E j \in Jobs : Write(j) /\ AtFile(j, "traces")
  <2>1. PICK j \in Jobs : Write(j) /\ AtFile(j, "traces")
    BY <1>4
  <2>2. j \notin excused /\ pc[j] = "read" /\ FileOf(j) = "traces"
    BY <1>1, <2>1 DEF Write, AtFile
  <2>3. copy[j] = s
    <3>1. copy[j] \in Seen("traces")
      BY <1>1, <2>1, <2>2 DEF IInv, CopyInv
    <3> QED BY <3>1 DEF Seen
  <2>4. contents'["traces"] = AddTrace(s, j)
    BY <2>1, <2>2, <2>3, <1>1 DEF Write, Updated, IInv, ShapeInv
  <2>5. Stored(i, "traces") \/ i = j
    BY <1>1, <1>3, <2>1, StoredStep, WriteOne
  <2> DEFINE new == AddTrace(s, j)
  <2>6. /\ \E k \in 1 .. Len(new) : new[k] = j
        /\ \/ Len(new) = MaxTraces
           \/ /\ Len(s) # MaxTraces
              /\ \A h \in 1 .. Len(s) : \E k \in 1 .. Len(new) : new[k] = s[h]
    BY <1>2, AddTraceSpec, ZenonT(60)
  <2> HIDE DEF new
  <2>7. Stored(i, "traces") => Len(s) = MaxTraces \/ \E h \in 1 .. Len(s) : s[h] = i
    BY <1>1 DEF TraceInv
  <2>8. Len(new) = MaxTraces \/ \E k \in 1 .. Len(new) : new[k] = i
    BY <2>5, <2>6, <2>7
  <2> QED BY <2>4, <2>8 DEF new
<1>5. CASE /\ contents'["traces"] = s
           /\ \A j \in Jobs : ~(Write(j) /\ AtFile(j, "traces"))
  <2>1. Stored(i, "traces")
    BY <1>1, <1>3, <1>5, StoredStep
  <2> QED BY <1>1, <1>5, <2>1 DEF TraceInv
<1> QED BY <1>1, <1>4, <1>5, LockedStep

LEMMA TraceInit == Init => TraceInv
<1> SUFFICES ASSUME Init, NEW i \in Jobs, Stored(i, "traces")
             PROVE  FALSE
  BY DEF TraceInv
<1> QED
  BY DEF Init, Stored, Acknowledged

-----------------------------------------------------------------------------
(* No save of a lesson is lost before the file has reached its limit.        *)

\* Every save a row counts is one of its lesson, and has been made.
Honest(s) ==
  \A r \in s : \A b \in r.by : Learner(b) /\ work[b].lesson = r.lesson /\ Reached(b)

Found(i, s) ==
  \/ \E r \in s : r.lesson = work[i].lesson /\ i \in r.by
  \/ Cardinality(Rivals(i)) >= MaxMemory

LessonInv ==
  /\ Honest(contents["memory"])
  /\ \A j \in Jobs : Reading(j, "memory") => Honest(copy[j])
  /\ "memory" \notin lossy /\ ~Forgetting =>
       \A i \in Jobs : Learner(i) /\ Stored(i, "memory") => Found(i, contents["memory"])

LEMMA LessonInit == Init => LessonInv
<1> SUFFICES ASSUME Init
             PROVE  LessonInv
  OBVIOUS
<1>1. contents["memory"] = {}
  BY DEF Init, Empty, Files, Locked
<1>2. \A i \in Jobs : ~Stored(i, "memory") /\ ~Reading(i, "memory")
  BY DEF Init, Stored, Acknowledged, Reading
<1> QED BY <1>1, <1>2 DEF LessonInv, Honest

LEMMA ReachedStays ==
  ASSUME IInv, [Next]_vars, NEW i \in Jobs, Reached(i)
  PROVE  Reached(i)'
<1>1. work' = work /\ Moves(i) /\ step[i] \in Nat /\ Len(Saves(work[i])) \in Nat
  BY StepMoves, SavesAt
<1>2. PICK k \in 1 .. Len(Saves(work[i])) :
        /\ Saves(work[i])[k] = "memory"
        /\ k < step[i] \/ (k = step[i] /\ pc[i] \in {"written", "failed", "dead"})
  BY DEF Reached
<1>3. k < step'[i] \/ (k = step'[i] /\ pc'[i] \in {"written", "failed", "dead"})
  <2>1. step'[i] = step[i] \/ step'[i] = step[i] + 1
    BY <1>1 DEF Moves, Stays, Passes
  <2>2. CASE k < step[i]
    BY <2>1, <2>2, <1>1
  <2>3. CASE k = step[i] /\ pc[i] \in {"written", "failed", "dead"}
    <3>1. Stays(i) \/ Passes(i) \/ (pc'[i] \in {"failed", "dead"} /\ step'[i] = step[i])
      BY <1>1, <2>3 DEF Moves
    <3> QED BY <3>1, <2>3, <1>1 DEF Stays, Passes
  <2> QED BY <1>2, <2>2, <2>3
<1> QED BY <1>1, <1>2, <1>3 DEF Reached

\* What has been found stays found among the same rows: rivals only gather.
LEMMA FoundStays ==
  ASSUME IInv, [Next]_vars, NEW i \in Jobs, NEW s, Found(i, s)
  PROVE  \/ \E r \in s : r.lesson = work[i].lesson /\ i \in r.by
         \/ Cardinality(Rivals(i)') >= MaxMemory
<1>1. work' = work /\ Rivals(i) \subseteq Rivals(i)'
  BY StepMoves, ReachedStays DEF Rivals, Learner
<1>2. IsFiniteSet(Jobs) /\ Rivals(i)' \subseteq Jobs
  BY StoresAssumption DEF Rivals
<1>3. IsFiniteSet(Rivals(i)')
  BY <1>2, FS_Subset
<1>4. IsFiniteSet(Rivals(i)) /\ Cardinality(Rivals(i)) <= Cardinality(Rivals(i)')
  BY <1>1, <1>3, FS_Subset
<1>5. Cardinality(Rivals(i)) \in Nat /\ Cardinality(Rivals(i)') \in Nat /\ MaxMemory \in Nat
  BY <1>3, <1>4, FS_CardinalityType, StoresAssumption
<1> QED BY <1>4, <1>5 DEF Found

\* A read that leaves a row out has MaxMemory others, each counting a rival.
LEMMA ReadFinds ==
  ASSUME NEW s \in MemoryRows, Honest(s), NEW kept \in Newest(s), NEW i \in Jobs, Found(i, s)
  PROVE  Found(i, kept)
<1> SUFFICES ASSUME NEW r \in s, r.lesson = work[i].lesson, i \in r.by, r \notin kept
             PROVE  Cardinality(Rivals(i)) >= MaxMemory
  BY DEF Found
<1>1. kept \subseteq s /\ Cardinality(kept) = MaxMemory
  BY DEF Newest
<1>2. \A q \in s : q.by # {} /\ (q.lesson = Success => \E b \in Jobs : q.by = {b})
  BY DEF MemoryRows
<1>3. \A q, p \in s : q.lesson = p.lesson /\ q.lesson # Success => q = p
  BY DEF MemoryRows
<1>4. \A q \in s : q \in MemoryRow
  BY DEF MemoryRows
<1> DEFINE one == [q \in kept |-> CHOOSE b \in q.by : TRUE]
<1>5. \A q \in kept : one[q] \in q.by
  BY <1>1, <1>2
<1> HIDE DEF one
<1>6. \A q, p \in s : \A b : b \in q.by /\ b \in p.by => q = p
  <2> SUFFICES ASSUME NEW q \in s, NEW p \in s, NEW b, b \in q.by, b \in p.by
               PROVE  q = p
    OBVIOUS
  <2>1. q.lesson = p.lesson
    BY DEF Honest
  <2>2. CASE q.lesson = Success
    <3>1. q.by = p.by
      BY <1>2, <2>1, <2>2
    <3> QED BY <3>1, <2>1, <1>4 DEF MemoryRow
  <2> QED BY <2>1, <2>2, <1>3
<1>7. \A q \in kept : one[q] \in Rivals(i)
  <2> SUFFICES ASSUME NEW q \in kept
               PROVE  one[q] \in Rivals(i)
    OBVIOUS
  <2>1. one[q] \in Jobs /\ Learner(one[q]) /\ work[one[q]].lesson = q.lesson /\ Reached(one[q])
    BY <1>1, <1>4, <1>5 DEF Honest, MemoryRow
  <2>2. q \in s /\ q # r
    BY <1>1
  <2>3. one[q] # i
    BY <1>5, <1>6, <2>2
  <2>4. q.lesson # work[i].lesson \/ q.lesson = Success
    BY <1>3, <2>2
  <2> QED BY <2>1, <2>3, <2>4 DEF Rivals
<1>8. one \in Injection(kept, Rivals(i))
  <2>1. one \in [kept -> Rivals(i)]
    BY <1>7 DEF one
  <2>2. \A q, p \in kept : one[q] = one[p] => q = p
    BY <1>1, <1>5, <1>6
  <2> QED BY <2>1, <2>2 DEF Injection, IsInjective
<1>9. IsFiniteSet(Rivals(i))
  BY StoresAssumption, FS_Subset DEF Rivals
<1>10. Cardinality(kept) <= Cardinality(Rivals(i))
  BY <1>8, <1>9, FS_Injection
<1>11. Cardinality(Rivals(i)) \in Nat /\ MaxMemory \in Nat
  BY <1>9, FS_CardinalityType, StoresAssumption
<1> QED BY <1>1, <1>10, <1>11

\* Rows stay honest: a save that was made has been made for good.
LEMMA HonestStays ==
  ASSUME IInv, [Next]_vars, NEW s, Honest(s)
  PROVE  \A r \in s : \A b \in r.by \cap Jobs :
            Learner(b)' /\ work'[b].lesson = r.lesson /\ Reached(b)'
BY StepMoves, ReachedStays DEF Honest, Learner

LEMMA LessonStep == IInv /\ RowsInv /\ LessonInv /\ [Next]_vars => LessonInv'
<1> SUFFICES ASSUME IInv, RowsInv, LessonInv, [Next]_vars
             PROVE  LessonInv'
  OBVIOUS
<1> DEFINE s == contents["memory"]
<1>1. /\ work' = work /\ "memory" \in Locked /\ "memory" \in Files
      /\ "memory" \notin lossy' => "memory" \notin lossy
      /\ ~Forgetting' => ~Forgetting
  BY StepMoves, ForgettingStays DEF Locked, Files
<1>2. s \in MemoryRows /\ Honest(s)
  BY <1>1 DEF RowsInv, Rows, LessonInv
<1>3. ASSUME NEW t \in MemoryRows, Honest(t)
      PROVE  Honest(t)'
  <2>1. \A r \in t : r.by \subseteq Jobs
    BY DEF MemoryRows, MemoryRow
  <2> QED BY <2>1, <1>3, HonestStays DEF Honest
<1>4. ASSUME NEW i \in Jobs, NEW t, Found(i, t)
      PROVE  \/ \E r \in t : r.lesson = work[i].lesson /\ i \in r.by
             \/ Cardinality(Rivals(i)') >= MaxMemory
  BY <1>4, FoundStays
<1>5. ASSUME NEW j \in Jobs, Reading(j, "memory")'
      PROVE  Honest(copy[j])'
  <2>1. CASE Reading(j, "memory") /\ copy'[j] = copy[j]
    <3>1. copy[j] \in MemoryRows /\ Honest(copy[j])
      BY <2>1, <1>1 DEF RowsInv, Rows, LessonInv
    <3> QED BY <3>1, <2>1, <1>3 DEF Honest
  <2>2. CASE Read(j) /\ AtFile(j, "memory") /\ pc'[j] = "read"
    <3>1. copy'[j] \in Seen("memory") \cup {{}}
      BY <2>2, <1>1, ReadCopy DEF Empty
    <3>2. copy'[j] \subseteq s
      BY <3>1, <1>1, SeenRows
    <3>3. \A r \in s : \A b \in r.by : Learner(b)' /\ work'[b].lesson = r.lesson /\ Reached(b)'
      BY <1>2, <1>3 DEF Honest
    <3> QED BY <3>2, <3>3 DEF Honest
  <2> QED BY <1>1, <1>5, <2>1, <2>2, ReadingStep DEF Stays
<1>6. CASE \E j \in Jobs : Write(j) /\ AtFile(j, "memory")
  <2>1. PICK j \in Jobs : Write(j) /\ AtFile(j, "memory")
    BY <1>6
  <2>2. /\ pc[j] = "read" /\ FileOf(j) = "memory" /\ UNCHANGED <<step, copy>>
        /\ "memory" \notin lossy' => j \notin excused
        /\ pc' = [pc EXCEPT ![j] = "written"]
        /\ \E rows \in Updated(work[j], "memory", copy[j], j) :
              contents' = [contents EXCEPT !["memory"] = rows]
    BY <2>1 DEF Write, AtFile
  <2> DEFINE t == copy[j]
  <2> DEFINE new == contents'["memory"]
  <2>3. new \in Updated(work[j], "memory", t, j)
    BY <2>2, <1>1 DEF IInv, ShapeInv
  <2>4. t \in MemoryRows /\ Honest(t) /\ work[j].lesson \in Lessons
    BY <2>1, <2>2, <1>1 DEF Reading, RowsInv, Rows, LessonInv, IInv, TypeOK, Work
  <2>5. Reached(j)' /\ (Learner(j)' <=> Learner(j))
    <3>1. step[j] \in 1 .. Len(Saves(work[j])) /\ Saves(work[j])[step[j]] = "memory"
      BY <2>1, SavesAt DEF AtFile, FileOf
    <3>2. pc'[j] = "written"
      BY <2>2 DEF IInv, TypeOK
    <3> QED BY <3>1, <3>2, <2>2, <1>1 DEF Reached, Learner
  <2>6. \A r \in t : \A b \in r.by : Learner(b)' /\ work'[b].lesson = r.lesson /\ Reached(b)'
    BY <2>4, <1>3 DEF Honest
  <2>7. Honest(contents["memory"])'
    <3>1. CASE Learner(j)
      <4>1. new = Remember(t, work[j].lesson, j)
        BY <2>3, <3>1 DEF Updated, Learner
      <4>2. \A r \in new : \A b \in r.by :
              \/ b = j /\ r.lesson = work[j].lesson
              \/ \E q \in t : q.lesson = r.lesson /\ b \in q.by
        BY <4>1, <2>4, RememberSpec
      <4> QED BY <4>2, <2>5, <2>6, <3>1, <1>1 DEF Honest
    <3>2. CASE ~Learner(j)
      <4>1. new \subseteq t
        BY <2>3, <3>2 DEF Updated, Learner, Forget
      <4> QED BY <4>1, <2>6 DEF Honest
    <3> QED BY <3>1, <3>2
  <2>8. ASSUME "memory" \notin lossy', ~Forgetting',
               NEW i \in Jobs, Learner(i), Stored(i, "memory")'
        PROVE  Found(i, contents["memory"])'
    <3>1. Learner(j)
      <4>1. pc'[j] = "written"
        BY <2>2 DEF IInv, TypeOK
      <4> QED BY <4>1, <2>8, <1>1 DEF Forgetting, Learner
    <3>2. new = Remember(t, work[j].lesson, j)
      BY <2>3, <3>1 DEF Updated, Learner
    <3>3. t \in Newest(s)
      BY <2>1, <2>2, <2>8, <1>1 DEF IInv, CopyInv, Seen
    <3>4. CASE i = j
      <4>1. \E r \in new : r.lesson = work[j].lesson /\ j \in r.by
        BY <3>2, <2>4, RememberSpec
      <4> QED BY <4>1, <3>4, <1>1 DEF Found
    <3>5. CASE i # j
      <4>1. Stored(i, "memory")
        BY <3>5, <2>8, <2>1, <1>1, StoredStep, WriteOne
      <4>2. Found(i, s)
        BY <4>1, <2>8, <1>1 DEF LessonInv
      <4>3. Found(i, t)
        BY <4>2, <3>3, <1>2, ReadFinds
      <4>4. \/ \E r \in t : r.lesson = work[i].lesson /\ i \in r.by
            \/ Cardinality(Rivals(i)') >= MaxMemory
        BY <4>3, <1>4
      <4>5. \A q \in t : \E r \in new : r.lesson = q.lesson /\ q.by \subseteq r.by
        BY <3>2, <2>4, RememberSpec
      <4> HIDE DEF new, t
      <4>6. \/ \E r \in new : r.lesson = work[i].lesson /\ i \in r.by
            \/ Cardinality(Rivals(i)') >= MaxMemory
        BY <4>4, <4>5
      <4> QED BY <4>6, <1>1 DEF Found, new
    <3> QED BY <3>4, <3>5
  <2> QED BY <1>1, <1>5, <2>7, <2>8 DEF LessonInv, Learner
<1>7. CASE /\ contents'["memory"] = s
           /\ \A j \in Jobs : ~(Write(j) /\ AtFile(j, "memory"))
  <2>1. Honest(contents["memory"])'
    BY <1>2, <1>3, <1>7 DEF Honest
  <2>2. ASSUME "memory" \notin lossy', ~Forgetting',
               NEW i \in Jobs, Learner(i), Stored(i, "memory")'
        PROVE  Found(i, contents["memory"])'
    <3>1. Stored(i, "memory")
      BY <2>2, <1>1, <1>7, StoredStep
    <3>2. Found(i, s)
      BY <3>1, <2>2, <1>1 DEF LessonInv
    <3>3. \/ \E r \in s : r.lesson = work[i].lesson /\ i \in r.by
          \/ Cardinality(Rivals(i)') >= MaxMemory
      BY <3>2, <1>4
    <3> QED BY <3>3, <1>1, <1>7 DEF Found
  <2> QED BY <1>1, <1>5, <2>1, <2>2 DEF LessonInv, Learner
<1> QED BY <1>1, <1>6, <1>7, LockedStep

\* addTrace and appendLearnedTaskMemory: what was answered as saved is in the file or
\* pushed out by others, at least as many as the file may have rows; whatever other jobs
\* save, wherever they fail or die, unless a save of another process or of an unreadable
\* file overwrote it.
THEOREM SavedIsStored == Spec => []AcknowledgedIsStored
<1>1. IInv /\ RowsInv /\ TraceInv /\ LessonInv => AcknowledgedIsStored
  <2> SUFFICES ASSUME IInv, RowsInv, TraceInv, LessonInv
               PROVE  AcknowledgedIsStored
    OBVIOUS
  <2>1. contents["traces"] \in Seq(Jobs)
    BY DEF RowsInv, Rows, TraceRows, Files, Locked
  <2>2. "traces" \notin lossy =>
          \A j \in Jobs : Acknowledged(j, "traces") =>
            \/ \E k \in DOMAIN contents["traces"] : contents["traces"][k] = j
            \/ Len(contents["traces"]) = MaxTraces
    BY <2>1, LenProperties DEF TraceInv, Stored
  <2>3. "memory" \notin lossy /\ ~Forgetting =>
          \A j \in Jobs : Learner(j) /\ Acknowledged(j, "memory") =>
            \/ \E r \in contents["memory"] : r.lesson = work[j].lesson /\ j \in r.by
            \/ Cardinality(Rivals(j)) >= MaxMemory
    BY DEF LessonInv, Found, Stored
  <2> QED BY <2>2, <2>3 DEF AcknowledgedIsStored
<1> QED
  BY <1>1, InitIInv, NextIInv, RowsInit, RowsStep, TraceInit, TraceStep, LessonInit, LessonStep,
     PTL DEF Spec

-----------------------------------------------------------------------------
(* Scores.  Nobody waits for anybody here: what is kept depends on the      *)
(* copies of those whom no other save has overtaken.                       *)

PoliciesKept(s) ==
  \A i \in Jobs : Acknowledged(i, "policies") =>
    \/ Len(s) = MaxPolicies
    \/ \E k \in 1 .. Len(s) : s[k].policy = work[i].policy

ScoreInv ==
  "policies" \notin lossy =>
    /\ ~Rewriting => PoliciesKept(contents["policies"])
    /\ \A j \in Jobs : Reading(j, "policies") /\ j \notin excused => PoliciesKept(copy[j])
    /\ \A j \in Jobs : pc[j] = "open" /\ j \notin excused
                         => contents["policies"] = <<>> /\ ~torn

LEMMA ScoreInit == Init => ScoreInv
<1> SUFFICES ASSUME Init
             PROVE  ScoreInv
  OBVIOUS
<1>1. \A i \in Jobs : ~Acknowledged(i, "policies")
  BY DEF Init, Acknowledged
<1> QED BY <1>1 DEF Init, ScoreInv, PoliciesKept, Reading

\* Only the end of a rewrite acknowledges a score.
LEMMA AckScore ==
  ASSUME IInv, [Next]_vars, NEW i \in Jobs,
         Acknowledged(i, "policies")', ~Acknowledged(i, "policies")
  PROVE  Fill(i)
<1>1. /\ AtFile(i, "policies")
      /\ \/ Read(i) /\ ~Learner(i)
         \/ Return(i) /\ pc[i] = "written"
         \/ Fill(i)
  BY AckStep
<1>2. pc[i] # "written"
  BY <1>1 DEF IInv, StepInv, AtFile, Locked
<1>3. Learner(i)
  <2>1. step[i] \in 1 .. Len(Saves(work[i])) /\ Saves(work[i])[step[i]] = "policies"
    BY <1>1, SavesAt DEF AtFile, FileOf
  <2> QED BY <2>1, TracesAreLearners DEF Learner
<1> QED BY <1>1, <1>2, <1>3

LEMMA PoliciesStay ==
  ASSUME IInv, [Next]_vars, \A j \in Jobs : ~Fill(j), NEW s, PoliciesKept(s)
  PROVE  \A i \in Jobs : Acknowledged(i, "policies")' =>
           \/ Len(s) = MaxPolicies
           \/ \E k \in 1 .. Len(s) : s[k].policy = work'[i].policy
BY AckScore, StepMoves DEF PoliciesKept

\* Steps that leave the scores and their readers alone.
LEMMA ScoreSame ==
  ASSUME IInv, [Next]_vars, ScoreInv, \A j \in Jobs : ~Fill(j),
         contents'["policies"] = contents["policies"], torn' = torn,
         \A i \in Jobs : Reading(i, "policies")' /\ i \notin excused' =>
            Reading(i, "policies") /\ copy'[i] = copy[i] /\ i \notin excused,
         \A i \in Jobs : pc'[i] = "open" => pc[i] = "open",
         \A i \in Jobs : pc[i] = "open" => pc'[i] = "open" \/ "policies" \in lossy'
  PROVE  ScoreInv'
<1> SUFFICES ASSUME "policies" \notin lossy'
             PROVE  ScoreInv'
  BY DEF ScoreInv
<1>1. "policies" \notin lossy /\ work' = work
  BY StepMoves
<1>2. Rewriting' <=> Rewriting
  BY DEF Rewriting
<1>3. ~Rewriting' => PoliciesKept(contents["policies"])'
  <2> SUFFICES ASSUME ~Rewriting'
               PROVE  PoliciesKept(contents["policies"])'
    OBVIOUS
  <2>1. PoliciesKept(contents["policies"])
    BY <1>1, <1>2 DEF ScoreInv
  <2> DEFINE s == contents["policies"]
  <2>2. \A i \in Jobs : Acknowledged(i, "policies")' =>
          Len(s) = MaxPolicies \/ \E k \in 1 .. Len(s) : s[k].policy = work'[i].policy
    BY <2>1, PoliciesStay
  <2> QED BY <2>2 DEF PoliciesKept
<1>4. ASSUME NEW j \in Jobs, Reading(j, "policies")', j \notin excused'
      PROVE  PoliciesKept(copy[j])'
  <2>1. PoliciesKept(copy[j]) /\ copy'[j] = copy[j]
    BY <1>1, <1>4 DEF ScoreInv
  <2> DEFINE s == copy[j]
  <2>2. \A i \in Jobs : Acknowledged(i, "policies")' =>
          Len(s) = MaxPolicies \/ \E k \in 1 .. Len(s) : s[k].policy = work'[i].policy
    BY <2>1, PoliciesStay
  <2> QED BY <2>1, <2>2 DEF PoliciesKept
<1>5. ASSUME NEW j \in Jobs, pc'[j] = "open", j \notin excused'
      PROVE  contents'["policies"] = <<>> /\ ~torn'
  <2>1. pc[j] = "open" /\ IInv'
    BY <1>5, NextIInv
  <2>2. AtFile(j, "policies")'
    BY <1>5, <2>1 DEF IInv, StepInv
  <2>3. j \notin excused
    BY <1>5, <2>2 DEF Reading
  <2> QED BY <1>1, <2>1, <2>3 DEF ScoreInv
<1> QED BY <1>3, <1>4, <1>5 DEF ScoreInv

LEMMA ReadScore ==
  ASSUME IInv, [Next]_vars, ScoreInv, NEW j \in Jobs, Read(j)
  PROVE  ScoreInv'
<1> SUFFICES ASSUME "policies" \notin lossy'
             PROVE  ScoreInv'
  BY DEF ScoreInv
<1>1. /\ pc[j] = "waiting" /\ UNCHANGED <<work, contents, torn, lossy>>
      /\ excused \subseteq excused'
      /\ \A i \in Jobs \ {j} : Stays(i)
      /\ \A i \in Jobs : ~Fill(i)
  <2>1. pc[j] = "waiting" /\ UNCHANGED <<work, contents, torn, lossy>> /\ excused \subseteq excused'
    BY DEF Read
  <2>2. \A i \in Jobs \ {j} : Stays(i)
    <3>1. \/ Go(j, "nothing to do")
          \/ /\ pc' = [pc EXCEPT ![j] = "read"] /\ step' = step
             /\ \E rows : copy' = [copy EXCEPT ![j] = rows]
      BY DEF Read
    <3>2. CASE Go(j, "nothing to do")
      BY <3>2, GoMoves DEF IInv, ShapeInv
    <3>3. CASE /\ pc' = [pc EXCEPT ![j] = "read"] /\ step' = step
               /\ \E rows : copy' = [copy EXCEPT ![j] = rows]
      BY <3>3 DEF IInv, TypeOK, ShapeInv, Stays
    <3> QED BY <3>1, <3>2, <3>3
  <2>3. \A i \in Jobs : ~Fill(i)
    <3> SUFFICES ASSUME NEW i \in Jobs, Fill(i)
                 PROVE  FALSE
      OBVIOUS
    <3>1. pc[i] = "open" /\ Go(i, "saved")
      BY DEF Fill
    <3>2. i # j /\ pc'[i] # "open"
      BY <2>1, <3>1 DEF Go, IInv, TypeOK
    <3> QED BY <2>2, <3>1, <3>2 DEF Stays
  <2> QED BY <2>1, <2>2, <2>3
<1>2. pc'[j] # "open"
  BY StepMoves, <1>1 DEF Moves, Stays, Passes
<1>3. CASE Reading(j, "policies")' /\ j \notin excused'
  <2>1. AtFile(j, "policies") /\ FileOf(j) = "policies" /\ pc'[j] = "read"
    BY <1>1, <1>2, <1>3, ReadingStep DEF Reading, AtFile, Files
  <2>2. copy'[j] = contents["policies"] /\ ~Rewriting
    <3>1. "policies" \in Files
      BY DEF Files
    <3>2. copy'[j] \in Seen("policies") /\ ~Rewriting
      BY <2>1, <1>3, <3>1, ReadCopy
    <3> QED BY <3>2 DEF Seen
  <2>3. PoliciesKept(contents["policies"])
    BY <1>1, <2>2 DEF ScoreInv
  <2>4. PoliciesKept(copy[j])' /\ (~Rewriting' => PoliciesKept(contents["policies"])')
    <3> DEFINE s == contents["policies"]
    <3>1. \A i \in Jobs : Acknowledged(i, "policies")' =>
            Len(s) = MaxPolicies \/ \E k \in 1 .. Len(s) : s[k].policy = work'[i].policy
      BY <1>1, <2>3, PoliciesStay
    <3>2. copy'[j] = s /\ contents'["policies"] = s
      BY <1>1, <2>2
    <3> QED BY <3>1, <3>2 DEF PoliciesKept
  <2>5. ASSUME NEW i \in Jobs, i # j, Reading(i, "policies")', i \notin excused'
        PROVE  PoliciesKept(copy[i])'
    <3>1. Reading(i, "policies") /\ copy'[i] = copy[i] /\ i \notin excused
      BY <1>1, <2>5 DEF Reading, Stays, AtFile, FileOf
    <3>2. PoliciesKept(copy[i])
      BY <1>1, <3>1 DEF ScoreInv
    <3> DEFINE s == copy[i]
    <3>3. \A h \in Jobs : Acknowledged(h, "policies")' =>
            Len(s) = MaxPolicies \/ \E k \in 1 .. Len(s) : s[k].policy = work'[h].policy
      BY <1>1, <3>2, PoliciesStay
    <3> QED BY <3>1, <3>3 DEF PoliciesKept
  <2>6. ASSUME NEW i \in Jobs, pc'[i] = "open", i \notin excused'
        PROVE  contents'["policies"] = <<>> /\ ~torn'
    BY <1>1, <1>2, <2>6 DEF ScoreInv, Stays
  <2> QED BY <2>4, <2>5, <2>6 DEF ScoreInv
<1>4. CASE ~(Reading(j, "policies")' /\ j \notin excused')
  <2>1. \A i \in Jobs : Reading(i, "policies")' /\ i \notin excused' =>
            Reading(i, "policies") /\ copy'[i] = copy[i] /\ i \notin excused
    BY <1>1, <1>4 DEF Reading, Stays, AtFile, FileOf
  <2>2. \A i \in Jobs : (pc'[i] = "open") <=> (pc[i] = "open")
    BY <1>1, <1>2 DEF Stays
  <2> QED BY <1>1, <2>1, <2>2, ScoreSame
<1> QED BY <1>3, <1>4

LEMMA TruncateScore ==
  ASSUME IInv, [Next]_vars, ScoreInv, NEW j \in Jobs, Truncate(j)
  PROVE  ScoreInv'
<1> SUFFICES ASSUME "policies" \notin lossy'
             PROVE  ScoreInv'
  BY DEF ScoreInv
<1>1. /\ pc[j] = "read" /\ FileOf(j) = "policies" /\ "policies" \notin lossy
      /\ contents' = [contents EXCEPT !["policies"] = <<>>] /\ torn' = FALSE
      /\ pc' = [pc EXCEPT ![j] = "open"]
      /\ excused' = excused \cup (Readers("policies") \ {j})
      /\ UNCHANGED <<work, step, copy>>
  BY DEF Truncate
<1>2. contents'["policies"] = <<>> /\ \A i \in Jobs : pc'[i] = IF i = j THEN "open" ELSE pc[i]
  BY <1>1 DEF IInv, TypeOK, ShapeInv, Files
<1>3. AtFile(j, "policies")
  BY <1>1 DEF IInv, StepInv, Active, AtFile
<1>4. ASSUME NEW i \in Jobs, Reading(i, "policies")', i \notin excused'
      PROVE  i = j
  <2>1. i # j => i \in Readers("policies")
    BY <1>1, <1>2, <1>4 DEF Readers, Reading, AtFile, FileOf
  <2> QED BY <1>1, <1>4, <2>1
<1>5. \A i \in Jobs : ~Fill(i)
  BY <1>1, ZenonT(60) DEF Fill, Go, IInv, TypeOK
<1>6. Rewriting'
  BY <1>2 DEF Rewriting
<1>7. j \notin excused' => PoliciesKept(copy[j])'
  <2> SUFFICES ASSUME j \notin excused'
               PROVE  PoliciesKept(copy[j])'
    OBVIOUS
  <2>1. PoliciesKept(copy[j])
    BY <1>1, <1>3 DEF ScoreInv, Reading
  <2>2. ASSUME NEW i \in Jobs, Acknowledged(i, "policies")'
        PROVE  \/ Len(copy[j]) = MaxPolicies
               \/ \E k \in 1 .. Len(copy[j]) : copy[j][k].policy = work'[i].policy
    BY <2>1, <2>2, <1>5, PoliciesStay
  <2>3. copy'[j] = copy[j]
    BY <1>1
  <2> QED BY <2>2, <2>3 DEF PoliciesKept
<1> QED
  BY <1>1, <1>2, <1>4, <1>6, <1>7 DEF ScoreInv

LEMMA FillScore ==
  ASSUME IInv, RowsInv, [Next]_vars, ScoreInv, NEW j \in Jobs, Fill(j)
  PROVE  ScoreInv'
<1> SUFFICES ASSUME "policies" \notin lossy'
             PROVE  ScoreInv'
  BY DEF ScoreInv
<1>1. /\ pc[j] = "open" /\ Go(j, "saved") /\ work' = work
      /\ excused' = (excused \cup Readers("policies")) \ {j}
      /\ j \notin excused /\ "policies" \notin lossy
      /\ AtFile(j, "policies") /\ work[j] \in Work
  BY DEF Fill, IInv, StepInv, TypeOK
<1>2. Passes(j) /\ \A i \in Jobs \ {j} : Stays(i)
  BY <1>1, GoMoves DEF IInv, ShapeInv
<1>3. \A i \in Jobs : ~(Reading(i, "policies")' /\ i \notin excused')
  <2> SUFFICES ASSUME NEW i \in Jobs, Reading(i, "policies")'
               PROVE  i \in excused'
    OBVIOUS
  <2>1. i # j
    BY <1>2 DEF Passes, Reading
  <2>2. i \in Readers("policies")
    BY <1>1, <1>2, <2>1 DEF Stays, Readers, Reading, AtFile, FileOf
  <2> QED BY <1>1, <2>1, <2>2
<1>4. \A i \in Jobs : ~(pc'[i] = "open" /\ i \notin excused')
  <2>1. IInv'
    BY NextIInv
  <2> QED BY <2>1, <1>3 DEF IInv, StepInv, Reading
<1> DEFINE s == copy[j]
           new == Scored(copy[j], work[j], j)
<1>5. contents'["policies"] = new
  <2>1. contents["policies"] = <<>> /\ ~torn
    BY <1>1 DEF ScoreInv
  <2> QED BY <2>1 DEF Fill, IInv, ShapeInv, Files
<1>6. PoliciesKept(s) /\ s \in ScoreRows
  BY <1>1 DEF ScoreInv, RowsInv, Rows, Reading, Files
<1>7. /\ \E k \in 1 .. Len(new) : new[k].policy = work[j].policy
      /\ \/ Len(new) = MaxPolicies
         \/ /\ Len(s) # MaxPolicies
            /\ \A i \in 1 .. Len(s) : \E k \in 1 .. Len(new) : new[k].policy = s[i].policy
  <2>1. \A r \in ScoreRows : \A w \in Work :
          /\ \E k \in 1 .. Len(Scored(r, w, j)) : Scored(r, w, j)[k].policy = w.policy
          /\ \/ Len(Scored(r, w, j)) = MaxPolicies
             \/ /\ Len(r) # MaxPolicies
                /\ \A i \in 1 .. Len(r) :
                      \E k \in 1 .. Len(Scored(r, w, j)) :
                         Scored(r, w, j)[k].policy = r[i].policy
    <3> SUFFICES ASSUME NEW r \in ScoreRows, NEW w \in Work
                 PROVE  /\ \E k \in 1 .. Len(Scored(r, w, j)) :
                              Scored(r, w, j)[k].policy = w.policy
                        /\ \/ Len(Scored(r, w, j)) = MaxPolicies
                           \/ /\ Len(r) # MaxPolicies
                              /\ \A i \in 1 .. Len(r) :
                                    \E k \in 1 .. Len(Scored(r, w, j)) :
                                       Scored(r, w, j)[k].policy = r[i].policy
      OBVIOUS
    <3> QED BY ScoredSpec, ZenonT(60)
  <2>2. s \in ScoreRows /\ work[j] \in Work
    BY <1>1, <1>6
  <2> QED BY <2>1, <2>2, Zenon
<1> HIDE DEF new
<1>8. ASSUME NEW i \in Jobs, Acknowledged(i, "policies")'
      PROVE  \/ Len(new) = MaxPolicies
             \/ \E k \in 1 .. Len(new) : new[k].policy = work[i].policy
  <2>1. Acknowledged(i, "policies") \/ i = j
    <3>1. Acknowledged(i, "policies") \/ Fill(i)
      BY <1>8, AckScore
    <3>2. Fill(i) => pc[i] = "open" /\ ~Stays(i)
      BY DEF Fill, Go, Stays, IInv, TypeOK
    <3> QED BY <3>1, <3>2, <1>2
  <2>2. CASE i = j
    BY <2>2, <1>7
  <2>3. CASE Acknowledged(i, "policies")
    <3>1. Len(s) = MaxPolicies \/ \E h \in 1 .. Len(s) : s[h].policy = work[i].policy
      BY <1>6, <2>3 DEF PoliciesKept
    <3> QED BY <3>1, <1>7
  <2> QED BY <2>1, <2>2, <2>3
<1>9. PoliciesKept(contents["policies"])'
  BY <1>1, <1>5, <1>8 DEF PoliciesKept
<1> QED
  BY <1>3, <1>4, <1>9 DEF ScoreInv

LEMMA ScoreStep == IInv /\ RowsInv /\ ScoreInv /\ [Next]_vars => ScoreInv'
<1> SUFFICES ASSUME IInv, RowsInv, ScoreInv, [Next]_vars
             PROVE  ScoreInv'
  OBVIOUS
<1>1. ASSUME NEW j \in Jobs, Begin(j)
      PROVE  ScoreInv'
  <2>1. /\ pc[j] = "ready" /\ pc' = [pc EXCEPT ![j] = "waiting"]
        /\ UNCHANGED <<work, step, copy, contents, torn, excused>>
    BY <1>1 DEF Begin
  <2>2. \A i \in Jobs : pc'[i] = IF i = j THEN "waiting" ELSE pc[i]
    BY <2>1 DEF IInv, TypeOK
  <2>3. \A i \in Jobs : ~Fill(i)
    BY <2>1 DEF Fill, Go, IInv, TypeOK
  <2>4. \A i \in Jobs : Reading(i, "policies")' => Reading(i, "policies")
    BY <2>1, <2>2 DEF Reading, AtFile, FileOf
  <2> QED BY <2>1, <2>2, <2>3, <2>4, ScoreSame
<1>2. ASSUME NEW j \in Jobs, Write(j)
      PROVE  ScoreInv'
  <2>1. /\ pc[j] = "read" /\ pc' = [pc EXCEPT ![j] = "written"] /\ FileOf(j) \in Locked
        /\ \E rows : contents' = [contents EXCEPT ![FileOf(j)] = rows]
        /\ excused \subseteq excused'
        /\ UNCHANGED <<work, step, copy, torn>>
    BY <1>2 DEF Write
  <2>2. \A i \in Jobs : pc'[i] = IF i = j THEN "written" ELSE pc[i]
    BY <2>1 DEF IInv, TypeOK
  <2>3. \A i \in Jobs : ~Fill(i)
    BY <2>1, ZenonT(60) DEF Fill, Go, IInv, TypeOK
  <2>4. \A i \in Jobs : Reading(i, "policies")' => Reading(i, "policies")
    BY <2>1, <2>2 DEF Reading, AtFile, FileOf
  <2>5. contents'["policies"] = contents["policies"]
    BY <2>1 DEF IInv, ShapeInv, Locked, Files
  <2> QED BY <2>1, <2>2, <2>3, <2>4, <2>5, ScoreSame
<1>3. ASSUME NEW j \in Jobs, Return(j) \/ Fail(j)
      PROVE  ScoreInv'
  <2>1. /\ pc[j] \in {"read", "open", "written"} /\ pc[j] = "open" => "policies" \in lossy'
        /\ \E how : Go(j, how)
        /\ excused' = excused \ {j}
        /\ UNCHANGED <<work, contents, torn>>
    BY <1>3 DEF Return, Fail
  <2>2. pc'[j] \notin {"read", "open"} /\ \A i \in Jobs \ {j} : Stays(i)
    BY <2>1 DEF Go, IInv, TypeOK, ShapeInv, Stays
  <2>3. "policies" \in lossy' \/ \A i \in Jobs : ~Fill(i)
    <3> SUFFICES ASSUME NEW i \in Jobs, Fill(i)
                 PROVE  "policies" \in lossy'
      OBVIOUS
    <3>1. pc[i] = "open" /\ ~Stays(i)
      BY DEF Fill, Go, IInv, TypeOK, Stays
    <3> QED BY <3>1, <2>1, <2>2
  <2>4. \A i \in Jobs : Reading(i, "policies")' /\ i \notin excused' =>
            Reading(i, "policies") /\ copy'[i] = copy[i] /\ i \notin excused
    BY <2>1, <2>2, ZenonT(60) DEF Reading, Stays, AtFile, FileOf
  <2>5. \A i \in Jobs : /\ pc'[i] = "open" => pc[i] = "open"
                        /\ pc[i] = "open" => pc'[i] = "open" \/ "policies" \in lossy'
    BY <2>1, <2>2 DEF Stays
  <2>6. CASE "policies" \in lossy'
    BY <2>6 DEF ScoreInv
  <2>7. CASE \A i \in Jobs : ~Fill(i)
    BY <2>1, <2>4, <2>5, <2>7, ScoreSame
  <2> QED BY <2>3, <2>6, <2>7
<1>4. ASSUME NEW p \in Processes, Crash(p)
      PROVE  ScoreInv'
  <2> DEFINE dying == {j \in Jobs : Home(j) = p /\ ~Over(j)}
  <2>1. /\ pc' = [j \in Jobs |-> IF j \in dying THEN "dead" ELSE pc[j]]
        /\ copy' = [j \in Jobs |-> IF j \in dying THEN NoCopy ELSE copy[j]]
        /\ excused' = excused \ dying
        /\ lossy' = IF \E j \in dying : pc[j] = "open" THEN lossy \cup {"policies"} ELSE lossy
        /\ UNCHANGED <<work, step, contents, torn>>
    BY <1>4 DEF Crash
  <2> HIDE DEF dying
  <2>2. \A i \in Jobs : ~Fill(i)
    <3> SUFFICES ASSUME NEW i \in Jobs, Fill(i)
                 PROVE  FALSE
      OBVIOUS
    <3>1. step'[i] = step[i] + 1 /\ step[i] \in Nat
      BY DEF Fill, Go, IInv, TypeOK
    <3> QED BY <3>1, <2>1
  <2>3. \A i \in Jobs : Reading(i, "policies")' /\ i \notin excused' =>
            Reading(i, "policies") /\ copy'[i] = copy[i] /\ i \notin excused
    BY <2>1 DEF Reading, AtFile, FileOf
  <2>4. \A i \in Jobs : /\ pc'[i] = "open" => pc[i] = "open"
                        /\ pc[i] = "open" => pc'[i] = "open" \/ "policies" \in lossy'
    BY <2>1
  <2> QED BY <2>1, <2>2, <2>3, <2>4, ScoreSame
<1>5. CASE UNCHANGED vars
  <2>1. \A i \in Jobs : ~Fill(i)
    BY <1>5, ZenonT(60) DEF vars, Fill, Go, IInv, TypeOK
  <2>2. \A i \in Jobs : Reading(i, "policies")' => Reading(i, "policies")
    BY <1>5 DEF vars, Reading, AtFile, FileOf
  <2> QED BY <1>5, <2>1, <2>2, ScoreSame DEF vars
<1>6. ASSUME NEW j \in Jobs, Read(j) \/ Truncate(j) \/ Fill(j)
      PROVE  ScoreInv'
  BY <1>6, ReadScore, TruncateScore, FillScore
<1> QED
  BY <1>1, <1>2, <1>3, <1>4, <1>5, <1>6 DEF Next, Proceed

\* savePolicyScore, which rewrites its file in place without a lock: a score that was
\* answered as saved keeps its policy in the file, as long as no two saves overlapped,
\* none was cut short and no read failed.
THEOREM ScoresKept == Spec => []ScoresKeptWhenAlone
<1>1. IInv /\ RowsInv /\ ScoreInv => ScoresKeptWhenAlone
  <2> SUFFICES ASSUME IInv, RowsInv, ScoreInv
               PROVE  ScoresKeptWhenAlone
    OBVIOUS
  <2>1. contents["policies"] \in Seq(Scores)
    BY DEF RowsInv, Rows, ScoreRows, Files
  <2> QED BY <2>1, LenProperties DEF ScoreInv, PoliciesKept, ScoresKeptWhenAlone
<1> QED
  BY <1>1, InitIInv, NextIInv, RowsInit, RowsStep, ScoreInit, ScoreStep, PTL DEF Spec
=============================================================================
