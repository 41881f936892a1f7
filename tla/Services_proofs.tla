--------------------------- MODULE Services_proofs ---------------------------
(***************************************************************************)
(* Proofs about the services that keep a promise of their own, for any     *)
(* values of their constants: the saving of a command's state, the rate    *)
(* limit and the exports of Zendesk, the pages of a list of transactions,  *)
(* the decorators of a controller, the hostnames of a hosts file, the      *)
(* arguments of a command, the output of a log, the check digits of        *)
(* identifiers.                                                            *)
(***************************************************************************)
EXTENDS Services, SequenceFacts, Integers

------------------------------------------------------------------------------
\* StateSaving

Save == [previous : Nat, cleared : BOOLEAN, stage : {"waiting", "writing", "saved", "failed"}]

StateTypeOK ==
    /\ phase \in {"reading", "running", "ending", "over"}
    /\ saves \in Seq(Save)
    /\ savePromise \in Nat /\ file \in Nat /\ awaited \in Nat
    /\ due \in 0..Len(saves)
    /\ phase \in {"reading", "running"} => due = 0
    /\ changesOverlapped \in BOOLEAN

\* Only what is settled has been cleared.
ClearedIsSettled == \A i \in 1..Len(saves) : saves[i].cleared => State!Settled(i)

\* Without overlapping changes, all saves but the last are cleared, savePromise
\* is the last one until it is cleared, and the file has what was saved last.
OneSaveAtATime ==
    /\ \A i \in 1..Len(saves) :
         /\ i < Len(saves) => saves[i].cleared
         /\ saves[i].stage # "waiting"
         /\ saves[i].stage = "saved" => i <= file
    /\ \/ savePromise = Len(saves) /\ (Len(saves) > 0 => ~saves[Len(saves)].cleared)
       \/ savePromise = 0 /\ \A i \in 1..Len(saves) : saves[i].cleared

\* The method waits for the save of the last change it has made.
DueIsAwaited ==
    /\ phase = "ending" => due > 0 /\ awaited = due
    /\ phase = "over" /\ due > 0 => State!Settled(due)

StateInv == StateTypeOK /\ ClearedIsSettled /\ (~changesOverlapped => OneSaveAtATime /\ DueIsAwaited)

\* A save that is changed in its place.
LEMMA SaveReplaced ==
    ASSUME NEW i \in 1..Len(saves), saves \in Seq(Save), NEW s \in Save, saves' = [saves EXCEPT ![i] = s]
    PROVE  /\ saves' \in Seq(Save) /\ Len(saves') = Len(saves) /\ Len(saves) \in Nat
           /\ saves'[i] = s /\ \A j \in 1..Len(saves) : j # i => saves'[j] = saves[j]
  OBVIOUS

\* When all saves are cleared, so is savePromise.
LEMMA NothingToWaitFor ==
    ASSUME StateTypeOK, OneSaveAtATime, \A i \in 1..Len(saves) : saves[i].cleared
    PROVE  savePromise = 0
  <1>1. saves \in Seq(Save) /\ Len(saves) \in Nat
    BY DEF StateTypeOK
  <1>2. CASE Len(saves) = 0
    BY <1>1, <1>2 DEF OneSaveAtATime
  <1>3. CASE Len(saves) > 0
    BY <1>1, <1>3 DEF OneSaveAtATime
  <1> QED BY <1>1, <1>2, <1>3

\* What savePromise refers to is the last save.
LEMMA PromiseIsLast ==
    ASSUME StateTypeOK, OneSaveAtATime, savePromise # 0
    PROVE  savePromise = Len(saves) /\ Len(saves) > 0
  <1>1. savePromise = Len(saves)
    BY DEF OneSaveAtATime
  <1>2. saves \in Seq(Save) /\ Len(saves) \in Nat
    BY DEF StateTypeOK
  <1> QED BY <1>1, <1>2

\* What is not cleared is the last save.
LEMMA LastIsOpen ==
    ASSUME StateTypeOK, OneSaveAtATime, NEW i \in 1..Len(saves), ~saves[i].cleared
    PROVE  i = Len(saves)
  <1>1. saves \in Seq(Save) /\ Len(saves) \in Nat
    BY DEF StateTypeOK
  <1> QED BY <1>1 DEF OneSaveAtATime

LEMMA StateInvHolds == State!Spec => []StateInv
  <1>1. State!Init => StateInv
    <2> SUFFICES ASSUME State!Init PROVE StateInv
      OBVIOUS
    <2>1. saves = <<>> /\ saves \in Seq(Save) /\ Len(saves) = 0
      BY DEF State!Init
    <2>2. StateTypeOK
      <3>1. /\ phase = "reading" /\ savePromise = 0 /\ file = 0 /\ awaited = 0
            /\ due = 0 /\ changesOverlapped \in BOOLEAN
        BY DEF State!Init
      <3> QED BY <2>1, <3>1 DEF StateTypeOK
    <2>3. ClearedIsSettled /\ OneSaveAtATime
      BY <2>1 DEF State!Init, ClearedIsSettled, OneSaveAtATime
    <2>4. DueIsAwaited
      BY DEF State!Init, DueIsAwaited
    <2> QED BY <2>2, <2>3, <2>4 DEF StateInv
  <1>2. StateInv /\ [State!Next]_(State!vars) => StateInv'
    <2> SUFFICES ASSUME StateInv, [State!Next]_(State!vars)
                 PROVE  StateInv'
      OBVIOUS
    <2> USE DEF StateInv, StateTypeOK, ClearedIsSettled
    <2> DOMAIN saves = 1..Len(saves) /\ \A i \in 1..Len(saves) : saves[i] \in Save
      OBVIOUS
    <2>1. CASE UNCHANGED State!vars
      BY <2>1 DEF State!vars, OneSaveAtATime, DueIsAwaited, State!Settled
    <2>2. ASSUME NEW valid \in BOOLEAN, State!ReadState(valid)
          PROVE  StateInv'
      <3>1. /\ phase = "reading" /\ phase' \in {"running", "over"}
            /\ UNCHANGED <<saves, savePromise, file, awaited, due, changesOverlapped>>
        BY <2>2 DEF State!ReadState
      <3>2. due = 0 /\ ~(due > 0)
        BY <3>1
      <3>3. StateTypeOK' /\ ClearedIsSettled'
        BY <3>1, <3>2 DEF State!Settled
      <3>4. OneSaveAtATime => OneSaveAtATime'
        BY <3>1 DEF OneSaveAtATime
      <3>5. DueIsAwaited'
        BY <3>1, <3>2 DEF DueIsAwaited
      <3> QED BY <3>1, <3>3, <3>4, <3>5
    <2>3. ASSUME NEW valid \in BOOLEAN, State!Change(valid)
          PROVE  StateInv'
      <3> DEFINE n == Len(saves)
                 s == [previous |-> savePromise, cleared |-> FALSE,
                       stage |-> IF ~valid THEN "failed"
                                 ELSE IF savePromise = 0 THEN "writing" ELSE "waiting"]
      <3>1. /\ phase \in {"running", "ending"} /\ saves' = Append(saves, s) /\ savePromise' = n + 1
            /\ changesOverlapped' = (changesOverlapped \/ \E i \in DOMAIN saves : ~saves[i].cleared)
            /\ UNCHANGED <<phase, file, awaited, due>>
        BY <2>3 DEF State!Change
      <3>2. s \in Save /\ ~s.cleared /\ (savePromise = 0 => s.stage # "waiting") /\ s.stage # "saved"
        BY DEF Save
      <3> HIDE DEF s
      <3>3. /\ saves' \in Seq(Save) /\ n \in Nat /\ Len(saves') = n + 1
            /\ saves'[n + 1] = s /\ \A i \in 1..n : saves'[i] = saves[i]
        BY <3>1, <3>2, AppendByIndex
      <3>4. StateTypeOK'
        BY <3>1, <3>3
      <3>5. ClearedIsSettled'
        BY <3>2, <3>3 DEF State!Settled
      <3>6. ASSUME ~changesOverlapped'
            PROVE  OneSaveAtATime' /\ DueIsAwaited'
        <4>1. ~changesOverlapped /\ \A i \in 1..n : saves[i].cleared
          BY <3>1, <3>6
        <4>2. savePromise = 0
          BY <4>1, NothingToWaitFor
        <4>3. OneSaveAtATime'
          BY <3>1, <3>2, <3>3, <4>1, <4>2 DEF OneSaveAtATime
        <4>4. DueIsAwaited'
          BY <3>1, <3>3, <4>1 DEF DueIsAwaited, State!Settled
        <4> QED BY <4>3, <4>4
      <3> QED BY <3>4, <3>5, <3>6
    <2>4. ASSUME NEW i \in 1..Len(saves), State!BeginWrite(i)
          PROVE  StateInv'
      <3> DEFINE s == [saves[i] EXCEPT !.stage = "writing"]
      <3>1. /\ saves[i].stage = "waiting" /\ saves' = [saves EXCEPT ![i] = s]
            /\ UNCHANGED <<phase, savePromise, file, awaited, due, changesOverlapped>>
        BY <2>4 DEF State!BeginWrite
      <3>2. s \in Save /\ s.cleared = saves[i].cleared /\ ~saves[i].cleared
        BY <3>1 DEF Save, State!Settled
      <3> HIDE DEF s
      <3>3. /\ saves' \in Seq(Save) /\ Len(saves') = Len(saves) /\ Len(saves) \in Nat
            /\ saves'[i] = s /\ \A j \in 1..Len(saves) : j # i => saves'[j] = saves[j]
        BY <3>1, <3>2, SaveReplaced
      <3>4. StateTypeOK' /\ ClearedIsSettled'
        BY <3>1, <3>2, <3>3 DEF State!Settled
      <3>5. changesOverlapped
        BY <3>1 DEF OneSaveAtATime
      <3> QED BY <3>1, <3>4, <3>5
    <2>5. ASSUME NEW i \in 1..Len(saves), State!Clear(i)
          PROVE  StateInv'
      <3> DEFINE s == [saves[i] EXCEPT !.cleared = TRUE]
      <3>1. /\ State!Settled(i) /\ ~saves[i].cleared /\ saves' = [saves EXCEPT ![i] = s]
            /\ savePromise' = 0
            /\ UNCHANGED <<phase, file, awaited, due, changesOverlapped>>
        BY <2>5 DEF State!Clear
      <3>2. s \in Save /\ s.cleared /\ s.stage = saves[i].stage
        BY DEF Save
      <3> HIDE DEF s
      <3>3. /\ saves' \in Seq(Save) /\ Len(saves') = Len(saves) /\ Len(saves) \in Nat
            /\ saves'[i] = s /\ \A j \in 1..Len(saves) : j # i => saves'[j] = saves[j]
        BY <3>1, <3>2, SaveReplaced
      <3>4. StateTypeOK' /\ ClearedIsSettled'
        BY <3>1, <3>2, <3>3 DEF State!Settled
      <3>5. ASSUME ~changesOverlapped'
            PROVE  OneSaveAtATime' /\ DueIsAwaited'
        <4>1. OneSaveAtATime /\ DueIsAwaited
          BY <3>1, <3>5
        <4>2. i = Len(saves)
          BY <3>1, <4>1, LastIsOpen
        <4>3. \A j \in 1..Len(saves) : saves'[j].cleared /\ saves'[j].stage = saves[j].stage
          <5>1. \A j \in 1..Len(saves) : j # i => saves[j].cleared
            BY <4>1, <4>2, LastIsOpen
          <5> QED BY <3>2, <3>3, <5>1
        <4>4. OneSaveAtATime'
          BY <3>1, <3>3, <4>1, <4>3 DEF OneSaveAtATime
        <4>5. DueIsAwaited'
          BY <3>1, <3>2, <3>3, <4>1 DEF DueIsAwaited, State!Settled
        <4> QED BY <4>4, <4>5
      <3> QED BY <3>4, <3>5
    <2>6. ASSUME NEW i \in 1..Len(saves), State!EndWrite(i)
          PROVE  StateInv'
      <3>1. PICK outcome \in {"saved", "failed"} :
                /\ saves' = [saves EXCEPT ![i].stage = outcome]
                /\ outcome = "saved" => file' = i
                /\ outcome = "failed" => file' = file
        BY <2>6 DEF State!EndWrite
      <3> DEFINE s == [saves[i] EXCEPT !.stage = outcome]
      <3>2. /\ saves[i].stage = "writing" /\ saves' = [saves EXCEPT ![i] = s]
            /\ UNCHANGED <<phase, savePromise, awaited, due, changesOverlapped>>
        BY <2>6, <3>1 DEF State!EndWrite
      <3>3. s \in Save /\ s.cleared = saves[i].cleared /\ s.stage = outcome /\ ~saves[i].cleared
        BY <3>2 DEF Save, State!Settled
      <3> HIDE DEF s
      <3>4. /\ saves' \in Seq(Save) /\ Len(saves') = Len(saves) /\ Len(saves) \in Nat
            /\ saves'[i] = s /\ \A j \in 1..Len(saves) : j # i => saves'[j] = saves[j]
        BY <3>2, <3>3, SaveReplaced
      <3>5. StateTypeOK' /\ ClearedIsSettled'
        BY <3>1, <3>2, <3>3, <3>4 DEF State!Settled
      <3>6. ASSUME ~changesOverlapped'
            PROVE  OneSaveAtATime' /\ DueIsAwaited'
        <4>1. OneSaveAtATime /\ DueIsAwaited
          BY <3>2, <3>6
        <4>2. i = Len(saves)
          BY <3>3, <4>1, LastIsOpen
        <4>3. OneSaveAtATime'
          BY <3>1, <3>2, <3>3, <3>4, <4>1, <4>2 DEF OneSaveAtATime
        <4>4. DueIsAwaited'
          BY <3>2, <3>3, <3>4, <4>1 DEF DueIsAwaited, State!Settled
        <4> QED BY <4>3, <4>4
      <3> QED BY <3>5, <3>6
    <2>7. CASE State!Finish
      <3>1. /\ phase = "running" /\ phase' = IF savePromise = 0 THEN "over" ELSE "ending"
            /\ awaited' = savePromise /\ due' = Len(saves)
            /\ UNCHANGED <<saves, savePromise, file, changesOverlapped>>
        BY <2>7 DEF State!Finish
      <3>2. Len(saves) \in Nat
        OBVIOUS
      <3>3. StateTypeOK' /\ ClearedIsSettled'
        BY <3>1, <3>2 DEF State!Settled
      <3>4. ASSUME ~changesOverlapped'
            PROVE  OneSaveAtATime' /\ DueIsAwaited'
        <4>1. OneSaveAtATime
          BY <3>1, <3>4
        <4>2. OneSaveAtATime'
          BY <3>1, <4>1 DEF OneSaveAtATime
        <4>3. CASE savePromise # 0
          <5>1. savePromise = Len(saves) /\ Len(saves) > 0
            BY <4>1, <4>3, PromiseIsLast
          <5> QED BY <3>1, <4>2, <4>3, <5>1 DEF DueIsAwaited
        <4>4. CASE savePromise = 0
          <5>1. Len(saves) > 0 => saves[Len(saves)].cleared
            BY <3>2, <4>1, <4>4 DEF OneSaveAtATime
          <5>2. Len(saves) > 0 => State!Settled(Len(saves))
            BY <3>2, <5>1
          <5> QED BY <3>1, <3>2, <4>2, <4>4, <5>2 DEF DueIsAwaited, State!Settled
        <4> QED BY <4>3, <4>4
      <3> QED BY <3>3, <3>4
    <2>8. CASE State!EndWaiting
      BY <2>8 DEF State!EndWaiting, OneSaveAtATime, DueIsAwaited, State!Settled
    <2>9. CASE State!Dispose
      BY <2>9 DEF State!Dispose, OneSaveAtATime, DueIsAwaited, State!Settled
    <2> QED
      BY <2>1, <2>2, <2>3, <2>4, <2>5, <2>6, <2>7, <2>8, <2>9 DEF State!Next
  <1> QED BY <1>1, <1>2, PTL DEF State!Spec

\* For any number of changes: as long as each change of the state comes after
\* the save of the change before has been cleared, the file has the state of the
\* last change when the command is over, unless a save has failed.
THEOREM SeparateChangesAreSaved == State!Spec => []SeparateChangesAreWritten
  <1>1. StateInv => SeparateChangesAreWritten
    <2> SUFFICES ASSUME StateInv, ~changesOverlapped, phase = "over",
                        \A i \in DOMAIN saves : saves[i].stage # "failed"
                 PROVE  file >= due
      BY DEF SeparateChangesAreWritten, State!SeparateChangesAreWritten, State!SavedWhenOver
    <2>1. saves \in Seq(Save) /\ due \in 0..Len(saves) /\ file \in Nat
      BY DEF StateInv, StateTypeOK
    <2>2. CASE due > 0
      <3>1. due \in 1..Len(saves) /\ due \in DOMAIN saves
        BY <2>1, <2>2
      <3>2. saves[due].stage = "saved"
        BY <2>2, <3>1 DEF StateInv, DueIsAwaited, State!Settled
      <3> QED BY <2>1, <3>1, <3>2 DEF StateInv, OneSaveAtATime
    <2> QED BY <2>1, <2>2
  <1> QED BY <1>1, StateInvHolds, PTL

------------------------------------------------------------------------------
\* ZendeskExport

Elements(s) == {s[i] : i \in 1..Len(s)}

ExportTypeOK ==
    /\ size \in Sizes /\ pageSize \in PageSizes
    /\ records \in 0..Items /\ cursor \in 0..records /\ exportExpected \in 0..records
    /\ list \in Seq(1..Items) /\ queue \in Seq(1..Items)
    /\ shouldEnd \in BOOLEAN

\* At most size callbacks run; when processConcurrently has returned, no callback
\* runs, and the queue is empty or a callback has asked for the end.
BatchOK ==
    /\ IsFiniteSet(running) /\ Cardinality(running) <= size
    /\ (export # "processing" \/ returned # "no") => running = {}
    /\ returned \in {"no", "undefined", "false"}
    /\ returned = "undefined" => queue = <<>>
    /\ returned = "false" => shouldEnd

\* The records up to the cursor are those that were processed and those of the
\* page; a record of the page is in the queue, in its callback, or done.
PageOK ==
    /\ DOMAIN processed \cap Elements(list) = {}
    /\ DOMAIN processed \cup Elements(list) = 1..cursor
    /\ Elements(queue) \cup running \cup done = Elements(list)

\* No record is processed twice, and none is passed over.
ProcessedOK ==
    /\ \A r \in DOMAIN processed : processed[r] = 1
    /\ export = "processing" => PageOK
    /\ export \in {"asking", "true"} => DOMAIN processed = 1..cursor
    /\ ~more => exportExpected <= cursor
    /\ export = "true" => ~more
    /\ export = "false" => shouldEnd

ExportInv == ExportTypeOK /\ BatchOK /\ ProcessedOK

LEMMA ElementsOfSeq ==
    ASSUME NEW S, NEW s \in Seq(S)
    PROVE  Elements(s) \subseteq S
  BY DEF Elements

LEMMA SeqOfMore ==
    ASSUME NEW S, NEW T, S \subseteq T, NEW s \in Seq(S)
    PROVE  s \in Seq(T)
  OBVIOUS

\* A finite set in a sequence, in any order.
LEMMA SetToSeqHasAll ==
    ASSUME NEW S, IsFiniteSet(S)
    PROVE  Export!SetToSeq(S) \in Seq(S) /\ Elements(Export!SetToSeq(S)) = S
  <1> DEFINE n == Cardinality(S)
             s == Export!SetToSeq(S)
  <1>1. n \in Nat /\ ExistsBijection(1..n, S)
    BY FS_CardinalityType
  <1>2. IsFiniteSet(1..n) /\ Cardinality(1..n) = n
    <2> HIDE DEF n
    <2>1. IsFiniteSet(1..n) /\ Cardinality(1..n) = IF 1 > n THEN 0 ELSE n - 1 + 1
      BY <1>1, FS_Interval
    <2> QED BY <1>1, <2>1
  <1>3. Export!Cardinality(S) = n
    BY DEF Export!Cardinality, Cardinality
  <1>4. s = CHOOSE f \in [1..n -> S] : Export!IsInjective(f)
    BY <1>3 DEF Export!SetToSeq
  <1> HIDE DEF n, s
  <1>5. PICK g \in Bijection(1..n, S) : TRUE
    BY <1>1 DEF ExistsBijection
  <1>6. g \in [1..n -> S] /\ Export!IsInjective(g)
    BY <1>5 DEF Bijection, Injection, IsInjective, Export!IsInjective
  <1>7. s \in [1..n -> S] /\ Export!IsInjective(s)
    BY <1>4, <1>6
  <1>8. s \in Injection(1..n, S)
    BY <1>7 DEF Injection, IsInjective, Export!IsInjective
  <1>9. s \in Surjection(1..n, S)
    BY <1>2, <1>8, FS_Injection DEF n
  <1>10. s \in Seq(S) /\ Len(s) = n
    BY <1>1, <1>7
  <1>11. Elements(s) = S
    BY <1>9, <1>10 DEF Surjection, Elements
  <1> QED BY <1>10, <1>11 DEF s

\* What SubSeq leaves of a queue, and what is before it.
LEMMA QueueIsSplit ==
    ASSUME NEW S, NEW q \in Seq(S), NEW n \in 0..Len(q)
    PROVE  /\ SubSeq(q, n + 1, Len(q)) \in Seq(S)
           /\ {q[i] : i \in 1..n} \cup Elements(SubSeq(q, n + 1, Len(q))) = Elements(q)
  <1> DEFINE rest == SubSeq(q, n + 1, Len(q))
             len  == Len(q)
  <1>1. len \in Nat /\ n \in Nat /\ n <= len
    OBVIOUS
  <1>2. /\ rest \in Seq(S) /\ Len(rest) = len - n
        /\ \A i \in 1..len - n : rest[i] = q[n + i]
    <2>1. n + 1 \in Nat \ {0}
      BY <1>1
    <2>2. /\ rest \in Seq(S)
          /\ Len(rest) = IF n + 1 <= len THEN len - (n + 1) + 1 ELSE 0
          /\ \A i \in 1..len - (n + 1) + 1 : rest[i] = q[n + 1 + i - 1]
      BY <1>1, <2>1, SubSeqByIndex
    <2> HIDE DEF rest, len
    <2>3. len - (n + 1) + 1 = len - n
      BY <1>1
    <2>4. \A i \in 1..len - n : n + 1 + i - 1 = n + i
      BY <1>1
    <2> QED BY <1>1, <2>2, <2>3, <2>4
  <1> HIDE DEF rest
  <1>3. ASSUME NEW i \in 1..len
        PROVE  q[i] \in {q[j] : j \in 1..n} \cup Elements(rest)
    <2>1. CASE i <= n
      BY <2>1
    <2>2. CASE ~(i <= n)
      <3>1. i - n \in 1..len - n /\ n + (i - n) = i
        BY <1>1, <2>2
      <3>2. rest[i - n] = q[i]
        BY <1>2, <3>1
      <3> QED BY <1>2, <3>1, <3>2 DEF Elements
    <2> QED BY <2>1, <2>2
  <1>4. ASSUME NEW i \in 1..len - n
        PROVE  rest[i] \in Elements(q)
    <2>1. n + i \in 1..len
      BY <1>1
    <2> QED BY <1>2, <2>1 DEF Elements
  <1>5. {q[i] : i \in 1..n} \subseteq Elements(q)
    BY <1>1 DEF Elements
  <1>6. Elements(rest) \subseteq Elements(q)
    BY <1>2, <1>4 DEF Elements
  <1>7. Elements(q) \subseteq {q[i] : i \in 1..n} \cup Elements(rest)
    BY <1>3 DEF Elements
  <1> QED BY <1>2, <1>5, <1>6, <1>7 DEF rest

\* A batch has no more items than were taken for it.
LEMMA BatchIsSmall ==
    ASSUME NEW q, NEW n \in Nat
    PROVE  IsFiniteSet({q[i] : i \in 1..n}) /\ Cardinality({q[i] : i \in 1..n}) <= n
  <1> DEFINE T == {q[i] : i \in 1..n}
             f == [i \in 1..n |-> q[i]]
  <1>1. f \in Surjection(1..n, T)
    BY DEF Surjection
  <1>2. IsFiniteSet(1..n) /\ Cardinality(1..n) = n
    <2>1. IsFiniteSet(1..n) /\ Cardinality(1..n) = IF 1 > n THEN 0 ELSE n - 1 + 1
      BY FS_Interval
    <2> QED BY <2>1
  <1>3. IsFiniteSet(T) /\ Cardinality(T) <= Cardinality(1..n)
    <2> HIDE DEF T, f
    <2> QED BY <1>1, <1>2, FS_Surjection
  <1> QED BY <1>2, <1>3

\* The next page has the records from the cursor on, and the cursor is moved
\* behind them.
LEMMA NextPage ==
    ASSUME ExportTypeOK
    PROVE  \E m \in Nat : /\ cursor + m <= records
                          /\ Export!Page = (cursor + 1)..(cursor + m)
                          /\ IsFiniteSet(Export!Page) /\ Export!Cardinality(Export!Page) = m
  <1>1. /\ pageSize \in Nat /\ records \in Nat /\ cursor \in Nat /\ cursor <= records
    BY ExportAssumption DEF ExportTypeOK
  <1> DEFINE m == IF cursor + pageSize <= records THEN pageSize ELSE records - cursor
  <1>2. m \in Nat /\ cursor + m <= records
    BY <1>1
  <1>3. Export!Page = (cursor + 1)..(cursor + m)
    BY <1>1 DEF Export!Page
  <1> HIDE DEF m
  <1>4. PICK a \in Int, b \in Int : a = cursor + 1 /\ b = cursor + m
    BY <1>1, <1>2
  <1>5. IsFiniteSet(a..b) /\ Cardinality(a..b) = IF a > b THEN 0 ELSE b - a + 1
    BY FS_Interval
  <1>6. Cardinality(a..b) = m
    BY <1>1, <1>2, <1>4, <1>5
  <1>7. Export!Cardinality(Export!Page) = Cardinality(Export!Page)
    BY DEF Export!Cardinality, Cardinality
  <1> QED BY <1>2, <1>3, <1>4, <1>5, <1>6, <1>7

LEMMA ReceiveKeeps ==
    ASSUME ExportInv, Export!Receive
    PROVE  ExportInv'
  <1>1. PICK m \in Nat : /\ cursor + m <= records
                         /\ Export!Page = (cursor + 1)..(cursor + m)
                         /\ IsFiniteSet(Export!Page) /\ Export!Cardinality(Export!Page) = m
    BY NextPage DEF ExportInv
  <1>2. /\ export = "asking" /\ list' = Export!SetToSeq(Export!Page) /\ queue' = list'
        /\ done' = {} /\ shouldEnd' = FALSE /\ returned' = "no"
        /\ cursor' = cursor + m /\ more' = (cursor' < records) /\ export' = "processing"
        /\ UNCHANGED <<size, running, pageSize, records, exportExpected, processed>>
    BY <1>1 DEF Export!Receive
  <1>3. /\ records \in Nat /\ cursor \in Nat /\ exportExpected \in 0..records /\ records <= Items /\ Items \in Nat
        /\ running = {} /\ DOMAIN processed = 1..cursor
    BY <1>2, ExportAssumption DEF ExportInv, ExportTypeOK, BatchOK, ProcessedOK
  <1>4. list' \in Seq(Export!Page) /\ Elements(list') = Export!Page
    BY <1>1, <1>2, SetToSeqHasAll
  <1>5. Export!Page \subseteq 1..Items
    BY <1>1, <1>3
  <1>6. list' \in Seq(1..Items) /\ queue' \in Seq(1..Items)
    <2>1. list' \in Seq(1..Items)
      BY <1>4, <1>5, SeqOfMore
    <2> QED BY <1>2, <2>1
  <1>7. cursor' \in 0..records
    BY <1>1, <1>2, <1>3
  <1>8. ExportTypeOK'
    <2>1. shouldEnd' \in BOOLEAN
      BY <1>2
    <2>2. /\ size' \in Sizes /\ pageSize' \in PageSizes /\ records' \in 0..Items /\ records' = records
          /\ exportExpected' \in 0..records
      BY <1>2 DEF ExportInv, ExportTypeOK
    <2> QED BY <1>6, <1>7, <2>1, <2>2 DEF ExportTypeOK
  <1>9. BatchOK'
    BY <1>2, <1>3 DEF ExportInv, BatchOK
  <1>10. PageOK'
    <2>1. /\ 1..cursor \cap (cursor + 1)..(cursor + m) = {}
          /\ 1..cursor \cup (cursor + 1)..(cursor + m) = 1..(cursor + m)
      BY <1>3
    <2>2. Elements(list)' = (cursor + 1)..(cursor + m) /\ Elements(queue)' = (cursor + 1)..(cursor + m)
      BY <1>1, <1>2, <1>4
    <2> QED BY <1>2, <1>3, <2>1, <2>2 DEF PageOK
  <1>11. ProcessedOK'
    <2>1. ASSUME ~more' PROVE exportExpected' <= cursor'
      <3>1. ~(cursor' < records)
        BY <1>2, <2>1
      <3>2. exportExpected' = exportExpected
        BY <1>2
      <3> QED BY <1>3, <1>7, <3>1, <3>2
    <2>2. \A r \in DOMAIN processed' : processed'[r] = 1
      BY <1>2 DEF ExportInv, ProcessedOK
    <2> QED BY <1>2, <1>10, <2>1, <2>2 DEF ProcessedOK
  <1> QED BY <1>8, <1>9, <1>11 DEF ExportInv

LEMMA StartBatchKeeps ==
    ASSUME ExportInv, export = "processing", Export!StartBatch,
           UNCHANGED <<pageSize, records, cursor, more, exportExpected, processed, export>>
    PROVE  ExportInv'
  <1> DEFINE n == IF Len(queue) < size THEN Len(queue) ELSE size
             batch == {queue[i] : i \in 1..n}
  <1>1. /\ returned = "no" /\ running = {} /\ queue # <<>> /\ ~shouldEnd
        /\ running' = running \cup (batch \ Falsy) /\ queue' = SubSeq(queue, n + 1, Len(queue))
        /\ UNCHANGED <<size, list, done, shouldEnd, returned>>
    BY DEF Export!StartBatch, Export!BatchSettled
  <1>2. queue \in Seq(1..Items) /\ Len(queue) \in Nat /\ size \in Nat
    BY ExportAssumption DEF ExportInv, ExportTypeOK
  <1>3. n \in 0..Len(queue) /\ n \in Nat /\ n <= size
    BY <1>2
  <1>4. PageOK
    BY DEF ExportInv, ProcessedOK
  <1> HIDE DEF n
  <1>5. queue' \in Seq(1..Items) /\ batch \cup Elements(queue') = Elements(queue)
    BY <1>1, <1>2, <1>3, QueueIsSplit
  <1>6. IsFiniteSet(batch) /\ Cardinality(batch) <= n /\ Cardinality(batch) \in Nat
    BY <1>3, BatchIsSmall, FS_CardinalityType
  <1> HIDE DEF batch
  <1>7. batch \ Falsy = batch
    <2>1. Elements(queue) \subseteq 1..Items
      BY <1>2, ElementsOfSeq
    <2> QED BY <1>5, <2>1, ExportAssumption
  <1>8. running' = batch
    BY <1>1, <1>7
  <1>9. ExportTypeOK'
    BY <1>1, <1>5 DEF ExportInv, ExportTypeOK
  <1>10. BatchOK'
    <2>1. Cardinality(batch) <= size
      BY <1>2, <1>3, <1>6
    <2> QED BY <1>1, <1>6, <1>8, <2>1 DEF BatchOK
  <1>11. PageOK'
    <2>1. Elements(queue)' = Elements(queue') /\ Elements(list)' = Elements(list)
      BY <1>1 DEF Elements
    <2>2. (DOMAIN processed)' = DOMAIN processed /\ cursor' = cursor /\ done' = done
      BY <1>1
    <2> QED BY <1>1, <1>4, <1>5, <1>8, <2>1, <2>2 DEF PageOK
  <1>12. ProcessedOK'
    BY <1>1, <1>11 DEF ExportInv, ProcessedOK
  <1> QED BY <1>9, <1>10, <1>12 DEF ExportInv

LEMMA SettleKeeps ==
    ASSUME ExportInv, export = "processing", NEW item, Export!Settle(item),
           UNCHANGED <<pageSize, records, cursor, more, exportExpected, processed, export>>
    PROVE  ExportInv'
  <1>1. /\ item \in running /\ running' = running \ {item} /\ done' = done \cup {item}
        /\ shouldEnd' \in {shouldEnd, TRUE} /\ UNCHANGED <<size, list, queue, returned>>
    BY DEF Export!Settle
  <1>2. PageOK /\ IsFiniteSet(running) /\ Cardinality(running) <= size /\ size \in Nat /\ returned = "no"
    BY <1>1, ExportAssumption DEF ExportInv, ExportTypeOK, BatchOK, ProcessedOK
  <1>3. IsFiniteSet(running') /\ Cardinality(running') <= size
    <2>1. Cardinality(running) \in Nat
      BY <1>2, FS_CardinalityType
    <2>2. IsFiniteSet(running') /\ Cardinality(running') <= Cardinality(running)
      BY <1>1, <1>2, FS_Subset
    <2>3. Cardinality(running') \in Nat
      BY <2>2, FS_CardinalityType
    <2> QED BY <1>2, <2>1, <2>2, <2>3
  <1>4. ExportTypeOK'
    BY <1>1 DEF ExportInv, ExportTypeOK
  <1>5. BatchOK'
    BY <1>1, <1>2, <1>3 DEF BatchOK
  <1>6. PageOK'
    BY <1>1, <1>2 DEF PageOK, Elements
  <1>7. ProcessedOK'
    BY <1>1, <1>6 DEF ExportInv, ProcessedOK
  <1> QED BY <1>4, <1>5, <1>7 DEF ExportInv

LEMMA ReturnKeeps ==
    ASSUME ExportInv, export = "processing", Export!Return,
           UNCHANGED <<pageSize, records, cursor, more, exportExpected, processed, export>>
    PROVE  ExportInv'
  <1>1. /\ running = {} /\ (queue = <<>> \/ shouldEnd)
        /\ returned' = (IF shouldEnd THEN "false" ELSE "undefined")
        /\ UNCHANGED <<size, list, queue, running, done, shouldEnd>>
    BY DEF Export!Return, Export!BatchSettled
  <1>2. ExportTypeOK'
    BY <1>1 DEF ExportInv, ExportTypeOK
  <1>3. BatchOK'
    BY <1>1 DEF ExportInv, BatchOK
  <1>4. ProcessedOK'
    BY <1>1 DEF ExportInv, ProcessedOK, PageOK, Elements
  <1> QED BY <1>2, <1>3, <1>4 DEF ExportInv

LEMMA PageIsProcessedKeeps ==
    ASSUME ExportInv, Export!PageIsProcessed
    PROVE  ExportInv'
  <1>1. /\ export = "processing" /\ returned # "no"
        /\ processed' = Export!(+)(processed, Export!SetToBag(done))
        /\ export' = IF returned = "false" THEN "false" ELSE IF more THEN "asking" ELSE "true"
        /\ UNCHANGED <<size, list, queue, running, done, shouldEnd, returned>>
        /\ UNCHANGED <<pageSize, records, cursor, more, exportExpected>>
    BY DEF Export!PageIsProcessed, Export!workVars
  <1>2. /\ running = {} /\ PageOK
        /\ returned = "undefined" => queue = <<>>
        /\ returned = "false" => shouldEnd
        /\ returned \in {"undefined", "false"}
    BY <1>1 DEF ExportInv, BatchOK, ProcessedOK
  <1>3. done \subseteq Elements(list) /\ DOMAIN processed \cap done = {}
    BY <1>2 DEF PageOK
  <1>4. processed' = [r \in DOMAIN processed \cup done |->
                        (IF r \in DOMAIN processed THEN processed[r] ELSE 0) + (IF r \in done THEN 1 ELSE 0)]
    BY <1>1 DEF Export!(+), Export!SetToBag
  <1>5. DOMAIN processed' = DOMAIN processed \cup done
    BY <1>4
  <1>6. \A r \in DOMAIN processed' : processed'[r] = 1
    <2>1. \A r \in DOMAIN processed : processed[r] = 1
      BY DEF ExportInv, ProcessedOK
    <2> QED BY <1>3, <1>4, <2>1
  <1>7. returned = "undefined" => DOMAIN processed' = 1..cursor
    <2>1. queue = <<>> => Elements(queue) = {}
      BY DEF Elements
    <2> QED BY <1>2, <1>5, <2>1 DEF PageOK
  <1>8. ExportTypeOK' /\ BatchOK'
    BY <1>1, <1>2 DEF ExportInv, ExportTypeOK, BatchOK
  <1>9. ProcessedOK'
    BY <1>1, <1>2, <1>6, <1>7 DEF ExportInv, ProcessedOK
  <1> QED BY <1>8, <1>9 DEF ExportInv

LEMMA ExportInvHolds == Export!ExportSpec => []ExportInv
  <1>1. Export!ExportInit => ExportInv
    <2> SUFFICES ASSUME Export!ExportInit PROVE ExportInv
      OBVIOUS
    <2>1. /\ size \in Sizes /\ list = <<>> /\ queue = <<>>
          /\ running = {} /\ shouldEnd = FALSE /\ returned = "no"
          /\ pageSize \in PageSizes /\ records \in 0..Items
          /\ cursor = 0 /\ more = TRUE /\ exportExpected = records /\ export = "asking"
      BY DEF Export!ExportInit
    <2>2. DOMAIN processed = {}
      BY DEF Export!ExportInit, Export!EmptyBag, Export!SetToBag
    <2>3. records \in Nat /\ size \in Nat
      BY <2>1, ExportAssumption
    <2>4. ExportTypeOK
      <3>1. list \in Seq(1..Items) /\ queue \in Seq(1..Items)
        BY <2>1
      <3>2. cursor \in 0..records /\ exportExpected \in 0..records
        BY <2>1, <2>3
      <3> QED BY <2>1, <3>1, <3>2 DEF ExportTypeOK
    <2>5. BatchOK
      BY <2>1, <2>3, FS_EmptySet DEF BatchOK
    <2>6. 1..cursor = {}
      BY <2>1
    <2>7. ProcessedOK
      BY <2>1, <2>2, <2>6 DEF ProcessedOK
    <2> QED BY <2>4, <2>5, <2>7 DEF ExportInv
  <1>2. ExportInv /\ [Export!ExportNext]_(Export!exportVars) => ExportInv'
    <2> SUFFICES ASSUME ExportInv, [Export!ExportNext]_(Export!exportVars)
                 PROVE  ExportInv'
      OBVIOUS
    <2>1. CASE UNCHANGED Export!exportVars
      <3>1. /\ UNCHANGED <<size, list, queue, running, done, shouldEnd, returned>>
            /\ UNCHANGED <<pageSize, records, cursor, more, exportExpected, processed, export>>
        BY <2>1 DEF Export!exportVars, Export!workVars
      <3>2. ExportTypeOK' /\ BatchOK'
        BY <3>1 DEF ExportInv, ExportTypeOK, BatchOK
      <3>3. ProcessedOK'
        BY <3>1 DEF ExportInv, ProcessedOK, PageOK, Elements
      <3> QED BY <3>2, <3>3 DEF ExportInv
    <2>2. CASE Export!Add
      <3>1. /\ records < Items /\ records' = records + 1
            /\ UNCHANGED <<size, list, queue, running, done, shouldEnd, returned>>
            /\ UNCHANGED <<pageSize, cursor, more, exportExpected, processed, export>>
        BY <2>2 DEF Export!Add, Export!workVars
      <3>2. ExportTypeOK'
        BY <3>1, ExportAssumption DEF ExportInv, ExportTypeOK
      <3>3. BatchOK' /\ ProcessedOK'
        BY <3>1 DEF ExportInv, BatchOK, ProcessedOK, PageOK, Elements
      <3> QED BY <3>2, <3>3 DEF ExportInv
    <2>3. CASE Export!Reject
      <3>1. /\ export = "asking" /\ export' = "rejected"
            /\ UNCHANGED <<size, list, queue, running, done, shouldEnd, returned>>
            /\ UNCHANGED <<pageSize, records, cursor, more, exportExpected, processed>>
        BY <2>3 DEF Export!Reject, Export!workVars
      <3>2. ExportTypeOK' /\ BatchOK'
        BY <3>1 DEF ExportInv, ExportTypeOK, BatchOK
      <3>3. ProcessedOK'
        BY <3>1 DEF ExportInv, ProcessedOK
      <3> QED BY <3>2, <3>3 DEF ExportInv
    <2>4. CASE Export!Process
      BY <2>4, StartBatchKeeps, SettleKeeps, ReturnKeeps DEF Export!Process, Export!Next
    <2> QED
      BY <2>1, <2>2, <2>3, <2>4, ReceiveKeeps, PageIsProcessedKeeps DEF Export!ExportNext
  <1> QED BY <1>1, <1>2, PTL DEF Export!ExportSpec

\* For any sizes of batches and pages, and however many records are added while
\* it goes on: no more callbacks run at once than were asked for, no record is
\* processed twice, and an export that is complete has passed none over that
\* was there when it began.
THEOREM ExportsAreComplete == Export!ExportSpec => []ExportIsComplete
  <1>1. ExportInv => ExportIsComplete
    <2> SUFFICES ASSUME ExportInv PROVE ExportIsComplete
      OBVIOUS
    <2>1. Export!Cardinality(running) <= size
      BY DEF Export!Cardinality, Cardinality, ExportInv, BatchOK
    <2>2. running # {} => export = "processing" /\ running \subseteq Export!ToSet(list)
      <3>1. Elements(list) = Export!ToSet(list)
        BY DEF ExportInv, ExportTypeOK, Elements, Export!ToSet
      <3> QED BY <3>1 DEF ExportInv, BatchOK, ProcessedOK, PageOK
    <2>3. \A r \in DOMAIN processed : processed[r] = 1
      BY DEF ExportInv, ProcessedOK
    <2>4. ASSUME export = "true" PROVE 1..exportExpected \subseteq DOMAIN processed
      <3>1. DOMAIN processed = 1..cursor /\ exportExpected <= cursor
        BY <2>4 DEF ExportInv, ProcessedOK
      <3>2. exportExpected \in Nat /\ cursor \in Nat
        BY ExportAssumption DEF ExportInv, ExportTypeOK
      <3> QED BY <3>1, <3>2
    <2>5. export = "false" => shouldEnd
      BY DEF ExportInv, ProcessedOK
    <2> QED
      BY <2>1, <2>2, <2>3, <2>4, <2>5 DEF ExportIsComplete, Export!ExportIsComplete, Export!BagToSet
  <1> QED BY <1>1, ExportInvHolds, PTL

------------------------------------------------------------------------------
\* ZendeskRateLimit: how many calls are still to come.

LEMMA TwiceOvertaken ==
    ASSUME NEW n \in Nat
    PROVE  Rate!Overtaken(n) \in Nat /\ 2 * Rate!Overtaken(n) = n * (n + 1)
  <1>1. PICK m \in Nat : n * (n + 1) = 2 * m
    <2>1. PICK k \in Nat : n = 2 * k \/ n = 2 * k + 1
      <3>1. n \div 2 \in Nat /\ (2 * (n \div 2) = n \/ 2 * (n \div 2) + 1 = n)
        OBVIOUS
      <3> QED BY <3>1
    <2>2. CASE n = 2 * k
      <3>1. n * (n + 1) = 2 * (k * (n + 1)) /\ k * (n + 1) \in Nat
        BY <2>2
      <3> QED BY <3>1
    <2>3. CASE n = 2 * k + 1
      <3>1. n * (n + 1) = 2 * (n * (k + 1)) /\ n * (k + 1) \in Nat
        BY <2>3
      <3> QED BY <3>1
    <2> QED BY <2>1, <2>2, <2>3
  <1>2. (2 * m) \div 2 = m
    OBVIOUS
  <1> QED BY <1>1, <1>2 DEF Rate!Overtaken

N == Cardinality(Callers)

\* The requests to come: one by each caller that is free to send, and those that
\* the answers in the hands of others let happen.
ToCome(hand, free) ==
    Cardinality(free) + Cardinality(hand) * (N - Cardinality(hand)) + Rate!Overtaken(Cardinality(hand))

LEMMA CallersByNumber ==
    ASSUME NEW hand \in SUBSET Callers
    PROVE  Cardinality(hand) \in Nat /\ Cardinality(hand) <= N /\ N \in Nat /\ IsFiniteSet(hand)
  BY RateAssumption, FS_Subset, FS_CardinalityType DEF N

LEMMA RemainingCallers ==
    ASSUME NEW hand \in SUBSET Callers
    PROVE  Cardinality(Callers \ hand) = N - Cardinality(hand) /\ IsFiniteSet(Callers \ hand)
  <1>1. Callers \cap hand = hand
    OBVIOUS
  <1>2. IsFiniteSet(Callers \ hand) /\ Cardinality(Callers \ hand) = N - Cardinality(Callers \cap hand)
    BY RateAssumption, FS_Difference DEF N
  <1> QED BY <1>1, <1>2

LEMMA ToComeIsNat ==
    ASSUME NEW hand \in SUBSET Callers, NEW free \in SUBSET Callers
    PROVE  ToCome(hand, free) \in Nat
  <1> DEFINE a == Cardinality(hand)
             t == Rate!Overtaken(a)
  <1>1. a \in Nat /\ N - a \in Nat /\ Cardinality(free) \in Nat /\ t \in Nat
    BY CallersByNumber, TwiceOvertaken
  <1> HIDE DEF a, t
  <1>2. a * (N - a) \in Nat
    BY <1>1
  <1>3. Cardinality(free) + a * (N - a) + t \in Nat
    BY <1>1, <1>2
  <1> QED BY <1>3 DEF ToCome, a, t

LEMMA ToComeGrows ==
    ASSUME NEW hand \in SUBSET Callers, NEW free \in SUBSET Callers, NEW fewer \in SUBSET free
    PROVE  ToCome(hand, fewer) <= ToCome(hand, free)
  <1> DEFINE rest == Cardinality(hand) * (N - Cardinality(hand)) + Rate!Overtaken(Cardinality(hand))
  <1>1. Cardinality(fewer) <= Cardinality(free)
    BY CallersByNumber, FS_Subset
  <1>2. /\ ToCome(hand, fewer) = Cardinality(fewer) + rest /\ ToCome(hand, free) = Cardinality(free) + rest
        /\ Cardinality(fewer) \in Nat /\ Cardinality(free) \in Nat /\ rest \in Nat
    <2>1. ToCome(hand, {}) \in Nat /\ Cardinality({}) = 0
      BY ToComeIsNat, FS_EmptySet
    <2> DEFINE a == Cardinality(hand)
               t == Rate!Overtaken(a)
               p == a * (N - a)
    <2>2. a \in Nat /\ N - a \in Nat /\ Cardinality(free) \in Nat /\ Cardinality(fewer) \in Nat /\ t \in Nat
      BY CallersByNumber, TwiceOvertaken
    <2>3. p \in Nat
      <3> HIDE DEF a
      <3> QED BY <2>2
    <2> HIDE DEF a, t, p
    <2>4. rest = p + t /\ ToCome(hand, fewer) = Cardinality(fewer) + p + t
          /\ ToCome(hand, free) = Cardinality(free) + p + t
      BY DEF ToCome, a, t, p
    <2> QED BY <2>2, <2>3, <2>4
  <1> HIDE DEF rest
  <1> QED BY <1>1, <1>2

LEMMA ToComeAfterOne ==
    ASSUME NEW hand \in SUBSET Callers, NEW free \in SUBSET Callers, NEW c \in free
    PROVE  ToCome(hand, free \ {c}) = ToCome(hand, free) - 1
  <1> DEFINE a == Cardinality(hand)
             t == Rate!Overtaken(a)
             p == a * (N - a)
  <1>1. a \in Nat /\ N - a \in Nat /\ Cardinality(free) \in Nat /\ t \in Nat
    BY CallersByNumber, TwiceOvertaken
  <1>2. p \in Nat
    <2> HIDE DEF a
    <2> QED BY <1>1
  <1>3. Cardinality(free \ {c}) = Cardinality(free) - 1
    BY CallersByNumber, FS_RemoveElement
  <1>4. /\ ToCome(hand, free \ {c}) = Cardinality(free \ {c}) + p + t
        /\ ToCome(hand, free) = Cardinality(free) + p + t
    BY DEF ToCome
  <1> HIDE DEF a, t, p
  <1> QED BY <1>1, <1>2, <1>3, <1>4

\* However the callers are divided, no more than Overtaken(N) are to come.
LEMMA ToComeIsBounded ==
    ASSUME NEW hand \in SUBSET Callers, NEW free \in SUBSET (Callers \ hand)
    PROVE  ToCome(hand, free) <= Rate!Overtaken(N)
  <1> DEFINE a == Cardinality(hand)
             b == Cardinality(free)
             m == N - a
             p == a * m
             t == Rate!Overtaken(a)
  <1>1. a \in Nat /\ m \in Nat /\ b \in Nat /\ N \in Nat /\ N = a + m
    BY CallersByNumber
  <1>2. b <= m
    <2>1. Cardinality(Callers \ hand) = N - a /\ IsFiniteSet(Callers \ hand)
      BY RemainingCallers
    <2> QED BY <2>1, FS_Subset
  <1>3. ToCome(hand, free) = b + p + t
    BY DEF ToCome
  <1>4. t \in Nat /\ 2 * t = a * (a + 1)
    BY <1>1, TwiceOvertaken
  <1>5. Rate!Overtaken(N) \in Nat /\ 2 * Rate!Overtaken(N) = N * (N + 1)
    BY <1>1, TwiceOvertaken
  <1> HIDE DEF a, b, m, t
  <1>6. N * (N + 1) = a * (a + 1) + 2 * p + m * m + m
    BY <1>1
  <1>7. p \in Nat /\ m * m >= m /\ m * m \in Nat
    BY <1>1
  <1> HIDE DEF p
  <1> QED BY <1>1, <1>2, <1>3, <1>4, <1>5, <1>6, <1>7

\* One of the answers in hand is told: at most all the others are free then.
LEMMA ToComeAfterTold ==
    ASSUME NEW hand \in SUBSET Callers, NEW free \in SUBSET Callers, NEW c \in hand,
           NEW now \in SUBSET (Callers \ (hand \ {c}))
    PROVE  ToCome(hand \ {c}, now) <= ToCome(hand, free)
  <1> DEFINE a == Cardinality(hand)
             rest == hand \ {c}
             m == N - a
  <1>1. a \in Nat /\ m \in Nat /\ N \in Nat /\ Cardinality(free) \in Nat
    BY CallersByNumber
  <1>2. Cardinality(rest) = a - 1 /\ Cardinality(rest) \in Nat
    BY CallersByNumber, FS_RemoveElement
  <1>3. Cardinality(now) \in Nat /\ Cardinality(now) <= m + 1
    <2>1. Cardinality(Callers \ rest) = N - Cardinality(rest) /\ IsFiniteSet(Callers \ rest)
      BY RemainingCallers
    <2>2. Cardinality(now) <= Cardinality(Callers \ rest)
      BY <2>1, FS_Subset
    <2>3. Cardinality(now) \in Nat
      BY CallersByNumber
    <2> HIDE DEF rest
    <2> QED BY <1>1, <1>2, <2>1, <2>2, <2>3
  <1>4. PICK s \in Nat : s = Rate!Overtaken(a - 1) /\ 2 * s = (a - 1) * a
    <2>1. a - 1 \in Nat
      BY <1>1, <1>2
    <2>2. Rate!Overtaken(a - 1) \in Nat /\ 2 * Rate!Overtaken(a - 1) = (a - 1) * (a - 1 + 1)
      BY <2>1, TwiceOvertaken
    <2>3. a - 1 + 1 = a
      BY <1>1
    <2> QED BY <2>2, <2>3
  <1>5. PICK t \in Nat : t = Rate!Overtaken(a) /\ 2 * t = a * (a + 1)
    BY <1>1, TwiceOvertaken
  <1>6. ToCome(hand, free) = Cardinality(free) + a * m + t
    BY <1>5 DEF ToCome
  <1>7. ToCome(rest, now) = Cardinality(now) + (a - 1) * (m + 1) + s
    <2>1. N - (a - 1) = m + 1
      BY <1>1
    <2>2. ToCome(rest, now) = Cardinality(now) + Cardinality(rest) * (N - Cardinality(rest))
                              + Rate!Overtaken(Cardinality(rest))
      BY DEF ToCome
    <2> HIDE DEF rest, a, m
    <2> QED BY <1>2, <1>4, <2>1, <2>2
  <1> HIDE DEF a, m, rest
  <1>8. (a - 1) * (m + 1) = a * m + a - m - 1 /\ (a - 1) * a = a * a - a /\ a * (a + 1) = a * a + a
    BY <1>1
  <1>9. a * m \in Nat /\ a * a \in Nat
    BY <1>1
  <1>10. t = s + a
    <2>1. PICK q \in Nat : q = a * a
      BY <1>9
    <2>2. 2 * s = q - a /\ 2 * t = q + a
      BY <1>4, <1>5, <1>8, <2>1
    <2> QED BY <1>1, <2>2
  <1>11. ToCome(rest, now) <= ToCome(hand, free)
    BY <1>1, <1>3, <1>6, <1>7, <1>8, <1>9, <1>10
  <1> QED BY <1>11 DEF rest

------------------------------------------------------------------------------
\* ZendeskRateLimit: the reserve

Answers == [left : Nat, window : Nat]

RateTypeOK ==
    /\ window \in Nat /\ left \in Nat /\ pages \in Nat
    /\ known \in Answers
    /\ caller \in [Callers -> [at : {"idle", "waiting", "sent", "answered"}, answer : Answers]]

\* An answer that does not hold the check back.
Permissive(answer) == answer.window < window \/ answer.left > Reserve

InHand == {c \in Callers : caller[c].at = "answered" /\ Permissive(caller[c].answer)}

MaySend(c) ==
    \/ caller[c].at = "sent"
    \/ caller[c].at = "waiting" /\ caller[c].answer.window < window
    \/ caller[c].at = "idle" /\ Permissive(known)

Free == {c \in Callers : MaySend(c)}

\* What is left of the window, less the requests that may come without the
\* check being asked again, is not below the reserve by as much as Overtaken.
EnoughIsLeft == Reserve + ToCome(InHand, Free) < left + pages + Rate!Overtaken(N)

\* Nothing is known of windows to come.
NothingOfTheFuture ==
    known.window <= window /\ \A c \in Callers : caller[c].answer.window <= window

RateInv == RateTypeOK /\ NothingOfTheFuture /\ EnoughIsLeft

\* More is left than the reserve: no more than Overtaken are to come.
LEMMA FreshStart ==
    ASSUME NEW hand \in SUBSET Callers, NEW free \in SUBSET (Callers \ hand), NEW rest \in Nat, rest > Reserve
    PROVE  Reserve + ToCome(hand, free) < rest + Rate!Overtaken(N)
  <1>1. ToCome(hand, free) <= Rate!Overtaken(N)
    BY ToComeIsBounded
  <1>2. ToCome(hand, free) \in Nat /\ Rate!Overtaken(N) \in Nat /\ Reserve \in Nat
    BY ToComeIsNat, CallersByNumber, TwiceOvertaken, RateAssumption
  <1> QED BY <1>1, <1>2

\* Nothing is sent, and no more requests are to come than before.
LEMMA NoMoreToCome ==
    ASSUME RateTypeOK, EnoughIsLeft, RateTypeOK', left' + pages' = left + pages,
           ToCome(InHand', Free') <= ToCome(InHand, Free)
    PROVE  EnoughIsLeft'
  <1>1. InHand \in SUBSET Callers /\ Free \in SUBSET Callers /\ InHand' \in SUBSET Callers /\ Free' \in SUBSET Callers
    BY DEF InHand, Free
  <1>2. PICK before \in Nat : before = ToCome(InHand, Free)
    BY <1>1, ToComeIsNat
  <1>3. PICK after \in Nat : after = ToCome(InHand', Free')
    BY <1>1, ToComeIsNat
  <1>4. PICK t \in Nat : t = Rate!Overtaken(N)
    BY CallersByNumber, TwiceOvertaken
  <1>5. PICK rest \in Nat : rest = left + pages
    BY DEF RateTypeOK
  <1>6. Reserve \in Nat /\ Reserve + before < rest + t /\ after <= before
    BY <1>2, <1>3, <1>4, <1>5, RateAssumption DEF EnoughIsLeft
  <1>7. Reserve + after < rest + t
    BY <1>6
  <1> QED BY <1>3, <1>4, <1>5, <1>7 DEF EnoughIsLeft

\* A caller goes on.
LEMMA CallerGoesOn ==
    ASSUME RateTypeOK, NEW c \in Callers,
           NEW at \in {"idle", "waiting", "sent", "answered"}, NEW answer \in Answers,
           caller' = [caller EXCEPT ![c] = Rate!Caller(at, answer)]
    PROVE  /\ caller' \in [Callers -> [at : {"idle", "waiting", "sent", "answered"}, answer : Answers]]
           /\ caller'[c].at = at /\ caller'[c].answer = answer
           /\ \A d \in Callers : d # c => caller'[d] = caller[d]
  BY DEF RateTypeOK, Rate!Caller

LEMMA CallerTurns ==
    ASSUME RateTypeOK, NEW c \in Callers, NEW at \in {"idle", "waiting", "sent", "answered"},
           caller' = [caller EXCEPT ![c].at = at]
    PROVE  caller' = [caller EXCEPT ![c] = Rate!Caller(at, caller[c].answer)]
  <1>1. [caller[c] EXCEPT !.at = at] = Rate!Caller(at, caller[c].answer)
    BY DEF RateTypeOK, Rate!Caller
  <1> QED BY <1>1

\* A step that lets nobody send anew and takes no answer in hand.
LEMMA CallersOnlyWait ==
    ASSUME RateTypeOK, EnoughIsLeft, RateTypeOK', left' + pages' = left + pages,
           InHand' = InHand, Free' \subseteq Free
    PROVE  EnoughIsLeft'
  <1>1. InHand \in SUBSET Callers /\ Free \in SUBSET Callers
    BY DEF InHand, Free
  <1>2. ToCome(InHand', Free') <= ToCome(InHand, Free)
    BY <1>1, ToComeGrows
  <1> QED BY <1>2, NoMoreToCome

LEMMA CheckKeeps ==
    ASSUME RateInv, NEW c \in Callers, Rate!_rateLimitCheck(c)
    PROVE  RateInv'
  <1>1. PICK isOver \in {FALSE, known.window < window} :
           caller' = [caller EXCEPT ![c] =
               Rate!Caller(IF Rate!ReserveTouched /\ ~isOver THEN "waiting" ELSE "sent", known)]
    BY DEF Rate!_rateLimitCheck
  <1> DEFINE at == IF Rate!ReserveTouched /\ ~isOver THEN "waiting" ELSE "sent"
  <1>2. caller[c].at = "idle" /\ UNCHANGED <<window, left, pages, known>>
    BY DEF Rate!_rateLimitCheck
  <1>3. at \in {"idle", "waiting", "sent", "answered"} /\ at # "answered" /\ at # "idle"
    OBVIOUS
  <1>4. known \in Answers /\ caller' = [caller EXCEPT ![c] = Rate!Caller(at, known)]
    BY <1>1 DEF RateInv, RateTypeOK
  <1>5. at = "sent" => Permissive(known)
    <2>1. known.left \in Nat /\ Reserve \in Nat
      BY <1>4, RateAssumption DEF Answers
    <2>2. CASE isOver
      BY <2>2 DEF Permissive
    <2>3. CASE ~isOver
      BY <2>1, <2>3 DEF Rate!ReserveTouched, Permissive
    <2> QED BY <2>2, <2>3
  <1> HIDE DEF at
  <1>6. /\ caller' \in [Callers -> [at : {"idle", "waiting", "sent", "answered"}, answer : Answers]]
        /\ caller'[c].at = at /\ caller'[c].answer = known
        /\ \A d \in Callers : d # c => caller'[d] = caller[d]
    BY <1>3, <1>4, CallerGoesOn DEF RateInv
  <1>7. RateTypeOK' /\ NothingOfTheFuture'
    BY <1>2, <1>6 DEF RateInv, RateTypeOK, NothingOfTheFuture
  <1>8. InHand' = InHand
    BY <1>2, <1>3, <1>6 DEF InHand, Permissive
  <1>9. Free' \subseteq Free
    BY <1>2, <1>3, <1>5, <1>6 DEF Free, MaySend, Permissive
  <1> QED BY <1>2, <1>7, <1>8, <1>9, CallersOnlyWait DEF RateInv

LEMMA WaitEndsKeeps ==
    ASSUME RateInv, NEW c \in Callers, Rate!WaitEnds(c)
    PROVE  RateInv'
  <1>1. /\ caller[c].at = "waiting" /\ caller[c].answer.window < window
        /\ caller' = [caller EXCEPT ![c].at = "sent"] /\ UNCHANGED <<window, left, pages, known>>
    BY DEF Rate!WaitEnds
  <1>2. caller[c].answer \in Answers /\ caller' = [caller EXCEPT ![c] = Rate!Caller("sent", caller[c].answer)]
    BY <1>1, CallerTurns DEF RateInv, RateTypeOK
  <1>3. /\ caller' \in [Callers -> [at : {"idle", "waiting", "sent", "answered"}, answer : Answers]]
        /\ caller'[c].at = "sent" /\ caller'[c].answer = caller[c].answer
        /\ \A d \in Callers : d # c => caller'[d] = caller[d]
    BY <1>2, CallerGoesOn DEF RateInv
  <1>4. RateTypeOK' /\ NothingOfTheFuture'
    BY <1>1, <1>3 DEF RateInv, RateTypeOK, NothingOfTheFuture
  <1>5. InHand' = InHand
    BY <1>1, <1>3 DEF InHand, Permissive
  <1>6. Free' \subseteq Free
    BY <1>1, <1>3 DEF Free, MaySend, Permissive
  <1> QED BY <1>1, <1>4, <1>5, <1>6, CallersOnlyWait DEF RateInv

\* An answer that shows enough makes a fresh start; any other uses up one of the
\* requests that were to come.
LEMMA ServeKeeps ==
    ASSUME RateInv, NEW c \in Callers, Rate!Serve(c)
    PROVE  RateInv'
  <1> DEFINE answer == [Rate!Answer EXCEPT !.left = left - 1]
  <1>1. /\ caller[c].at = "sent" /\ left > 0 /\ left' = left - 1
        /\ caller' = [caller EXCEPT ![c] = Rate!Caller("answered", answer)]
        /\ UNCHANGED <<window, pages, known>>
    BY DEF Rate!Serve
  <1>2. left \in Nat /\ left' \in Nat /\ pages \in Nat /\ window \in Nat /\ Reserve \in Nat
    BY <1>1, RateAssumption DEF RateInv, RateTypeOK
  <1>3. answer \in Answers /\ answer.left = left' /\ answer.window = window
    BY <1>1, <1>2 DEF Rate!Answer, Answers
  <1> HIDE DEF answer
  <1>4. /\ caller' \in [Callers -> [at : {"idle", "waiting", "sent", "answered"}, answer : Answers]]
        /\ caller'[c].at = "answered" /\ caller'[c].answer = answer
        /\ \A d \in Callers : d # c => caller'[d] = caller[d]
    BY <1>1, <1>3, CallerGoesOn DEF RateInv
  <1>5. RateTypeOK' /\ NothingOfTheFuture'
    BY <1>1, <1>2, <1>3, <1>4 DEF RateInv, RateTypeOK, NothingOfTheFuture
  <1>6. CASE left' > Reserve
    <2>1. left' + pages' \in Nat /\ left' + pages' > Reserve
      BY <1>1, <1>2, <1>6
    <2>2. InHand' \in SUBSET Callers /\ Free' \in SUBSET (Callers \ InHand')
      BY DEF InHand, Free, MaySend
    <2>3. EnoughIsLeft'
      BY <2>1, <2>2, FreshStart DEF EnoughIsLeft
    <2> QED BY <1>5, <2>3 DEF RateInv
  <1>7. CASE ~(left' > Reserve)
    <2>1. ~Permissive(answer)
      BY <1>2, <1>3, <1>7 DEF Permissive
    <2>2. InHand' = InHand
      BY <1>1, <1>4, <2>1 DEF InHand, Permissive
    <2>3. c \in Free /\ Free' = Free \ {c}
      BY <1>1, <1>4 DEF Free, MaySend, Permissive
    <2>4. InHand \in SUBSET Callers /\ Free \in SUBSET Callers
      BY DEF InHand, Free
    <2>5. ToCome(InHand', Free') = ToCome(InHand, Free) - 1 /\ ToCome(InHand, Free) \in Nat
      BY <2>2, <2>3, <2>4, ToComeAfterOne, ToComeIsNat
    <2>6. Rate!Overtaken(N) \in Nat
      BY CallersByNumber, TwiceOvertaken
    <2>7. Reserve + ToCome(InHand, Free) < left + pages + Rate!Overtaken(N)
      BY DEF RateInv, EnoughIsLeft
    <2>8. Reserve + ToCome(InHand', Free') < left' + pages' + Rate!Overtaken(N)
      BY <1>1, <1>2, <2>5, <2>6, <2>7
    <2> QED BY <1>5, <2>8 DEF RateInv, EnoughIsLeft
  <1> QED BY <1>6, <1>7

LEMMA ToldKeeps ==
    ASSUME RateInv, NEW c \in Callers, Rate!_updateRateLimit(c)
    PROVE  RateInv'
  <1>1. /\ caller[c].at = "answered" /\ known' = caller[c].answer
        /\ caller' = [caller EXCEPT ![c].at = "idle"] /\ UNCHANGED <<window, left, pages>>
    BY DEF Rate!_updateRateLimit
  <1>2. caller[c].answer \in Answers /\ caller' = [caller EXCEPT ![c] = Rate!Caller("idle", caller[c].answer)]
    BY <1>1, CallerTurns DEF RateInv, RateTypeOK
  <1>3. /\ caller' \in [Callers -> [at : {"idle", "waiting", "sent", "answered"}, answer : Answers]]
        /\ caller'[c].at = "idle" /\ caller'[c].answer = caller[c].answer
        /\ \A d \in Callers : d # c => caller'[d] = caller[d]
    BY <1>2, CallerGoesOn DEF RateInv
  <1>4. RateTypeOK' /\ NothingOfTheFuture'
    BY <1>1, <1>2, <1>3 DEF RateInv, RateTypeOK, NothingOfTheFuture
  <1>5. InHand' = InHand \ {c}
    BY <1>1, <1>3 DEF InHand, Permissive
  <1>6. CASE c \in InHand
    <2>1. InHand \in SUBSET Callers /\ Free \in SUBSET Callers /\ Free' \in SUBSET (Callers \ InHand')
      BY DEF InHand, Free, MaySend
    <2>2. ToCome(InHand', Free') <= ToCome(InHand, Free)
      BY <1>5, <1>6, <2>1, ToComeAfterTold
    <2> QED BY <1>1, <1>4, <2>2, NoMoreToCome DEF RateInv
  <1>7. CASE c \notin InHand
    <2>1. ~Permissive(known)'
      BY <1>1, <1>7 DEF InHand, Permissive
    <2>2. Free' \subseteq Free
      BY <1>1, <1>3, <2>1 DEF Free, MaySend, Permissive
    <2> QED BY <1>1, <1>4, <1>5, <1>7, <2>2, CallersOnlyWait DEF RateInv
  <1> QED BY <1>6, <1>7

LEMMA RateInvHolds == Rate!RateSpec => []RateInv
  <1> DEFINE rate == <<window, left, pages, known, caller>>
  <1>1. Rate!RateInit => RateInv
    <2> SUFFICES ASSUME Rate!RateInit PROVE RateInv
      OBVIOUS
    <2>1. /\ window = 1 /\ left = Limit /\ pages = 0 /\ known = Rate!Answer
          /\ caller = [c \in Callers |-> Rate!Caller("idle", Rate!Answer)]
      BY DEF Rate!RateInit
    <2>2. known \in Answers /\ known.window = 1
      BY <2>1, RateAssumption DEF Rate!Answer, Answers
    <2>3. RateTypeOK /\ NothingOfTheFuture
      BY <2>1, <2>2, RateAssumption DEF RateTypeOK, NothingOfTheFuture, Rate!Caller
    <2>4. left + pages \in Nat /\ left + pages > Reserve
      BY <2>1, RateAssumption
    <2>5. InHand \in SUBSET Callers /\ Free \in SUBSET (Callers \ InHand)
      BY DEF InHand, Free, MaySend
    <2>6. EnoughIsLeft
      BY <2>4, <2>5, FreshStart DEF EnoughIsLeft
    <2> QED BY <2>3, <2>6 DEF RateInv
  <1>2. RateInv /\ [Rate!RateNext]_rate => RateInv'
    <2> SUFFICES ASSUME RateInv, [Rate!RateNext]_rate
                 PROVE  RateInv'
      OBVIOUS
    <2>1. CASE UNCHANGED rate
      BY <2>1 DEF RateInv, RateTypeOK, NothingOfTheFuture, EnoughIsLeft, InHand, Free, MaySend, Permissive
    <2>2. CASE Rate!RequestPage
      <3>1. /\ left > 0 /\ pages' = pages + 1 /\ left' = left - 1 /\ UNCHANGED <<window, known, caller>>
            /\ left \in Nat /\ pages \in Nat
        BY <2>2 DEF Rate!RequestPage, RateInv, RateTypeOK
      <3>2. RateTypeOK' /\ NothingOfTheFuture'
        BY <3>1 DEF RateInv, RateTypeOK, NothingOfTheFuture
      <3>3. InHand' = InHand /\ Free' = Free
        BY <3>1 DEF InHand, Free, MaySend, Permissive
      <3>4. left' + pages' = left + pages
        BY <3>1
      <3> QED BY <3>2, <3>3, <3>4, CallersOnlyWait DEF RateInv
    <2>3. CASE Rate!NextWindow
      <3>1. window' = window + 1 /\ left' = Limit /\ pages' = 0 /\ UNCHANGED <<known, caller>>
        BY <2>3 DEF Rate!NextWindow
      <3>2. /\ window \in Nat /\ known.window \in Nat
            /\ \A c \in Callers : caller[c].answer.window \in Nat
        BY DEF RateInv, RateTypeOK, Answers
      <3>3. RateTypeOK' /\ NothingOfTheFuture'
        BY <3>1, <3>2, RateAssumption DEF RateInv, RateTypeOK, NothingOfTheFuture
      <3>4. left' + pages' \in Nat /\ left' + pages' > Reserve
        BY <3>1, RateAssumption
      <3>5. InHand' \in SUBSET Callers /\ Free' \in SUBSET (Callers \ InHand')
        BY DEF InHand, Free, MaySend
      <3>6. EnoughIsLeft'
        BY <3>4, <3>5, FreshStart DEF EnoughIsLeft
      <3> QED BY <3>3, <3>6 DEF RateInv
    <2> QED
      BY <2>1, <2>2, <2>3, CheckKeeps, WaitEndsKeeps, ServeKeeps, ToldKeeps DEF Rate!RateNext
  <1> QED BY <1>1, <1>2, PTL DEF Rate!RateSpec

\* For any number of callers, limit and reserve below it: however the answers
\* overtake each other and windows pass, no more of the reserve is used than by
\* the requests of pages and fewer than Overtaken(n) checked calls of n callers.
THEOREM ReserveStaysKept == Rate!RateSpec => []ReserveIsKept
  <1>1. RateInv => ReserveIsKept
    <2> SUFFICES ASSUME RateInv PROVE ReserveIsKept
      OBVIOUS
    <2>1. Reserve + ToCome(InHand, Free) < left + pages + Rate!Overtaken(N)
      BY DEF RateInv, EnoughIsLeft
    <2>2. ToCome(InHand, Free) \in Nat
      BY ToComeIsNat DEF InHand, Free
    <2>3. Rate!Overtaken(N) \in Nat /\ left \in Nat /\ pages \in Nat /\ Reserve \in Nat
      BY CallersByNumber, TwiceOvertaken, RateAssumption DEF RateInv, RateTypeOK
    <2>4. left + pages + Rate!Overtaken(N) > Reserve
      BY <2>1, <2>2, <2>3
    <2>5. Rate!Cardinality(Callers) = N
      BY DEF Rate!Cardinality, Cardinality, N
    <2> QED BY <2>4, <2>5 DEF ReserveIsKept, Rate!ReserveIsKept
  <1> QED BY <1>1, RateInvHolds, PTL

------------------------------------------------------------------------------
\* TransactionList

\* Of natural numbers that are bounded, one is the greatest.
LEMMA GreatestNatural ==
    ASSUME NEW S, S \subseteq Nat, S # {}, NEW b \in Nat, \A s \in S : s <= b
    PROVE  \E m \in S : \A s \in S : m >= s
  <1> DEFINE I == {b + 1 - s : s \in S}
  <1>1. I \subseteq Nat \ {0} /\ I # {}
    <2>1. \A s \in S : b + 1 - s \in Nat \ {0}
      OBVIOUS
    <2> QED BY <2>1
  <1>2. PICK n \in I : \A i \in I : n <= i
    <2> HIDE DEF I
    <2> QED BY <1>1, LeastNatural
  <1>3. PICK m \in S : n = b + 1 - m
    OBVIOUS
  <1>4. \A s \in S : b + 1 - s \in I
    OBVIOUS
  <1>5. ASSUME NEW s \in S PROVE m >= s
    <2>1. b + 1 - m <= b + 1 - s
      BY <1>2, <1>3, <1>4
    <2>2. m \in Nat /\ s \in Nat
      OBVIOUS
    <2> HIDE DEF I
    <2> QED BY <2>1, <2>2
  <1> QED BY <1>5

\* What is in the list is in the range, was booked, and was there once.
ListOK ==
    \A t \in DOMAIN fullList :
        /\ t \in account /\ fullList[t] = 1
        /\ Transactions!Time(t) \in From..To /\ Transactions!Time(t) < fromTimestamp

Due(t) == ~Transactions!Shared(t) /\ Transactions!Time(t) \in From..To

\* The list has all that is before the next page.
ListedSoFar == \A t \in expected : Due(t) /\ Transactions!Time(t) < fromTimestamp => t \in DOMAIN fullList

ListedInTheEnd == finished => \A t \in expected : Due(t) => t \in DOMAIN fullList

ListTypeOK ==
    /\ account \in SUBSET Booked /\ expected \in SUBSET account
    /\ bufferSize \in BufferSizes
    /\ fromTimestamp \in Nat /\ From <= fromTimestamp

ListInv == ListTypeOK /\ ListOK /\ ListedSoFar /\ ListedInTheEnd

LEMMA TimeIsNat == \A t \in Booked : Transactions!Time(t) \in Nat
  BY TransactionsAssumption DEF Transactions!Time

\* The next page starts after the last transaction that was kept.
LEMMA NextFromIsAfter ==
    ASSUME ListTypeOK, NEW kept \in SUBSET Booked, \A t \in kept : Transactions!Time(t) <= To
    PROVE  /\ Transactions!NextFrom(kept) \in Nat
           /\ fromTimestamp <= Transactions!NextFrom(kept)
           /\ \A t \in kept : Transactions!Time(t) < Transactions!NextFrom(kept)
           /\ \/ Transactions!NextFrom(kept) = fromTimestamp
              \/ \E u \in kept : Transactions!NextFrom(kept) = Transactions!Time(u) + 1
  <1> DEFINE S == {fromTimestamp} \cup {Transactions!Time(t) + 1 : t \in kept}
             b == fromTimestamp + To + 1
  <1>1. \A t \in kept : Transactions!Time(t) \in Nat
    BY TimeIsNat
  <1>2. fromTimestamp \in Nat /\ To \in Nat /\ b \in Nat
    BY TransactionsAssumption DEF ListTypeOK
  <1>3. S \subseteq Nat /\ S # {} /\ \A s \in S : s <= b
    BY <1>1, <1>2
  <1> DEFINE next == Transactions!NextFrom(kept)
  <1>4. next \in S /\ \A s \in S : next >= s
    <2>1. \E m \in S : \A s \in S : m >= s
      <3> HIDE DEF S, b
      <3> QED BY <1>2, <1>3, GreatestNatural
    <2>2. next = CHOOSE m \in S : \A s \in S : m >= s
      BY DEF Transactions!NextFrom, Transactions!Max
    <2> HIDE DEF S, next
    <2> QED BY <2>1, <2>2
  <1>5. next \in Nat /\ next >= fromTimestamp
    BY <1>3, <1>4
  <1>6. \A t \in kept : next >= Transactions!Time(t) + 1
    BY <1>4
  <1>7. next = fromTimestamp \/ \E u \in kept : next = Transactions!Time(u) + 1
    BY <1>4
  <1> HIDE DEF next
  <1>8. fromTimestamp <= next /\ \A t \in kept : Transactions!Time(t) < next
    BY <1>1, <1>2, <1>5, <1>6
  <1> QED BY <1>5, <1>7, <1>8 DEF next

\* A page is empty only when there is nothing more.
LEMMA EmptyPageIsLast ==
    ASSUME ListTypeOK, Transactions!Page({})
    PROVE  \A t \in account : ~(Transactions!Time(t) >= fromTimestamp)
  <1> DEFINE later == {t \in account : Transactions!Time(t) >= fromTimestamp}
             n == Cardinality(later)
  <1>1. IsFiniteSet(later) /\ n \in Nat
    BY TransactionsAssumption, FS_Subset, FS_CardinalityType DEF ListTypeOK
  <1>2. 0 = Transactions!Min({bufferSize, n})
    <2>1. Transactions!Cardinality({}) = Transactions!Min({bufferSize, Transactions!Cardinality(later)})
      BY DEF Transactions!Page
    <2>2. \A S : Transactions!Cardinality(S) = Cardinality(S)
      BY DEF Transactions!Cardinality, Cardinality
    <2> HIDE DEF later
    <2> QED BY <2>1, <2>2, FS_EmptySet
  <1>3. bufferSize \in Nat \ {0}
    BY TransactionsAssumption DEF ListTypeOK
  <1> HIDE DEF n
  <1>4. Transactions!Min({bufferSize, n}) \in {bufferSize, n}
    <2>1. \E x \in {bufferSize, n} : \A y \in {bufferSize, n} : x <= y
      <3>1. bufferSize <= n \/ n <= bufferSize
        BY <1>1, <1>3
      <3>2. bufferSize <= bufferSize /\ n <= n
        BY <1>1, <1>3
      <3> QED BY <3>1, <3>2
    <2> QED BY <2>1 DEF Transactions!Min
  <1>5. n = 0
    BY <1>2, <1>3, <1>4
  <1> QED BY <1>1, <1>5, FS_EmptySet DEF n

\* The list after a page.
LEMMA PageIsAdded ==
    ASSUME ListInv, NEW page \in SUBSET account, Transactions!FetchPage(page)
    PROVE  LET kept == {t \in page : Transactions!Time(t) <= To} IN
           /\ DOMAIN fullList' = DOMAIN fullList \cup kept
           /\ \A t \in DOMAIN fullList' : fullList'[t] = 1
           /\ fromTimestamp' = Transactions!NextFrom(kept)
           /\ finished' = (kept # page \/ Transactions!NextFrom(kept) = fromTimestamp)
           /\ Transactions!Page(page) /\ UNCHANGED <<account, expected, bufferSize>>
           /\ \A t \in page : Transactions!Time(t) \in Nat /\ Transactions!Time(t) >= fromTimestamp
  <1> DEFINE kept == {t \in page : Transactions!Time(t) <= To}
  <1>1. /\ Transactions!Page(page)
        /\ fullList' = Transactions!(+)(fullList, Transactions!SetToBag(kept))
        /\ fromTimestamp' = Transactions!NextFrom(kept)
        /\ finished' = (kept # page \/ Transactions!NextFrom(kept) = fromTimestamp)
        /\ UNCHANGED <<account, expected, bufferSize>>
    BY DEF Transactions!FetchPage
  <1>2. \A t \in page : Transactions!Time(t) \in Nat /\ Transactions!Time(t) >= fromTimestamp
    BY <1>1, TimeIsNat DEF Transactions!Page, ListInv, ListTypeOK
  <1>3. \A t \in DOMAIN fullList : fullList[t] = 1 /\ t \notin kept
    <2>1. \A t \in DOMAIN fullList : /\ fullList[t] = 1 /\ t \in Booked
                                    /\ Transactions!Time(t) < fromTimestamp
      BY DEF ListInv, ListOK, ListTypeOK
    <2>2. fromTimestamp \in Nat
      BY DEF ListInv, ListTypeOK
    <2> QED BY <1>2, <2>1, <2>2, TimeIsNat
  <1> HIDE DEF kept
  <1>4. fullList' = [t \in DOMAIN fullList \cup kept |->
                        (IF t \in DOMAIN fullList THEN fullList[t] ELSE 0) + (IF t \in kept THEN 1 ELSE 0)]
    BY <1>1 DEF Transactions!(+), Transactions!SetToBag
  <1>5. DOMAIN fullList' = DOMAIN fullList \cup kept /\ \A t \in DOMAIN fullList' : fullList'[t] = 1
    BY <1>3, <1>4
  <1> QED BY <1>1, <1>2, <1>5 DEF kept

LEMMA PageKeeps ==
    ASSUME ListInv, NEW page \in SUBSET account, Transactions!FetchPage(page)
    PROVE  ListInv'
  <1> DEFINE Time(t) == Transactions!Time(t)
             kept    == {t \in page : Time(t) <= To}
             later   == {t \in account : Time(t) >= fromTimestamp}
             next    == Transactions!NextFrom(kept)
  <1>1. /\ DOMAIN fullList' = DOMAIN fullList \cup kept
        /\ \A t \in DOMAIN fullList' : fullList'[t] = 1
        /\ fromTimestamp' = next
        /\ finished' = (kept # page \/ next = fromTimestamp)
        /\ Transactions!Page(page) /\ UNCHANGED <<account, expected, bufferSize>>
        /\ \A t \in page : Time(t) \in Nat /\ Time(t) >= fromTimestamp
    BY PageIsAdded
  <1>2. ListTypeOK /\ From \in Nat /\ To \in Nat /\ fromTimestamp \in Nat /\ From <= fromTimestamp
    BY TransactionsAssumption DEF ListInv, ListTypeOK
  <1>3. /\ next \in Nat /\ fromTimestamp <= next
        /\ \A t \in kept : Time(t) < next
        /\ next = fromTimestamp \/ \E u \in kept : next = Time(u) + 1
    <2>1. kept \in SUBSET Booked /\ \A t \in kept : Time(t) <= To
      BY <1>2 DEF ListTypeOK
    <2> HIDE DEF kept
    <2> QED BY <1>2, <2>1, NextFromIsAfter
  <1>4. \A t \in account : Time(t) \in Nat
    BY <1>2, TimeIsNat DEF ListTypeOK
  <1>5. \A t \in page, u \in later \ page : Time(t) <= Time(u)
    BY <1>1 DEF Transactions!Page
  <1>6. \A t : Due(t)' = Due(t)
    BY <1>1 DEF Due, Transactions!Shared, Transactions!Time
  <1>7. \A t : Transactions!Time(t)' = Time(t)
    BY DEF Transactions!Time
  <1> HIDE DEF next
  <1>8. ListTypeOK'
    BY <1>1, <1>2, <1>3 DEF ListInv, ListTypeOK
  <1>9. ListOK'
    <2>1. ASSUME NEW t \in DOMAIN fullList PROVE t \in account /\ Time(t) \in From..To /\ Time(t) < next
      BY <1>2, <1>3, <1>4 DEF ListInv, ListOK
    <2>2. ASSUME NEW t \in kept PROVE t \in account /\ Time(t) \in From..To /\ Time(t) < next
      BY <1>1, <1>2, <1>3, <1>4
    <2> HIDE DEF kept, Time
    <2> QED BY <1>1, <1>7, <2>1, <2>2 DEF ListOK
  <1>10. ASSUME NEW t \in expected, Due(t), Time(t) < next
         PROVE  t \in DOMAIN fullList \cup kept
    <2>1. t \in account /\ Time(t) \in Nat /\ Time(t) \in From..To
      BY <1>2, <1>4, <1>10 DEF ListTypeOK, Due
    <2>2. CASE Time(t) < fromTimestamp
      BY <1>10, <2>2 DEF ListInv, ListedSoFar
    <2>3. CASE Time(t) >= fromTimestamp /\ t \in page
      BY <1>2, <2>1, <2>3
    <2>4. CASE Time(t) >= fromTimestamp /\ t \notin page
      <3>1. PICK u \in kept : next = Time(u) + 1
        BY <1>2, <1>3, <1>10, <2>1, <2>4
      <3>2. u \in page /\ Time(u) \in Nat /\ u \in account
        BY <1>1
      <3>3. Time(u) <= Time(t)
        BY <1>5, <2>1, <2>4, <3>2
      <3>4. Time(u) = Time(t)
        BY <1>10, <2>1, <3>1, <3>2, <3>3
      <3>5. Transactions!Shared(t)
        BY <2>4, <3>2, <3>4 DEF Transactions!Shared
      <3> QED BY <1>10, <3>5 DEF Due
    <2> QED BY <1>2, <2>1, <2>2, <2>3, <2>4
  <1>11. ListedSoFar'
    <2> HIDE DEF kept, Time
    <2> QED BY <1>1, <1>6, <1>7, <1>10 DEF ListedSoFar
  <1>12. ASSUME finished', NEW t \in expected, Due(t)
         PROVE  t \in DOMAIN fullList \cup kept
    <2>1. t \in account /\ Time(t) \in Nat /\ Time(t) \in From..To
      BY <1>2, <1>4, <1>12 DEF ListTypeOK, Due
    <2>2. CASE Time(t) < fromTimestamp
      BY <1>12, <2>2 DEF ListInv, ListedSoFar
    <2>3. CASE Time(t) >= fromTimestamp /\ t \in page
      BY <1>2, <2>1, <2>3
    <2>4. CASE Time(t) >= fromTimestamp /\ t \notin page /\ kept # page
      <3>1. PICK v \in page : ~(Time(v) <= To)
        BY <2>4
      <3>2. Time(v) <= Time(t) /\ Time(v) \in Nat
        BY <1>1, <1>5, <2>1, <2>4
      <3> QED BY <1>2, <2>1, <3>1, <3>2
    <2>5. CASE Time(t) >= fromTimestamp /\ kept = page /\ next = fromTimestamp
      <3>1. kept = {}
        BY <1>1, <1>2, <1>3, <2>5
      <3>2. Transactions!Page({})
        BY <1>1, <2>5, <3>1
      <3> QED BY <1>2, <2>1, <2>5, <3>2, EmptyPageIsLast
    <2>6. kept # page \/ next = fromTimestamp
      BY <1>1, <1>12
    <2>7. Time(t) < fromTimestamp \/ Time(t) >= fromTimestamp
      BY <1>2, <2>1
    <2> HIDE DEF kept, Time
    <2> QED BY <2>2, <2>3, <2>4, <2>5, <2>6, <2>7
  <1>13. ListedInTheEnd'
    <2> HIDE DEF kept
    <2> QED BY <1>1, <1>6, <1>12 DEF ListedInTheEnd
  <1> QED BY <1>8, <1>9, <1>11, <1>13 DEF ListInv

LEMMA ListInvHolds == Transactions!ListSpec => []ListInv
  <1>1. Transactions!Init => ListInv
    <2> SUFFICES ASSUME Transactions!Init PROVE ListInv
      OBVIOUS
    <2>1. DOMAIN fullList = {}
      BY DEF Transactions!Init, Transactions!EmptyBag, Transactions!SetToBag
    <2>2. /\ account \in SUBSET Booked /\ expected = account /\ bufferSize \in BufferSizes
          /\ fromTimestamp = From /\ ~finished
      BY DEF Transactions!Init
    <2>3. \A t \in expected : Due(t) => ~(Transactions!Time(t) < fromTimestamp)
      BY <2>2, TransactionsAssumption DEF Due
    <2> QED
      BY <2>1, <2>2, <2>3, TransactionsAssumption
         DEF ListInv, ListTypeOK, ListOK, ListedSoFar, ListedInTheEnd
  <1>2. ListInv /\ [Transactions!Next]_(Transactions!listVars) => ListInv'
    <2> SUFFICES ASSUME ListInv, [Transactions!Next]_(Transactions!listVars)
                 PROVE  ListInv'
      OBVIOUS
    <2>1. ASSUME account \subseteq account', account' \subseteq Booked,
                 UNCHANGED <<expected, bufferSize, fromTimestamp, fullList, finished>>
          PROVE  ListInv'
      <3>1. \A t : Due(t)' => Due(t)
        BY <2>1 DEF Due, Transactions!Shared, Transactions!Time
      <3>2. \A t : Transactions!Time(t)' = Transactions!Time(t)
        BY DEF Transactions!Time
      <3>3. ListTypeOK' /\ ListOK'
        BY <2>1, <3>2 DEF ListInv, ListTypeOK, ListOK
      <3>4. ListedSoFar' /\ ListedInTheEnd'
        BY <2>1, <3>1, <3>2 DEF ListInv, ListedSoFar, ListedInTheEnd
      <3> QED BY <3>3, <3>4 DEF ListInv
    <2>2. CASE UNCHANGED Transactions!listVars
      BY <2>1, <2>2 DEF Transactions!listVars, ListInv, ListTypeOK
    <2>3. ASSUME NEW t \in Booked, Transactions!Book(t)
          PROVE  ListInv'
      BY <2>1, <2>3 DEF Transactions!Book, ListInv, ListTypeOK
    <2>4. ASSUME NEW page \in SUBSET account, Transactions!FetchPage(page)
          PROVE  ListInv'
      BY <2>4, PageKeeps
    <2> QED BY <2>2, <2>3, <2>4 DEF Transactions!Next
  <1> QED BY <1>1, <1>2, PTL DEF Transactions!ListSpec

\* For any transactions, range and page size: when the last page has been
\* fetched, the list has what was booked in the range before the first request,
\* once each and nothing else, but for transactions that share their timestamp.
THEOREM RangeIsAllListed == Transactions!ListSpec => []RangeIsListed
  <1>1. ListInv => RangeIsListed
    BY DEF ListInv, ListOK, ListedInTheEnd, Due, RangeIsListed, Transactions!RangeIsListed,
           Transactions!BagToSet, Transactions!BagIn
  <1> QED BY <1>1, ListInvHolds, PTL

------------------------------------------------------------------------------
\* ControllerDecorators

Value == MappingValues \cup OperationIds \cup {"path", "body", "user", "response", "tag", "none"}

Kinds == {"mapping", "param", "body", "attribute", "builder", "synchronized", "operation", "partial"}

Decoration == [kind : Kinds, name : Methods \cup {"none"}, index : Nat,
               id : Methods \cup OperationIds \cup {"none"}, value : Value]

Param == [of : Decorators!ParamKinds \cup {"none"}, value : Value]

Operation == [id : Methods \cup OperationIds, says : SUBSET Value, summary : {"none", "summary"}]

Property == [mappings : Seq(Value), params : Seq(Param), attributes : Seq(Value),
             synchronized : BOOLEAN, body : BOOLEAN, operations : Seq(Operation)]

DecoratorTypeOK ==
    /\ applied \in Seq(Decoration)
    /\ mapping \in [mappings : Seq(Value), operations : Seq(Value), partials : Seq(Value)]
    /\ DOMAIN properties \subseteq Methods
    /\ properties \in [DOMAIN properties -> Property]

\* A method without a property is told by the property that it would be given.
DecoratorInv ==
    /\ DecoratorTypeOK
    /\ DecorationsAreKept
    /\ \A name \in Methods : Decorators!PropertyIsTold(name, Decorators!PropertyOf(name))

\* The operators of the lists are the same in every module.
LEMMA SameLists ==
    ASSUME NEW s
    PROVE  Decorators!FlattenSeq(s) = FlattenSeq(s) /\ Decorators!ToSet(s) = ToSet(s)
  <1>1. Decorators!FlattenSeq(s) = FlattenSeq(s)
    BY DEF Decorators!FlattenSeq, FlattenSeq
  <1>2. Decorators!ToSet(s) = ToSet(s)
    BY DEF Decorators!ToSet, ToSet
  <1> QED
    BY <1>1, <1>2

\* What decorators wrote grows by what the next one writes.
LEMMA WrittenGrows ==
    ASSUME applied \in Seq(Decoration), NEW d \in Decoration, applied' = Append(applied, d),
           NEW kind, NEW name
    PROVE  /\ Decorators!Written(kind, name) \in Seq(Value)
           /\ Decorators!Written(kind, name)' =
                IF d.kind = kind /\ d.name = name THEN Append(Decorators!Written(kind, name), d.value)
                ELSE Decorators!Written(kind, name)
  <1> DEFINE kept == {e \in Decoration : e.kind = kind /\ e.name = name}
             Told(s) == [i \in DOMAIN s |-> s[i].value]
  <1>1. \A s \in Seq(Decoration) :
          FlattenSeq([i \in DOMAIN s |-> IF s[i].kind = kind /\ s[i].name = name THEN <<s[i]>> ELSE <<>>])
            = Kept(s, kept)
    <2> SUFFICES ASSUME NEW s \in Seq(Decoration)
                 PROVE  FlattenSeq([i \in DOMAIN s |-> IF s[i].kind = kind /\ s[i].name = name
                                                       THEN <<s[i]>> ELSE <<>>]) = Kept(s, kept)
      OBVIOUS
    <2>1. \A i \in DOMAIN s : s[i] \in kept <=> s[i].kind = kind /\ s[i].name = name
      OBVIOUS
    <2>2. [i \in DOMAIN s |-> IF s[i].kind = kind /\ s[i].name = name THEN <<s[i]>> ELSE <<>>]
            = [i \in DOMAIN s |-> IF s[i] \in kept THEN <<s[i]>> ELSE <<>>]
      BY <2>1
    <2> QED
      BY <2>2 DEF Kept
  <1>2. /\ Decorators!Written(kind, name) = Told(Kept(applied, kept))
        /\ Decorators!Written(kind, name)' = Told(Kept(applied', kept))
    <2>1. Decorators!Written(kind, name) = Told(Kept(applied, kept))
      BY <1>1, SameLists DEF Decorators!Written, Decorators!Those, Decorators!Each
    <2>2. applied' \in Seq(Decoration)
      OBVIOUS
    <2>3. Decorators!Written(kind, name)' = Told(Kept(applied', kept))
      BY <1>1, <2>2, SameLists DEF Decorators!Written, Decorators!Those, Decorators!Each
    <2> QED
      BY <2>1, <2>3
  <1> DEFINE k == Kept(applied, kept)
  <1>3. k \in Seq(Decoration) /\ Kept(applied', kept) = IF d \in kept THEN Append(k, d) ELSE k
    <2> HIDE DEF kept
    <2>1. \A e \in Decoration : /\ Kept(applied, kept) \in Seq(Decoration)
                               /\ Kept(Append(applied, e), kept) = IF e \in kept THEN Append(k, e) ELSE k
      BY KeptAppend
    <2> QED
      BY <2>1
  <1> HIDE DEF k
  <1>4. d \in kept <=> d.kind = kind /\ d.name = name
    OBVIOUS
  <1>5. Told(k) \in Seq(Value) /\ Told(Append(k, d)) = Append(Told(k), d.value)
    <2>1. \A e \in Decoration : e.value \in Value
      BY DEF Decoration
    <2>2. Told(k) \in Seq(Value)
      BY <1>3, <2>1
    <2>3. Told(Append(k, d)) = Append(Told(k), d.value)
      BY <1>3
    <2> QED
      BY <2>2, <2>3
  <1> HIDE DEF kept
  <1> QED
    BY <1>2, <1>3, <1>4, <1>5 DEF k

\* What is put before the others is what Reverse finds at their end.
LEMMA ReverseGrows ==
    ASSUME NEW S, NEW s \in Seq(S), NEW e \in S
    PROVE  /\ Decorators!Reverse(Append(s, e)) = <<e>> \o Decorators!Reverse(s)
           /\ Decorators!Reverse(s) \in Seq(S)
           /\ Decorators!Reverse(<<>>) = <<>>
  <1> DEFINE r == Decorators!Reverse(s)
             t == Decorators!Reverse(Append(s, e))
             u == <<e>> \o r
  <1>1. Len(s) \in Nat /\ r \in Seq(S) /\ Len(r) = Len(s)
        /\ \A i \in 1..Len(s) : r[i] = s[Len(s) - i + 1]
    BY DEF Decorators!Reverse
  <1>2. /\ Append(s, e) \in Seq(S) /\ Len(Append(s, e)) = Len(s) + 1
        /\ \A i \in 1..Len(s) : Append(s, e)[i] = s[i]
        /\ Append(s, e)[Len(s) + 1] = e
    BY AppendByIndex
  <1>3. /\ t \in Seq(S) /\ Len(t) = Len(s) + 1
        /\ \A i \in 1..Len(s) + 1 : t[i] = Append(s, e)[Len(s) + 1 - i + 1]
    <2> DEFINE a == Append(s, e)
    <2> HIDE DEF a
    <2> QED
      BY <1>1, <1>2 DEF Decorators!Reverse, a
  <1>4. /\ u \in Seq(S) /\ Len(u) = Len(s) + 1 /\ u[1] = e
        /\ \A i \in 1..Len(s) : u[i + 1] = r[i]
    <2>1. <<e>> \in Seq(S) /\ Len(<<e>>) = 1 /\ <<e>>[1] = e
      OBVIOUS
    <2> HIDE DEF r
    <2> QED
      BY <1>1, <2>1
  <1> HIDE DEF r, t, u
  <1>5. ASSUME NEW i \in 1..Len(s) + 1
        PROVE  t[i] = u[i]
    <2>1. CASE i = 1
      <3>1. t[1] = Append(s, e)[Len(s) + 1]
        BY <1>1, <1>3
      <3> QED
        BY <1>2, <1>4, <2>1, <3>1
    <2>2. CASE i # 1
      <3>1. i - 1 \in 1..Len(s) /\ Len(s) + 1 - i + 1 \in 1..Len(s) /\ i - 1 + 1 = i
            /\ Len(s) + 1 - i + 1 = Len(s) - (i - 1) + 1
        BY <1>1, <2>2
      <3>2. t[i] = s[Len(s) + 1 - i + 1]
        BY <1>2, <1>3, <3>1
      <3>3. u[i] = r[i - 1] /\ r[i - 1] = s[Len(s) - (i - 1) + 1]
        BY <1>1, <1>4, <3>1
      <3> QED
        BY <3>1, <3>2, <3>3
    <2> QED
      BY <2>1, <2>2
  <1>6. t = u
    <2>1. Len(t) = Len(u)
      BY <1>3, <1>4
    <2> QED
      BY <1>1, <1>3, <1>4, <1>5, <2>1, SeqEqual
  <1>7. Decorators!Reverse(<<>>) = <<>>
    BY DEF Decorators!Reverse
  <1> QED
    BY <1>1, <1>6, <1>7 DEF r, t, u

\* The decorators of other methods, and those that are not of a parameter, tell
\* nothing of the parameters.
LEMMA OtherParams ==
    ASSUME applied \in Seq(Decoration), NEW d \in Decoration, applied' = Append(applied, d),
           NEW name, d.name # name \/ d.kind \notin Decorators!ParamKinds,
           NEW params, Decorators!ParamsAreTold(name, params)
    PROVE  Decorators!ParamsAreTold(name, params)'
  <1>1. /\ Len(applied) \in Nat /\ DOMAIN applied = 1..Len(applied)
        /\ DOMAIN applied' = 1..Len(applied) + 1
        /\ \A i \in 1..Len(applied) : applied'[i] = applied[i]
        /\ applied'[Len(applied) + 1] = d
    BY AppendByIndex
  <1>2. /\ Decorators!ParamPlaces(name)' = Decorators!ParamPlaces(name)
        /\ \A k \in Decorators!ParamPlaces(name) : applied'[k] = applied[k]
    BY <1>1 DEF Decorators!ParamPlaces
  <1> QED
    BY <1>2 DEF Decorators!ParamsAreTold

\* What is known of parameters with another one.
ParamIsAdded(grown, params, i, param) ==
    /\ grown \in Seq(Param)
    /\ Len(params) \in Nat /\ Len(grown) \in Nat
    /\ Len(params) =< Len(grown) /\ i < Len(grown)
    /\ DOMAIN grown = 1..Len(grown)
    /\ grown[i + 1] = param
    /\ \A j \in 1..Len(grown) : j # i + 1 =>
         grown[j] = IF j \in 1..Len(params) THEN params[j] ELSE Decorators!Null

LEMMA WithParamAdds ==
    ASSUME NEW params \in Seq(Param), NEW i \in Nat, NEW param \in Param
    PROVE  ParamIsAdded(Decorators!WithParam(params, i, param), params, i, param)
  <1> DEFINE n == IF i < Len(params) THEN Len(params) ELSE i + 1
             grown == Decorators!WithParam(params, i, param)
  <1>1. Len(params) \in Nat /\ n \in Nat /\ i + 1 \in 1..n /\ Len(params) =< n /\ i < n
    OBVIOUS
  <1>2. Decorators!Null \in Param
    BY DEF Decorators!Null, Decorators!None, Param, Value
  <1>3. grown = [j \in 1..n |-> IF j = i + 1 THEN param
                               ELSE IF j =< Len(params) THEN params[j] ELSE Decorators!Null]
    BY DEF Decorators!WithParam
  <1> HIDE DEF n, grown
  <1>4. grown \in Seq(Param) /\ Len(grown) = n /\ DOMAIN grown = 1..n
    <2>1. grown \in [1..n -> Param]
      BY <1>1, <1>2, <1>3
    <2> QED
      BY <1>1, <2>1, IsASeq
  <1> QED
    BY <1>1, <1>3, <1>4 DEF ParamIsAdded, grown

\* A decorator of a parameter is told where it belongs, and the others remain.
LEMMA ParamsGrow ==
    ASSUME applied \in Seq(Decoration), NEW d \in Decoration, applied' = Append(applied, d),
           d.kind \in Decorators!ParamKinds,
           NEW params \in Seq(Param), Decorators!ParamsAreTold(d.name, params)
    PROVE  LET grown == Decorators!WithParam(params, d.index, [of |-> d.kind, value |-> d.value])
           IN  grown \in Seq(Param) /\ Decorators!ParamsAreTold(d.name, grown)'
  <1> DEFINE param == [of |-> d.kind, value |-> d.value]
             i == d.index
             grown == Decorators!WithParam(params, i, param)
             n == Len(applied) + 1
             P == Decorators!ParamPlaces(d.name)
             Q == Decorators!ParamPlaces(d.name)'
  <1>1. /\ n \in Nat /\ DOMAIN applied = 1..n - 1 /\ DOMAIN applied' = 1..n
        /\ \A k \in 1..n - 1 : applied'[k] = applied[k] /\ applied[k] \in Decoration
        /\ applied'[n] = d
    BY AppendByIndex
  <1>2. param \in Param /\ i \in Nat /\ d.value \in Value
    BY DEF Decoration, Param
  <1>3. /\ grown \in Seq(Param)
        /\ Len(params) \in Nat /\ Len(grown) \in Nat
        /\ Len(params) =< Len(grown) /\ i < Len(grown)
        /\ DOMAIN grown = 1..Len(grown)
        /\ grown[i + 1] = param
        /\ \A j \in 1..Len(grown) : j # i + 1 =>
             grown[j] = IF j \in 1..Len(params) THEN params[j] ELSE Decorators!Null
    <2>1. ParamIsAdded(grown, params, i, param)
      BY <1>2, WithParamAdds
    <2> HIDE DEF grown, i, param
    <2> QED
      BY <2>1 DEF ParamIsAdded
  <1> HIDE DEF grown
  <1>4. /\ Q = P \cup {n} /\ P \subseteq 1..n - 1 /\ n \in Q
        /\ \A k \in P : applied'[k] = applied[k] /\ applied[k].index \in Nat
    <2>1. P \subseteq 1..n - 1 /\ \A k \in P : applied'[k] = applied[k] /\ applied[k].index \in Nat
      BY <1>1 DEF Decorators!ParamPlaces, Decoration
    <2>2. Q = P \cup {n}
      BY <1>1 DEF Decorators!ParamPlaces
    <2> QED
      BY <2>1, <2>2
  <1> HIDE DEF P, Q
  <1>5. /\ \A k \in P :
             /\ applied[k].index < Len(params)
             /\ (\A j \in P : j > k => applied[j].index # applied[k].index)
                  => params[applied[k].index + 1] = [of |-> applied[k].kind, value |-> applied[k].value]
        /\ \A j \in DOMAIN params : params[j] # Decorators!Null => \E k \in P : applied[k].index = j - 1
    BY DEF Decorators!ParamsAreTold, P
  <1>6. ASSUME NEW k \in Q
        PROVE  /\ applied'[k].index < Len(grown)
               /\ (\A j \in Q : j > k => applied'[j].index # applied'[k].index)
                    => grown[applied'[k].index + 1] = [of |-> applied'[k].kind, value |-> applied'[k].value]
    <2>1. CASE k = n
      BY <1>1, <1>3, <2>1
    <2>2. CASE k \in P
      <3> DEFINE x == applied[k].index
      <3>1. applied'[k] = applied[k] /\ x \in Nat /\ x < Len(params) /\ k < n
        <4>1. applied'[k] = applied[k] /\ x \in Nat
          BY <1>4, <2>2
        <4>2. x < Len(params)
          BY <1>5, <2>2
        <4>3. k \in 1..n - 1
          BY <1>4, <2>2
        <4> QED
          BY <1>1, <4>1, <4>2, <4>3
      <3>2. x < Len(grown)
        BY <1>3, <3>1
      <3>3. ASSUME \A j \in Q : j > k => applied'[j].index # x
            PROVE  grown[x + 1] = [of |-> applied[k].kind, value |-> applied[k].value]
        <4>1. x # i
          BY <1>1, <1>4, <3>1, <3>3
        <4>2. \A j \in P : j > k => applied[j].index # x
          BY <1>4, <3>3
        <4>3. params[x + 1] = [of |-> applied[k].kind, value |-> applied[k].value]
          BY <1>5, <2>2, <4>2
        <4>4. x + 1 \in 1..Len(params) /\ x + 1 \in 1..Len(grown) /\ x + 1 # i + 1
          BY <1>2, <1>3, <3>1, <4>1
        <4>5. grown[x + 1] = params[x + 1]
          BY <1>3, <4>4
        <4> QED
          BY <4>3, <4>5
      <3> QED
        BY <3>1, <3>2, <3>3
    <2> QED
      BY <1>4, <2>1, <2>2
  <1>7. ASSUME NEW j \in DOMAIN grown, grown[j] # Decorators!Null
        PROVE  \E k \in Q : applied'[k].index = j - 1
    <2>1. CASE j = i + 1
      <3>1. applied'[n].index = j - 1
        BY <1>1, <1>2, <2>1
      <3> QED
        BY <1>4, <3>1
    <2>2. CASE j # i + 1
      <3>1. j \in DOMAIN params /\ params[j] # Decorators!Null
        BY <1>3, <1>7, <2>2
      <3>2. PICK k \in P : applied[k].index = j - 1
        BY <1>5, <3>1
      <3> QED
        BY <1>4, <3>2
    <2> QED
      BY <2>1, <2>2
  <1>8. Decorators!ParamsAreTold(d.name, grown)'
    <2>1. d' = d /\ grown' = grown
      OBVIOUS
    <2> QED
      BY <1>6, <1>7 DEF Decorators!ParamsAreTold, Q
  <1> QED
    BY <1>3, <1>8 DEF grown

\* What operations say.
FactsOf(operations) ==
    UNION {{[id |-> op.id, fact |-> f] : f \in op.says} : op \in ToSet(operations)}

UniqueIds(operations) ==
    \A i, j \in DOMAIN operations : operations[i].id = operations[j].id => i = j

LEMMA FactsByOperation ==
    ASSUME NEW operations, NEW x
    PROVE  x \in FactsOf(operations) <=>
             \E op \in ToSet(operations) : \E f \in op.says : x = [id |-> op.id, fact |-> f]
  BY DEF FactsOf

LEMMA SelectedOperations ==
    ASSUME NEW operations \in Seq(Operation), NEW id
    PROVE  /\ Decorators!Those(operations, LAMBDA op : op.id = id)
                = Kept(operations, {op \in Operation : op.id = id})
           /\ Decorators!Those(operations, LAMBDA op : op.id # id)
                = Kept(operations, {op \in Operation : op.id # id})
  <1>1. [i \in DOMAIN operations |-> IF operations[i].id = id THEN <<operations[i]>> ELSE <<>>]
          = [i \in DOMAIN operations |->
               IF operations[i] \in {op \in Operation : op.id = id} THEN <<operations[i]>> ELSE <<>>]
    OBVIOUS
  <1>2. [i \in DOMAIN operations |-> IF operations[i].id # id THEN <<operations[i]>> ELSE <<>>]
          = [i \in DOMAIN operations |->
               IF operations[i] \in {op \in Operation : op.id # id} THEN <<operations[i]>> ELSE <<>>]
    OBVIOUS
  <1>3. Decorators!Those(operations, LAMBDA op : op.id = id)
          = Kept(operations, {op \in Operation : op.id = id})
    BY <1>1, SameLists DEF Decorators!Those, Decorators!Each, Kept
  <1>4. Decorators!Those(operations, LAMBDA op : op.id # id)
          = Kept(operations, {op \in Operation : op.id # id})
    BY <1>2, SameLists DEF Decorators!Those, Decorators!Each, Kept
  <1> QED
    BY <1>3, <1>4

\* Joining what is said of an operation with what was said loses nothing.
LEMMA OperationIsJoined ==
    ASSUME NEW operations \in Seq(Operation), NEW config \in Operation, UniqueIds(operations)
    PROVE  LET grown == Decorators!WithOperation(operations, config)
           IN  /\ grown \in Seq(Operation)
               /\ UniqueIds(grown)
               /\ FactsOf(grown) = FactsOf(operations)
                                    \cup {[id |-> config.id, fact |-> f] : f \in config.says}
  <1> DEFINE grown == Decorators!WithOperation(operations, config)
             Same == {op \in Operation : op.id = config.id}
             Others == {op \in Operation : op.id # config.id}
             same == Kept(operations, Same)
             others == Kept(operations, Others)
             old == Head(same)
             joined == Decorators!MergedOperation(old, config)
             Added == {[id |-> config.id, fact |-> f] : f \in config.says}
  <1>1. grown = IF same = <<>> THEN Append(operations, config) ELSE <<joined>> \o others
    BY SelectedOperations DEF Decorators!WithOperation
  <1>2. /\ same \in Seq(Operation) /\ others \in Seq(Operation)
        /\ \A op : op \in ToSet(same) <=> op \in ToSet(operations) /\ op \in Same
        /\ \A op : op \in ToSet(others) <=> op \in ToSet(operations) /\ op \in Others
    <2> HIDE DEF Same, Others
    <2> QED
      BY KeptIncreasing, KeptElements
  <1>3. /\ \A op : op \in ToSet(operations) <=> \E i \in 1..Len(operations) : op = operations[i]
        /\ DOMAIN operations = 1..Len(operations) /\ Len(operations) \in Nat
        /\ \A op \in ToSet(operations) : op \in Operation
    BY DEF ToSet
  <1>4. \A op, o2 \in ToSet(operations) : op.id = o2.id => op = o2
    BY <1>3 DEF UniqueIds
  <1>5. PICK at \in [1..Len(others) -> 1..Len(operations)] :
          /\ \A i \in 1..Len(others) : others[i] = operations[at[i]] /\ operations[at[i]] \in Others
          /\ \A i, j \in 1..Len(others) : i < j => at[i] < at[j]
    <2> HIDE DEF Others
    <2> QED
      BY KeptIncreasing
  <1> HIDE DEF same, others, grown, old, joined
  <1>6. CASE same = <<>>
    <2>1. \A op \in ToSet(operations) : op.id # config.id
      BY <1>2, <1>3, <1>6 DEF ToSet
    <2>2. /\ grown = Append(operations, config)
          /\ grown \in Seq(Operation) /\ Len(grown) = Len(operations) + 1
          /\ \A i \in 1..Len(operations) : grown[i] = operations[i]
          /\ grown[Len(operations) + 1] = config
          /\ DOMAIN grown = 1..Len(operations) + 1
      <3>1. grown = Append(operations, config)
        BY <1>1, <1>6
      <3> QED
        BY <3>1, AppendByIndex
    <2>3. UniqueIds(grown)
      <3>1. \A i \in DOMAIN grown : i \in 1..Len(operations) \/ i = Len(operations) + 1
        BY <1>3, <2>2
      <3>2. \A i \in 1..Len(operations) : grown[i].id # config.id
        BY <1>3, <2>1, <2>2
      <3> QED
        BY <1>3, <2>2, <3>1, <3>2 DEF UniqueIds
    <2>4. \A op : op \in ToSet(grown) <=> op \in ToSet(operations) \/ op = config
      <3>1. \A op : op \in ToSet(grown) <=> \E i \in 1..Len(operations) + 1 : op = grown[i]
        BY <2>2 DEF ToSet
      <3> QED
        BY <1>3, <2>2, <3>1
    <2>5. \A x : x \in FactsOf(grown) <=> x \in FactsOf(operations) \/ x \in Added
      <3>1. \A x : x \in Added <=> \E f \in config.says : x = [id |-> config.id, fact |-> f]
        OBVIOUS
      <3> HIDE DEF Added
      <3> QED
        BY <2>4, <3>1, FactsByOperation
    <2> QED
      BY <2>2, <2>3, <2>5 DEF grown
  <1>7. CASE same # <<>>
    <2>1. old \in ToSet(operations) /\ old \in Operation /\ old.id = config.id
      <3>1. old \in ToSet(same)
        <4>1. 1 \in DOMAIN same /\ old = same[1]
          BY <1>2, <1>7 DEF old
        <4> QED
          BY <4>1 DEF ToSet
      <3> QED
        BY <1>2, <1>3, <3>1
    <2>2. /\ joined \in Operation /\ joined.id = config.id
          /\ joined.says = old.says \cup config.says
      BY <2>1 DEF joined, Decorators!MergedOperation, Operation
    <2>3. /\ grown = <<joined>> \o others
          /\ grown \in Seq(Operation) /\ Len(grown) = Len(others) + 1 /\ Len(others) \in Nat
          /\ grown[1] = joined
          /\ \A i \in 1..Len(others) : grown[i + 1] = others[i]
          /\ DOMAIN grown = 1..Len(others) + 1
      <3>1. <<joined>> \in Seq(Operation) /\ Len(<<joined>>) = 1 /\ <<joined>>[1] = joined
        BY <2>2
      <3>2. grown = <<joined>> \o others
        BY <1>1, <1>7
      <3> QED
        BY <1>2, <3>1, <3>2
    <2>4. \A i \in 1..Len(others) + 1 : i = 1 \/ (i - 1 \in 1..Len(others) /\ i = i - 1 + 1)
      BY <2>3
    <2>5. UniqueIds(grown)
      <3> SUFFICES ASSUME NEW i \in 1..Len(others) + 1, NEW j \in 1..Len(others) + 1,
                          grown[i].id = grown[j].id
                   PROVE  i = j
        BY <2>3 DEF UniqueIds
      <3>1. \A k \in 1..Len(others) : others[k].id # config.id
        BY <1>5
      <3>2. CASE i = 1 \/ j = 1
        BY <2>2, <2>3, <2>4, <3>1, <3>2
      <3>3. CASE i # 1 /\ j # 1
        <4> DEFINE k == i - 1
                   l == j - 1
        <4>1. k \in 1..Len(others) /\ l \in 1..Len(others) /\ i = k + 1 /\ j = l + 1
          BY <2>4, <3>3
        <4> HIDE DEF k, l
        <4>2. operations[at[k]].id = operations[at[l]].id
          BY <1>5, <2>3, <4>1
        <4>3. at[k] = at[l] /\ at[k] \in Nat /\ at[l] \in Nat
          BY <1>3, <1>5, <4>1, <4>2 DEF UniqueIds
        <4>4. ~ k < l /\ ~ l < k
          BY <1>5, <4>1, <4>3
        <4> QED
          BY <2>3, <4>1, <4>4
      <3> QED
        BY <3>2, <3>3
    <2>6. \A op : op \in ToSet(grown) <=> op \in ToSet(others) \/ op = joined
      <3>1. \A op : op \in ToSet(grown) <=> \E i \in 1..Len(others) + 1 : op = grown[i]
        BY <2>3 DEF ToSet
      <3>2. \A op : op \in ToSet(others) <=> \E i \in 1..Len(others) : op = others[i]
        BY <1>2 DEF ToSet
      <3>3. 1 \in 1..Len(others) + 1 /\ \A i \in 1..Len(others) : i + 1 \in 1..Len(others) + 1
        BY <2>3
      <3>4. \A i \in 1..Len(others) + 1 : grown[i] = joined \/ \E j \in 1..Len(others) : grown[i] = others[j]
        BY <2>3, <2>4
      <3>5. \A op : op \in ToSet(grown) => op \in ToSet(others) \/ op = joined
        BY <3>1, <3>2, <3>4
      <3>6. joined \in ToSet(grown)
        BY <2>3, <3>1, <3>3
      <3>7. ASSUME NEW op \in ToSet(others)
            PROVE  op \in ToSet(grown)
        <4>1. PICK i \in 1..Len(others) : op = others[i]
          BY <3>2
        <4>2. op = grown[i + 1] /\ i + 1 \in 1..Len(others) + 1
          BY <2>3, <3>3, <4>1
        <4> QED
          BY <3>1, <4>2
      <3> QED
        BY <3>5, <3>6, <3>7
    <2>7. \A op : op \in ToSet(operations) <=> op \in ToSet(others) \/ op = old
      BY <1>2, <1>3, <1>4, <2>1
    <2>8. \A x : x \in FactsOf(grown) <=> x \in FactsOf(operations) \/ x \in Added
      <3>1. \A x : x \in Added <=> \E f \in config.says : x = [id |-> config.id, fact |-> f]
        OBVIOUS
      <3> HIDE DEF Added
      <3>2. ASSUME NEW x
            PROVE  (\E f \in joined.says : x = [id |-> joined.id, fact |-> f])
                     <=> (\E f \in old.says : x = [id |-> old.id, fact |-> f]) \/ x \in Added
        BY <2>1, <2>2, <3>1
      <3> QED
        BY <2>6, <2>7, <3>2, FactsByOperation
    <2> QED
      BY <2>3, <2>5, <2>8 DEF grown
  <1> QED
    BY <1>6, <1>7

\* What is said of an operation of the method is told, beside all else.
LEMMA OtherOperations ==
    ASSUME applied \in Seq(Decoration), NEW d \in Decoration, applied' = Append(applied, d),
           NEW name, d.name # name \/ d.id = "none",
           NEW operations, Decorators!OperationsAreTold(name, operations)
    PROVE  Decorators!OperationsAreTold(name, operations)'
  <1>1. /\ Len(applied) \in Nat /\ DOMAIN applied = 1..Len(applied)
        /\ DOMAIN applied' = 1..Len(applied) + 1
        /\ \A i \in 1..Len(applied) : applied'[i] = applied[i]
        /\ applied'[Len(applied) + 1] = d
    BY AppendByIndex
  <1>2. ToSet(applied') = ToSet(applied) \cup {d}
    BY <1>1 DEF ToSet
  <1>3. Decorators!Sayings(name)' = Decorators!Sayings(name)
    BY <1>2, SameLists DEF Decorators!Sayings, Decorators!None
  <1> QED
    BY <1>3 DEF Decorators!OperationsAreTold

LEMMA OperationsGrow ==
    ASSUME applied \in Seq(Decoration), NEW d \in Decoration, applied' = Append(applied, d),
           NEW operations \in Seq(Operation), Decorators!OperationsAreTold(d.name, operations),
           NEW config \in Operation, d.id # "none", config.id = d.id, config.says = {d.value}
    PROVE  LET grown == Decorators!WithOperation(operations, config)
           IN  grown \in Seq(Operation) /\ Decorators!OperationsAreTold(d.name, grown)'
  <1> DEFINE grown == Decorators!WithOperation(operations, config)
  <1>1. /\ Len(applied) \in Nat /\ DOMAIN applied = 1..Len(applied)
        /\ DOMAIN applied' = 1..Len(applied) + 1
        /\ \A i \in 1..Len(applied) : applied'[i] = applied[i]
        /\ applied'[Len(applied) + 1] = d
    BY AppendByIndex
  <1>2. ToSet(applied') = ToSet(applied) \cup {d}
    BY <1>1 DEF ToSet
  <1>3. Decorators!Sayings(d.name)' = Decorators!Sayings(d.name) \cup {[id |-> d.id, fact |-> d.value]}
    BY <1>2, SameLists DEF Decorators!Sayings, Decorators!None
  <1>4. UniqueIds(operations) /\ FactsOf(operations) = Decorators!Sayings(d.name)
    BY SameLists DEF Decorators!OperationsAreTold, UniqueIds, FactsOf
  <1>5. /\ grown \in Seq(Operation)
        /\ UniqueIds(grown)
        /\ FactsOf(grown) = FactsOf(operations) \cup {[id |-> config.id, fact |-> f] : f \in config.says}
    BY <1>4, OperationIsJoined
  <1> HIDE DEF grown
  <1>6. FactsOf(grown) = Decorators!Sayings(d.name)'
    BY <1>3, <1>4, <1>5
  <1>7. Decorators!OperationsAreTold(d.name, grown)'
    BY <1>5, <1>6, SameLists DEF Decorators!OperationsAreTold, UniqueIds, FactsOf
  <1> QED
    BY <1>5, <1>7 DEF grown

\* A property that tells of its method goes on to do so when another method, or
\* the class, is decorated.
LEMMA OthersRemainTold ==
    ASSUME applied \in Seq(Decoration), NEW d \in Decoration, applied' = Append(applied, d),
           NEW name, d.name # name,
           NEW property, Decorators!PropertyIsTold(name, property)
    PROVE  Decorators!PropertyIsTold(name, property)'
  <1>1. \A kind : Decorators!Written(kind, name)' = Decorators!Written(kind, name)
    BY WrittenGrows
  <1>2. Decorators!ParamsAreTold(name, property.params)'
    BY OtherParams DEF Decorators!PropertyIsTold
  <1>3. Decorators!OperationsAreTold(name, property.operations)'
    BY OtherOperations DEF Decorators!PropertyIsTold
  <1>4. /\ property.mappings = Decorators!Reverse(Decorators!Written("mapping", name)')
        /\ property.attributes = Decorators!Reverse(Decorators!Written("builder", name)')
        /\ property.synchronized <=> Decorators!Written("synchronized", name)' # <<>>
        /\ property.body <=> Decorators!Written("body", name)' # <<>>
    BY <1>1 DEF Decorators!PropertyIsTold
  <1> QED
    BY <1>2, <1>3, <1>4 DEF Decorators!PropertyIsTold

\* What a decorator d makes of a property of its method.
Decorated(property, old, d) ==
    /\ property.mappings = IF d.kind = "mapping" THEN <<d.value>> \o old.mappings ELSE old.mappings
    /\ property.attributes = IF d.kind = "builder" THEN <<d.value>> \o old.attributes ELSE old.attributes
    /\ property.synchronized <=> old.synchronized \/ d.kind = "synchronized"
    /\ property.body <=> old.body \/ d.kind = "body"
    /\ property.params = IF d.kind \in Decorators!ParamKinds
                         THEN Decorators!WithParam(old.params, d.index,
                                                   [of |-> d.kind, value |-> d.value])
                         ELSE old.params
    /\ \/ d.id = "none" /\ property.operations = old.operations
       \/ /\ d.id # "none"
          /\ \E config \in Operation :
               /\ config.id = d.id /\ config.says = {d.value}
               /\ property.operations = Decorators!WithOperation(old.operations, config)

LEMMA DecoratedIsTold ==
    ASSUME applied \in Seq(Decoration), NEW d \in Decoration, applied' = Append(applied, d),
           NEW old \in Property, Decorators!PropertyIsTold(d.name, old),
           NEW property, Decorated(property, old, d)
    PROVE  /\ property.params \in Seq(Param) /\ property.operations \in Seq(Operation)
           /\ Decorators!PropertyIsTold(d.name, property)'
  <1> DEFINE W(kind) == Decorators!Written(kind, d.name)
  <1>1. \A kind : /\ W(kind) \in Seq(Value)
                  /\ W(kind)' = IF d.kind = kind THEN Append(W(kind), d.value) ELSE W(kind)
    <2> SUFFICES ASSUME NEW kind
                 PROVE  /\ W(kind) \in Seq(Value)
                        /\ W(kind)' = IF d.kind = kind THEN Append(W(kind), d.value) ELSE W(kind)
      OBVIOUS
    <2> QED
      BY WrittenGrows
  <1>2. d.value \in Value /\ old.params \in Seq(Param) /\ old.operations \in Seq(Operation)
    BY DEF Decoration, Property
  <1>3. /\ old.mappings = Decorators!Reverse(W("mapping"))
        /\ old.attributes = Decorators!Reverse(W("builder"))
        /\ old.synchronized <=> W("synchronized") # <<>>
        /\ old.body <=> W("body") # <<>>
        /\ Decorators!ParamsAreTold(d.name, old.params)
        /\ Decorators!OperationsAreTold(d.name, old.operations)
    BY DEF Decorators!PropertyIsTold
  <1> HIDE DEF W
  <1>4. property.mappings = Decorators!Reverse(W("mapping")')
    <2>1. CASE d.kind = "mapping"
      <3>1. W("mapping")' = Append(W("mapping"), d.value) /\ W("mapping") \in Seq(Value)
        BY <1>1, <2>1
      <3>2. Decorators!Reverse(Append(W("mapping"), d.value)) = <<d.value>> \o Decorators!Reverse(W("mapping"))
        BY <1>2, <3>1, ReverseGrows
      <3> QED
        BY <1>3, <2>1, <3>1, <3>2 DEF Decorated
    <2>2. CASE d.kind # "mapping"
      BY <1>1, <1>3, <2>2 DEF Decorated
    <2> QED
      BY <2>1, <2>2
  <1>5. property.attributes = Decorators!Reverse(W("builder")')
    <2>1. CASE d.kind = "builder"
      <3>1. W("builder")' = Append(W("builder"), d.value) /\ W("builder") \in Seq(Value)
        BY <1>1, <2>1
      <3>2. Decorators!Reverse(Append(W("builder"), d.value)) = <<d.value>> \o Decorators!Reverse(W("builder"))
        BY <1>2, <3>1, ReverseGrows
      <3> QED
        BY <1>3, <2>1, <3>1, <3>2 DEF Decorated
    <2>2. CASE d.kind # "builder"
      BY <1>1, <1>3, <2>2 DEF Decorated
    <2> QED
      BY <2>1, <2>2
  <1>6. \A s \in Seq(Value) : Append(s, d.value) # <<>>
    BY <1>2
  <1>7. property.synchronized <=> W("synchronized")' # <<>>
    BY <1>1, <1>3, <1>6 DEF Decorated
  <1>8. property.body <=> W("body")' # <<>>
    BY <1>1, <1>3, <1>6 DEF Decorated
  <1>9. property.params \in Seq(Param) /\ Decorators!ParamsAreTold(d.name, property.params)'
    <2> DEFINE params == property.params
    <2>1. CASE d.kind \in Decorators!ParamKinds
      <3> DEFINE grown == Decorators!WithParam(old.params, d.index, [of |-> d.kind, value |-> d.value])
      <3>1. params = grown
        BY <2>1 DEF Decorated
      <3>2. grown \in Seq(Param) /\ Decorators!ParamsAreTold(d.name, grown)'
        BY <1>2, <1>3, <2>1, ParamsGrow
      <3> HIDE DEF grown
      <3> QED
        BY <3>1, <3>2
    <2>2. CASE d.kind \notin Decorators!ParamKinds
      <3>1. params = old.params
        BY <2>2 DEF Decorated
      <3>2. Decorators!ParamsAreTold(d.name, old.params)'
        BY <1>3, <2>2, OtherParams
      <3> QED
        BY <1>2, <3>1, <3>2
    <2> QED
      BY <2>1, <2>2
  <1>10. property.operations \in Seq(Operation) /\ Decorators!OperationsAreTold(d.name, property.operations)'
    <2>1. CASE d.id = "none"
      <3>1. property.operations = old.operations
        BY <2>1 DEF Decorated
      <3>2. Decorators!OperationsAreTold(d.name, old.operations)'
        BY <1>3, <2>1, OtherOperations
      <3> QED
        BY <1>2, <3>1, <3>2
    <2>2. CASE d.id # "none"
      <3>1. PICK config \in Operation :
              /\ config.id = d.id /\ config.says = {d.value}
              /\ property.operations = Decorators!WithOperation(old.operations, config)
        BY <2>2 DEF Decorated
      <3> DEFINE grown == Decorators!WithOperation(old.operations, config)
      <3>2. grown \in Seq(Operation) /\ Decorators!OperationsAreTold(d.name, grown)'
        BY <1>2, <1>3, <2>2, <3>1, OperationsGrow
      <3> HIDE DEF grown
      <3>3. property.operations = grown
        BY <3>1 DEF grown
      <3> QED
        BY <3>2, <3>3
    <2> QED
      BY <2>1, <2>2
  <1>11. Decorators!PropertyIsTold(d.name, property)'
    BY <1>4, <1>5, <1>7, <1>8, <1>9, <1>10 DEF Decorators!PropertyIsTold, W
  <1> QED
    BY <1>9, <1>10, <1>11

\* The names of the decorators, and the property of a method, as types.
LEMMA NamesGrow ==
    ASSUME applied \in Seq(Decoration), NEW d \in Decoration, applied' = Append(applied, d)
    PROVE  /\ applied' \in Seq(Decoration)
           /\ {e.name : e \in Decorators!ToSet(applied)}' = {e.name : e \in Decorators!ToSet(applied)} \cup {d.name}
  <1>1. /\ Len(applied) \in Nat /\ DOMAIN applied = 1..Len(applied)
        /\ DOMAIN applied' = 1..Len(applied) + 1
        /\ \A i \in 1..Len(applied) : applied'[i] = applied[i]
        /\ applied'[Len(applied) + 1] = d
    BY AppendByIndex
  <1>2. ToSet(applied') = ToSet(applied) \cup {d}
    BY <1>1 DEF ToSet
  <1> QED
    BY <1>2, SameLists

LEMMA PropertiesAreTyped ==
    ASSUME DecoratorTypeOK, NEW name
    PROVE  Decorators!PropertyOf(name) \in Property
  <1>1. Decorators!NewProperty \in Property
    <2>1. <<>> \in Seq(Value) /\ <<>> \in Seq(Param) /\ <<>> \in Seq(Operation)
      BY EmptySeq
    <2> QED
      BY <2>1 DEF Decorators!NewProperty, Property
  <1> QED
    BY <1>1 DEF Decorators!PropertyOf, DecoratorTypeOK

\* A decorator of a method keeps everything told.
LEMMA MethodIsDecorated ==
    ASSUME DecoratorInv, NEW d \in Decoration, d.name \in Methods, applied' = Append(applied, d),
           NEW property, Decorated(property, Decorators!PropertyOf(d.name), d),
           \A params \in Seq(Param), operations \in Seq(Operation) :
             property.params = params /\ property.operations = operations => property \in Property,
           properties' = Decorators!WithProperty(d.name, property), mapping' = mapping
    PROVE  DecoratorInv'
  <1> DEFINE name == d.name
             old == Decorators!PropertyOf(name)
  <1>1. old \in Property /\ Decorators!PropertyIsTold(name, old)
    BY PropertiesAreTyped DEF DecoratorInv
  <1>2. applied \in Seq(Decoration)
    BY DEF DecoratorInv, DecoratorTypeOK
  <1>3. /\ property.params \in Seq(Param) /\ property.operations \in Seq(Operation)
        /\ Decorators!PropertyIsTold(name, property)'
    <2> HIDE DEF old
    <2>1. Decorated(property, old, d)
      BY DEF old
    <2> QED
      BY <1>1, <1>2, <2>1, DecoratedIsTold
  <1>4. property \in Property
    BY <1>3
  <1>5. /\ DOMAIN properties' = DOMAIN properties \cup {name}
        /\ \A n \in DOMAIN properties' : properties'[n] = IF n = name THEN property ELSE properties[n]
        /\ DOMAIN properties \subseteq Methods /\ \A n \in DOMAIN properties : properties[n] \in Property
    BY DEF Decorators!WithProperty, DecoratorInv, DecoratorTypeOK
  <1>6. applied' \in Seq(Decoration)
        /\ {e.name : e \in Decorators!ToSet(applied)}' = {e.name : e \in Decorators!ToSet(applied)} \cup {name}
    BY <1>2, NamesGrow
  <1>7. DecoratorTypeOK'
    <2>1. properties' = [n \in DOMAIN properties' |-> properties'[n]]
      BY DEF Decorators!WithProperty
    <2>2. \A n \in DOMAIN properties' : properties'[n] \in Property
      BY <1>4, <1>5
    <2>3. properties' \in [DOMAIN properties' -> Property]
      BY <2>1, <2>2
    <2> QED
      BY <1>5, <1>6, <2>3 DEF DecoratorInv, DecoratorTypeOK
  <1>8. ASSUME NEW n \in Methods
        PROVE  Decorators!PropertyIsTold(n, Decorators!PropertyOf(n))'
    <2>1. CASE n = name
      <3>1. Decorators!PropertyOf(n)' = property
        BY <1>5, <2>1 DEF Decorators!PropertyOf
      <3> QED
        BY <1>3, <2>1, <3>1 DEF Decorators!PropertyIsTold
    <2>2. CASE n # name
      <3> DEFINE p == Decorators!PropertyOf(n)
      <3>1. Decorators!PropertyOf(n)' = p
        BY <1>5, <2>2 DEF Decorators!PropertyOf
      <3>2. Decorators!PropertyIsTold(n, p)
        BY DEF DecoratorInv
      <3>3. PICK q : q = p
        OBVIOUS
      <3>4. Decorators!PropertyIsTold(n, q)'
        <4>1. Decorators!PropertyIsTold(n, q)
          BY <3>2, <3>3
        <4> QED
          BY <1>2, <2>2, <4>1, OthersRemainTold
      <3> QED
        BY <3>1, <3>3, <3>4 DEF Decorators!PropertyIsTold
    <2> QED
      BY <2>1, <2>2
  <1>9. DecorationsAreKept'
    <2>1. name # "none"
      BY DecoratorAssumption
    <2>2. \A kind : Decorators!Written(kind, "none")' = Decorators!Written(kind, "none")
      BY <1>2, <2>1, WrittenGrows
    <2>3. DOMAIN properties' = {e.name : e \in Decorators!ToSet(applied)}' \ {"none"}
      BY <1>5, <1>6, <2>1 DEF DecoratorInv, DecorationsAreKept, Decorators!DecorationsAreKept, Decorators!None
    <2>4. \A n \in DOMAIN properties' : Decorators!PropertyIsTold(n, properties[n])'
      <3>1. \A n \in DOMAIN properties' : n \in Methods /\ Decorators!PropertyOf(n)' = properties'[n]
        BY <1>5 DEF Decorators!PropertyOf
      <3> QED
        BY <1>8, <3>1 DEF Decorators!PropertyIsTold
    <2>5. /\ mapping.mappings' = Decorators!Written("mapping", "none")'
          /\ mapping.operations' = Decorators!Written("operation", "none")'
          /\ mapping.partials' = Decorators!Written("partial", "none")'
      BY <2>2 DEF DecoratorInv, DecorationsAreKept, Decorators!DecorationsAreKept, Decorators!None
    <2> QED
      BY <2>3, <2>4, <2>5 DEF DecorationsAreKept, Decorators!DecorationsAreKept, Decorators!None
  <1> QED
    BY <1>7, <1>8, <1>9 DEF DecoratorInv

\* So does a decorator of the class.
LEMMA ClassIsDecorated ==
    ASSUME DecoratorInv, NEW d \in Decoration, d.name = "none", applied' = Append(applied, d),
           /\ mapping' \in [mappings : Seq(Value), operations : Seq(Value), partials : Seq(Value)]
           /\ mapping'.mappings = IF d.kind = "mapping" THEN Append(mapping.mappings, d.value)
                                  ELSE mapping.mappings
           /\ mapping'.operations = IF d.kind = "operation" THEN Append(mapping.operations, d.value)
                                    ELSE mapping.operations
           /\ mapping'.partials = IF d.kind = "partial" THEN Append(mapping.partials, d.value)
                                  ELSE mapping.partials,
           properties' = properties
    PROVE  DecoratorInv'
  <1>1. applied \in Seq(Decoration) /\ DOMAIN properties \subseteq Methods
    BY DEF DecoratorInv, DecoratorTypeOK
  <1>2. applied' \in Seq(Decoration)
        /\ {e.name : e \in Decorators!ToSet(applied)}' = {e.name : e \in Decorators!ToSet(applied)} \cup {"none"}
    BY <1>1, NamesGrow
  <1>3. DecoratorTypeOK'
    BY <1>2 DEF DecoratorInv, DecoratorTypeOK
  <1>4. ASSUME NEW n \in Methods
        PROVE  Decorators!PropertyIsTold(n, Decorators!PropertyOf(n))'
    <2>1. n # "none"
      BY DecoratorAssumption
    <2> DEFINE p == Decorators!PropertyOf(n)
    <2>2. Decorators!PropertyOf(n)' = p
      BY DEF Decorators!PropertyOf
    <2>3. Decorators!PropertyIsTold(n, p)
      BY DEF DecoratorInv
    <2>4. PICK q : q = p
      OBVIOUS
    <2>5. Decorators!PropertyIsTold(n, q)'
      <3>1. Decorators!PropertyIsTold(n, q)
        BY <2>3, <2>4
      <3> QED
        BY <1>1, <2>1, <3>1, OthersRemainTold
    <2> QED
      BY <2>2, <2>4, <2>5 DEF Decorators!PropertyIsTold
  <1>5. DecorationsAreKept'
    <2>1. ASSUME NEW kind
          PROVE  Decorators!Written(kind, "none")' =
                   IF d.kind = kind THEN Append(Decorators!Written(kind, "none"), d.value)
                   ELSE Decorators!Written(kind, "none")
      BY <1>1, WrittenGrows
    <2>2. DOMAIN properties' = {e.name : e \in Decorators!ToSet(applied)}' \ {"none"}
      BY <1>2 DEF DecoratorInv, DecorationsAreKept, Decorators!DecorationsAreKept, Decorators!None
    <2>3. \A n \in DOMAIN properties' : Decorators!PropertyIsTold(n, properties[n])'
      <3>1. \A n \in DOMAIN properties' : n \in Methods /\ Decorators!PropertyOf(n)' = properties'[n]
        BY <1>1 DEF Decorators!PropertyOf
      <3> QED
        BY <1>4, <3>1 DEF Decorators!PropertyIsTold
    <2>4. /\ mapping.mappings' = Decorators!Written("mapping", "none")'
          /\ mapping.operations' = Decorators!Written("operation", "none")'
          /\ mapping.partials' = Decorators!Written("partial", "none")'
      BY <2>1 DEF DecoratorInv, DecorationsAreKept, Decorators!DecorationsAreKept, Decorators!None
    <2> QED
      BY <2>2, <2>3, <2>4 DEF DecorationsAreKept, Decorators!DecorationsAreKept, Decorators!None
  <1> QED
    BY <1>3, <1>4, <1>5 DEF DecoratorInv

\* The decorators of methods, one by one.
LEMMA MappingIsTold ==
    ASSUME DecoratorInv, NEW name \in Methods, NEW pattern \in MappingValues,
           Decorators!attachControllerMethodMapping(name, pattern)
    PROVE  DecoratorInv'
  <1> DEFINE old == Decorators!PropertyOf(name)
             d == [kind |-> "mapping", name |-> name, index |-> 0, id |-> "none", value |-> pattern]
             property == [old EXCEPT !.mappings = <<pattern>> \o old.mappings]
  <1>1. /\ applied' = Append(applied, d)
        /\ properties' = Decorators!WithProperty(name, property)
        /\ mapping' = mapping
    BY DEF Decorators!attachControllerMethodMapping, Decorators!Apply, Decorators!None
  <1>2. d \in Decoration /\ d.name = name
    BY DEF Decoration, Kinds, Value
  <1>3. \A s \in Seq(Value) : <<pattern>> \o s \in Seq(Value)
    <2>1. pattern \in Value
      BY DEF Value
    <2> QED
      BY <2>1
  <1>4. old \in Property
    BY PropertiesAreTyped DEF DecoratorInv
  <1>5. PICK o : o = old
    OBVIOUS
  <1> DEFINE new == [o EXCEPT !.mappings = <<pattern>> \o o.mappings]
  <1>6. new = property
    BY <1>5
  <1> HIDE DEF old, property
  <1>7. o \in Property /\ Decorators!PropertyOf(name) = o
    BY <1>4, <1>5 DEF old
  <1>8. Decorated(new, o, d)
    BY <1>7 DEF Decorated, Property, Decorators!ParamKinds
  <1>9. \A params \in Seq(Param), operations \in Seq(Operation) :
          new.params = params /\ new.operations = operations => new \in Property
    BY <1>7, <1>3 DEF Property
  <1> HIDE DEF new, d
  <1> QED
    BY <1>1, <1>2, <1>6, <1>7, <1>8, <1>9, MethodIsDecorated

LEMMA PathIsTold ==
    ASSUME DecoratorInv, NEW name \in Methods, NEW i \in 0..1,
           Decorators!PathVariable(name, i)
    PROVE  DecoratorInv'
  <1> DEFINE old == Decorators!PropertyOf(name)
             config == [id |-> name, says |-> {"path"}, summary |-> "none"]
             d == [kind |-> "param", name |-> name, index |-> i, id |-> name, value |-> "path"]
             property == [old EXCEPT
                            !.params = Decorators!WithParam(old.params, i, [of |-> "param", value |-> "path"]),
                            !.operations = Decorators!WithOperation(old.operations, config)]
  <1>1. /\ applied' = Append(applied, d)
        /\ properties' = Decorators!WithProperty(name, property)
        /\ mapping' = mapping
    BY DEF Decorators!PathVariable, Decorators!Apply, Decorators!None
  <1>2. d \in Decoration /\ d.name = name
    BY DEF Decoration, Kinds, Value
  <1>3. config \in Operation /\ config.id = d.id /\ config.says = {d.value} /\ d.id # "none"
    BY DecoratorAssumption DEF DecoratorAssumption, Operation, Value
  <1>4. old \in Property
    BY PropertiesAreTyped DEF DecoratorInv
  <1>5. PICK o : o = old
    OBVIOUS
  <1> DEFINE new == [o EXCEPT
                            !.params = Decorators!WithParam(o.params, i, [of |-> "param", value |-> "path"]),
                            !.operations = Decorators!WithOperation(o.operations, config)]
  <1>6. new = property
    BY <1>5
  <1> HIDE DEF old, property
  <1>7. o \in Property /\ Decorators!PropertyOf(name) = o
    BY <1>4, <1>5 DEF old
  <1>8. Decorated(new, o, d)
    BY <1>7, <1>3 DEF Decorated, Property, Decorators!ParamKinds
  <1>9. \A params \in Seq(Param), operations \in Seq(Operation) :
          new.params = params /\ new.operations = operations => new \in Property
    BY <1>7 DEF Property
  <1> HIDE DEF new, d
  <1> QED
    BY <1>1, <1>2, <1>6, <1>7, <1>8, <1>9, MethodIsDecorated

LEMMA BodyIsTold ==
    ASSUME DecoratorInv, NEW name \in Methods, NEW i \in 0..1,
           Decorators!RequestBody(name, i)
    PROVE  DecoratorInv'
  <1> DEFINE old == Decorators!PropertyOf(name)
             config == [id |-> name, says |-> {"body"}, summary |-> "none"]
             d == [kind |-> "body", name |-> name, index |-> i, id |-> name, value |-> "body"]
             property == [old EXCEPT
                            !.body = TRUE,
                            !.params = Decorators!WithParam(old.params, i, [of |-> "body", value |-> "body"]),
                            !.operations = Decorators!WithOperation(old.operations, config)]
  <1>1. /\ applied' = Append(applied, d)
        /\ properties' = Decorators!WithProperty(name, property)
        /\ mapping' = mapping
    BY DEF Decorators!RequestBody, Decorators!Apply, Decorators!None
  <1>2. d \in Decoration /\ d.name = name
    BY DEF Decoration, Kinds, Value
  <1>3. config \in Operation /\ config.id = d.id /\ config.says = {d.value} /\ d.id # "none"
    BY DecoratorAssumption DEF DecoratorAssumption, Operation, Value
  <1>4. old \in Property
    BY PropertiesAreTyped DEF DecoratorInv
  <1>5. PICK o : o = old
    OBVIOUS
  <1> DEFINE new == [o EXCEPT
                            !.body = TRUE,
                            !.params = Decorators!WithParam(o.params, i, [of |-> "body", value |-> "body"]),
                            !.operations = Decorators!WithOperation(o.operations, config)]
  <1>6. new = property
    BY <1>5
  <1> HIDE DEF old, property
  <1>7. o \in Property /\ Decorators!PropertyOf(name) = o
    BY <1>4, <1>5 DEF old
  <1>8. Decorated(new, o, d)
    BY <1>7, <1>3 DEF Decorated, Property, Decorators!ParamKinds
  <1>9. \A params \in Seq(Param), operations \in Seq(Operation) :
          new.params = params /\ new.operations = operations => new \in Property
    BY <1>7 DEF Property
  <1> HIDE DEF new, d
  <1> QED
    BY <1>1, <1>2, <1>6, <1>7, <1>8, <1>9, MethodIsDecorated

LEMMA AttributeIsTold ==
    ASSUME DecoratorInv, NEW name \in Methods, NEW i \in 0..1,
           Decorators!ModelAttributeParam(name, i)
    PROVE  DecoratorInv'
  <1> DEFINE old == Decorators!PropertyOf(name)
             d == [kind |-> "attribute", name |-> name, index |-> i, id |-> "none", value |-> "user"]
             property == [old EXCEPT
                            !.params = Decorators!WithParam(old.params, i, [of |-> "attribute", value |-> "user"])]
  <1>1. /\ applied' = Append(applied, d)
        /\ properties' = Decorators!WithProperty(name, property)
        /\ mapping' = mapping
    BY DEF Decorators!ModelAttributeParam, Decorators!Apply, Decorators!None
  <1>2. d \in Decoration /\ d.name = name
    BY DEF Decoration, Kinds, Value
  <1>3. old \in Property
    BY PropertiesAreTyped DEF DecoratorInv
  <1>4. PICK o : o = old
    OBVIOUS
  <1> DEFINE new == [o EXCEPT
                            !.params = Decorators!WithParam(o.params, i, [of |-> "attribute", value |-> "user"])]
  <1>5. new = property
    BY <1>4
  <1> HIDE DEF old, property
  <1>6. o \in Property /\ Decorators!PropertyOf(name) = o
    BY <1>3, <1>4 DEF old
  <1>7. Decorated(new, o, d)
    BY <1>6 DEF Decorated, Property, Decorators!ParamKinds
  <1>8. \A params \in Seq(Param), operations \in Seq(Operation) :
          new.params = params /\ new.operations = operations => new \in Property
    BY <1>6 DEF Property
  <1> HIDE DEF new, d
  <1> QED
    BY <1>1, <1>2, <1>5, <1>6, <1>7, <1>8, MethodIsDecorated

LEMMA BuilderIsTold ==
    ASSUME DecoratorInv, NEW name \in Methods,
           Decorators!attachControllerMethodModelAttributeBuilder(name)
    PROVE  DecoratorInv'
  <1> DEFINE old == Decorators!PropertyOf(name)
             d == [kind |-> "builder", name |-> name, index |-> 0, id |-> "none", value |-> "user"]
             property == [old EXCEPT !.attributes = <<"user">> \o old.attributes]
  <1>1. /\ applied' = Append(applied, d)
        /\ properties' = Decorators!WithProperty(name, property)
        /\ mapping' = mapping
    BY DEF Decorators!attachControllerMethodModelAttributeBuilder, Decorators!Apply, Decorators!None
  <1>2. d \in Decoration /\ d.name = name
    BY DEF Decoration, Kinds, Value
  <1>3. \A s \in Seq(Value) : <<"user">> \o s \in Seq(Value)
    <2>1. "user" \in Value
      BY DEF Value
    <2> QED
      BY <2>1
  <1>4. old \in Property
    BY PropertiesAreTyped DEF DecoratorInv
  <1>5. PICK o : o = old
    OBVIOUS
  <1> DEFINE new == [o EXCEPT !.attributes = <<"user">> \o o.attributes]
  <1>6. new = property
    BY <1>5
  <1> HIDE DEF old, property
  <1>7. o \in Property /\ Decorators!PropertyOf(name) = o
    BY <1>4, <1>5 DEF old
  <1>8. Decorated(new, o, d)
    BY <1>7 DEF Decorated, Property, Decorators!ParamKinds
  <1>9. \A params \in Seq(Param), operations \in Seq(Operation) :
          new.params = params /\ new.operations = operations => new \in Property
    BY <1>7, <1>3 DEF Property
  <1> HIDE DEF new, d
  <1> QED
    BY <1>1, <1>2, <1>6, <1>7, <1>8, <1>9, MethodIsDecorated

LEMMA SynchronizedIsTold ==
    ASSUME DecoratorInv, NEW name \in Methods,
           Decorators!attachControllerSynchronizedRequest(name)
    PROVE  DecoratorInv'
  <1> DEFINE old == Decorators!PropertyOf(name)
             d == [kind |-> "synchronized", name |-> name, index |-> 0, id |-> "none", value |-> "none"]
             property == [old EXCEPT !.synchronized = TRUE]
  <1>1. /\ applied' = Append(applied, d)
        /\ properties' = Decorators!WithProperty(name, property)
        /\ mapping' = mapping
    BY DEF Decorators!attachControllerSynchronizedRequest, Decorators!Apply, Decorators!None
  <1>2. d \in Decoration /\ d.name = name
    BY DEF Decoration, Kinds, Value
  <1>3. old \in Property
    BY PropertiesAreTyped DEF DecoratorInv
  <1>4. PICK o : o = old
    OBVIOUS
  <1> DEFINE new == [o EXCEPT !.synchronized = TRUE]
  <1>5. new = property
    BY <1>4
  <1> HIDE DEF old, property
  <1>6. o \in Property /\ Decorators!PropertyOf(name) = o
    BY <1>3, <1>4 DEF old
  <1>7. Decorated(new, o, d)
    BY <1>6 DEF Decorated, Property, Decorators!ParamKinds
  <1>8. \A params \in Seq(Param), operations \in Seq(Operation) :
          new.params = params /\ new.operations = operations => new \in Property
    BY <1>6 DEF Property
  <1> HIDE DEF new, d
  <1> QED
    BY <1>1, <1>2, <1>5, <1>6, <1>7, <1>8, MethodIsDecorated

LEMMA OperationIsTold ==
    ASSUME DecoratorInv, NEW name \in Methods, NEW id \in OperationIds \cup {"none"},
           NEW says \in {"response", "tag"}, NEW summary \in {"none", "summary"},
           Decorators!attachControllerOperation(name, id, says, summary)
    PROVE  DecoratorInv'
  <1> DEFINE old == Decorators!PropertyOf(name)
             config == [id |-> IF id = "none" THEN name ELSE id, says |-> {says}, summary |-> summary]
             d == [kind |-> "operation", name |-> name, index |-> 0, id |-> config.id, value |-> says]
             property == [old EXCEPT !.operations = Decorators!WithOperation(old.operations, config)]
  <1>1. /\ applied' = Append(applied, d)
        /\ properties' = Decorators!WithProperty(name, property)
        /\ mapping' = mapping
    BY DEF Decorators!attachControllerOperation, Decorators!Apply, Decorators!None
  <1>2. d \in Decoration /\ d.name = name
    BY DEF Decoration, Kinds, Value
  <1>3. config \in Operation /\ config.id = d.id /\ config.says = {d.value} /\ d.id # "none"
    BY DecoratorAssumption DEF DecoratorAssumption, Operation, Value
  <1>4. old \in Property
    BY PropertiesAreTyped DEF DecoratorInv
  <1>5. PICK o : o = old
    OBVIOUS
  <1> DEFINE new == [o EXCEPT !.operations = Decorators!WithOperation(o.operations, config)]
  <1>6. new = property
    BY <1>5
  <1> HIDE DEF old, property
  <1>7. o \in Property /\ Decorators!PropertyOf(name) = o
    BY <1>4, <1>5 DEF old
  <1>8. Decorated(new, o, d)
    BY <1>7, <1>3 DEF Decorated, Property, Decorators!ParamKinds
  <1>9. \A params \in Seq(Param), operations \in Seq(Operation) :
          new.params = params /\ new.operations = operations => new \in Property
    BY <1>7 DEF Property
  <1> HIDE DEF new, d
  <1> QED
    BY <1>1, <1>2, <1>6, <1>7, <1>8, <1>9, MethodIsDecorated

\* The decorators of the class, one by one.
LEMMA ClassMappingIsTold ==
    ASSUME DecoratorInv, NEW pattern \in MappingValues, Decorators!attachControllerMapping(pattern)
    PROVE  DecoratorInv'
  <1> DEFINE d == [kind |-> "mapping", name |-> "none", index |-> 0, id |-> "none", value |-> pattern]
  <1>1. /\ applied' = Append(applied, d)
        /\ mapping' = [mapping EXCEPT !.mappings = Append(mapping.mappings, pattern)]
        /\ properties' = properties
    BY DEF Decorators!attachControllerMapping, Decorators!Apply, Decorators!None
  <1>2. d \in Decoration /\ pattern \in Value
    BY DEF Decoration, Kinds, Value
  <1>3. mapping \in [mappings : Seq(Value), operations : Seq(Value), partials : Seq(Value)]
    BY DEF DecoratorInv, DecoratorTypeOK
  <1>4. /\ mapping' \in [mappings : Seq(Value), operations : Seq(Value), partials : Seq(Value)]
        /\ mapping'.mappings = Append(mapping.mappings, pattern)
        /\ mapping'.operations = mapping.operations
        /\ mapping'.partials = mapping.partials
    <2>1. Append(mapping.mappings, pattern) \in Seq(Value)
      BY <1>2, <1>3
    <2> HIDE DEF d
    <2> QED
      BY <1>1, <1>3, <2>1
  <1>5. d.kind = "mapping" /\ d.name = "none" /\ d.value = pattern
    OBVIOUS
  <1> HIDE DEF d
  <1> QED
    BY <1>1, <1>2, <1>4, <1>5, ClassIsDecorated

LEMMA ClassOperationIsTold ==
    ASSUME DecoratorInv, NEW id \in OperationIds, Decorators!attachClassOperation(id)
    PROVE  DecoratorInv'
  <1> DEFINE d == [kind |-> "operation", name |-> "none", index |-> 0, id |-> "none", value |-> id]
  <1>1. /\ applied' = Append(applied, d)
        /\ mapping' = [mapping EXCEPT !.operations = Append(mapping.operations, id)]
        /\ properties' = properties
    BY DEF Decorators!attachClassOperation, Decorators!Apply, Decorators!None
  <1>2. d \in Decoration /\ id \in Value
    BY DEF Decoration, Kinds, Value
  <1>3. mapping \in [mappings : Seq(Value), operations : Seq(Value), partials : Seq(Value)]
    BY DEF DecoratorInv, DecoratorTypeOK
  <1>4. /\ mapping' \in [mappings : Seq(Value), operations : Seq(Value), partials : Seq(Value)]
        /\ mapping'.mappings = mapping.mappings
        /\ mapping'.operations = Append(mapping.operations, id)
        /\ mapping'.partials = mapping.partials
    <2>1. Append(mapping.operations, id) \in Seq(Value)
      BY <1>2, <1>3
    <2> HIDE DEF d
    <2> QED
      BY <1>1, <1>3, <2>1
  <1>5. d.kind = "operation" /\ d.name = "none" /\ d.value = id
    OBVIOUS
  <1> HIDE DEF d
  <1> QED
    BY <1>1, <1>2, <1>4, <1>5, ClassIsDecorated

LEMMA ClassDocumentIsTold ==
    ASSUME DecoratorInv, NEW id \in OperationIds, Decorators!attachControllerOpenApiDocument(id)
    PROVE  DecoratorInv'
  <1> DEFINE d == [kind |-> "partial", name |-> "none", index |-> 0, id |-> "none", value |-> id]
  <1>1. /\ applied' = Append(applied, d)
        /\ mapping' = [mapping EXCEPT !.partials = Append(mapping.partials, id)]
        /\ properties' = properties
    BY DEF Decorators!attachControllerOpenApiDocument, Decorators!Apply, Decorators!None
  <1>2. d \in Decoration /\ id \in Value
    BY DEF Decoration, Kinds, Value
  <1>3. mapping \in [mappings : Seq(Value), operations : Seq(Value), partials : Seq(Value)]
    BY DEF DecoratorInv, DecoratorTypeOK
  <1>4. /\ mapping' \in [mappings : Seq(Value), operations : Seq(Value), partials : Seq(Value)]
        /\ mapping'.mappings = mapping.mappings
        /\ mapping'.operations = mapping.operations
        /\ mapping'.partials = Append(mapping.partials, id)
    <2>1. Append(mapping.partials, id) \in Seq(Value)
      BY <1>2, <1>3
    <2> HIDE DEF d
    <2> QED
      BY <1>1, <1>3, <2>1
  <1>5. d.kind = "partial" /\ d.name = "none" /\ d.value = id
    OBVIOUS
  <1> HIDE DEF d
  <1> QED
    BY <1>1, <1>2, <1>4, <1>5, ClassIsDecorated

\* The mapping of a controller tells all of its decorators, in whatever order
\* they are applied: for any number of them, of any methods.
THEOREM DecorationsStayKept == Decorators!DecoratorSpec => []DecorationsAreKept
  <1>1. Decorators!DecoratorInit => DecoratorInv
    <2> SUFFICES ASSUME Decorators!DecoratorInit PROVE DecoratorInv
      OBVIOUS
    <2>1. /\ applied = <<>> /\ DOMAIN applied = {} /\ DOMAIN properties = {}
          /\ mapping = [mappings |-> <<>>, operations |-> <<>>, partials |-> <<>>]
          /\ properties = [name \in {} |-> Decorators!NewProperty]
      BY DEF Decorators!DecoratorInit
    <2>2. Decorators!ToSet(applied) = {} /\ ToSet(<<>>) = {}
      BY <2>1 DEF Decorators!ToSet, ToSet
    <2>3. \A kind, name : Decorators!Written(kind, name) = <<>>
      <3> TAKE kind, name
      <3>1. DOMAIN <<>> = {} /\ Len(<<>>) = 0
        OBVIOUS
      <3>2. Decorators!FlattenSeq([i \in DOMAIN applied |->
                IF applied[i].kind = kind /\ applied[i].name = name THEN <<applied[i]>> ELSE <<>>]) = <<>>
        <4>1. [i \in DOMAIN applied |->
                 IF applied[i].kind = kind /\ applied[i].name = name THEN <<applied[i]>> ELSE <<>>] = <<>>
          BY <2>1
        <4>2. Decorators!FlattenSeq(<<>>) = <<>>
          BY <3>1 DEF Decorators!FlattenSeq
        <4> QED
          BY <4>1, <4>2
      <3> QED
        BY <3>1, <3>2 DEF Decorators!Written, Decorators!Those, Decorators!Each
    <2>4. DecoratorTypeOK
      <3>1. <<>> \in Seq(Decoration) /\ <<>> \in Seq(Value)
        BY EmptySeq
      <3> QED
        BY <2>1, <3>1 DEF DecoratorTypeOK
    <2>5. DecorationsAreKept
      BY <2>1, <2>2, <2>3 DEF DecorationsAreKept, Decorators!DecorationsAreKept
    <2>6. \A name \in Methods : Decorators!PropertyIsTold(name, Decorators!PropertyOf(name))
      <3> TAKE name \in Methods
      <3> DEFINE new == Decorators!NewProperty
      <3>1. Decorators!PropertyOf(name) = new
        BY <2>1 DEF Decorators!PropertyOf
      <3>2. /\ new.mappings = <<>> /\ new.params = <<>> /\ new.attributes = <<>>
            /\ new.synchronized = FALSE /\ new.body = FALSE /\ new.operations = <<>>
        BY DEF Decorators!NewProperty
      <3>3. Decorators!Reverse(<<>>) = <<>>
        BY DEF Decorators!Reverse
      <3>4. Decorators!ParamsAreTold(name, <<>>)
        BY <2>1 DEF Decorators!ParamsAreTold, Decorators!ParamPlaces
      <3>5. Decorators!OperationsAreTold(name, <<>>)
        <4>1. Decorators!Sayings(name) = {} /\ Decorators!ToSet(<<>>) = {}
          BY <2>2, SameLists DEF Decorators!Sayings
        <4> QED
          BY <4>1 DEF Decorators!OperationsAreTold
      <3> HIDE DEF new
      <3> QED
        BY <2>3, <3>1, <3>2, <3>3, <3>4, <3>5 DEF Decorators!PropertyIsTold
    <2> QED
      BY <2>4, <2>5, <2>6 DEF DecoratorInv
  <1>2. DecoratorInv /\ [Decorators!DecoratorNext]_(Decorators!decoratorVars) => DecoratorInv'
    <2> SUFFICES ASSUME DecoratorInv, [Decorators!DecoratorNext]_(Decorators!decoratorVars)
                 PROVE  DecoratorInv'
      OBVIOUS
    <2>1. CASE UNCHANGED Decorators!decoratorVars
      <3>1. mapping' = mapping /\ properties' = properties /\ applied' = applied
        BY <2>1 DEF Decorators!decoratorVars
      <3>2. \A kind, name : Decorators!Written(kind, name)' = Decorators!Written(kind, name)
        BY <3>1 DEF Decorators!Written, Decorators!Those, Decorators!Each
      <3>3. \A name : Decorators!PropertyOf(name)' = Decorators!PropertyOf(name)
        BY <3>1 DEF Decorators!PropertyOf
      <3>4. ASSUME NEW name, NEW property, Decorators!PropertyIsTold(name, property)
            PROVE  Decorators!PropertyIsTold(name, property)'
        <4>1. Decorators!ParamsAreTold(name, property.params)'
          BY <3>1, <3>4 DEF Decorators!PropertyIsTold, Decorators!ParamsAreTold, Decorators!ParamPlaces
        <4>2. Decorators!OperationsAreTold(name, property.operations)'
          BY <3>1, <3>4 DEF Decorators!PropertyIsTold, Decorators!OperationsAreTold, Decorators!Sayings
        <4> QED
          BY <3>2, <3>4, <4>1, <4>2 DEF Decorators!PropertyIsTold
      <3>5. DecoratorTypeOK'
        BY <3>1 DEF DecoratorInv, DecoratorTypeOK
      <3>6. ASSUME NEW name \in Methods
            PROVE  Decorators!PropertyIsTold(name, Decorators!PropertyOf(name))'
        <4>1. PICK property : property = Decorators!PropertyOf(name)
          OBVIOUS
        <4>2. Decorators!PropertyIsTold(name, property)
          BY <4>1 DEF DecoratorInv
        <4>3. Decorators!PropertyIsTold(name, property)'
          BY <3>4, <4>2
        <4> QED
          BY <3>3, <4>1, <4>3 DEF Decorators!PropertyIsTold
      <3>7. DecorationsAreKept'
        <4>1. \A name \in DOMAIN properties : name \in Methods /\ Decorators!PropertyOf(name) = properties[name]
          BY DEF DecoratorInv, DecoratorTypeOK, Decorators!PropertyOf
        <4>2. \A name \in DOMAIN properties' : Decorators!PropertyIsTold(name, properties[name])'
          BY <3>1, <3>3, <3>6, <4>1 DEF Decorators!PropertyIsTold
        <4> QED
          BY <3>1, <3>2, <4>2 DEF DecoratorInv, DecorationsAreKept, Decorators!DecorationsAreKept
      <3> QED
        BY <3>5, <3>6, <3>7 DEF DecoratorInv
    <2>2. CASE \E pattern \in MappingValues : Decorators!attachControllerMapping(pattern)
      BY <2>2, ClassMappingIsTold
    <2>3. CASE \E id \in OperationIds :
                 Decorators!attachClassOperation(id) \/ Decorators!attachControllerOpenApiDocument(id)
      BY <2>3, ClassOperationIsTold, ClassDocumentIsTold
    <2>4. ASSUME NEW name \in Methods, NEW pattern \in MappingValues,
                 Decorators!attachControllerMethodMapping(name, pattern)
          PROVE  DecoratorInv'
      BY <2>4, MappingIsTold
    <2>5. ASSUME NEW name \in Methods, NEW i \in 0..1,
                 \/ Decorators!PathVariable(name, i)
                 \/ Decorators!RequestBody(name, i)
                 \/ Decorators!ModelAttributeParam(name, i)
          PROVE  DecoratorInv'
      BY <2>5, PathIsTold, BodyIsTold, AttributeIsTold
    <2>6. ASSUME NEW name \in Methods,
                 \/ Decorators!attachControllerMethodModelAttributeBuilder(name)
                 \/ Decorators!attachControllerSynchronizedRequest(name)
                 \/ Decorators!attachControllerOperation(name, Decorators!None, "response", Decorators!None)
                 \/ \E id \in OperationIds \cup {Decorators!None} :
                      Decorators!attachControllerOperation(name, id, "tag", "summary")
          PROVE  DecoratorInv'
      BY <2>6, BuilderIsTold, SynchronizedIsTold, OperationIsTold DEF Decorators!None
    <2> QED
      BY <2>1, <2>2, <2>3, <2>4, <2>5, <2>6 DEF Decorators!DecoratorNext
  <1>3. DecoratorInv => DecorationsAreKept
    BY DEF DecoratorInv
  <1> QED
    BY <1>1, <1>2, <1>3, PTL DEF Decorators!DecoratorSpec

------------------------------------------------------------------------------
\* HostsService

HostEntry == [address : Addresses, hostnames : Seq(Hostnames)]

\* Addresses that have several entries in what is given from outside.
Twice == {a \in Addresses : Hosts!GivenTwice(a)}

\* Any other address has one entry.
OneEntryEach(model) ==
    \A i, j \in DOMAIN model : model[i].address = model[j].address => i = j \/ model[i].address \in Twice

HostLists == {m \in Seq(HostEntry) : OneEntryEach(m)}

OnceIn(hostname, hostnames) ==
    \E j \in DOMAIN hostnames : \A k \in DOMAIN hostnames : hostnames[k] = hostname <=> k = j

\* The address has an entry, and each of its entries has the hostname in one place.
HasOnce(model, address, hostname) ==
    /\ \E i \in DOMAIN model : model[i].address = address
    /\ \A i \in DOMAIN model : model[i].address = address => OnceIn(hostname, model[i].hostnames)

\* What a hosts file is made of.
LEMMA HostLists1 ==
    ASSUME NEW m \in HostLists
    PROVE  /\ m \in Seq(HostEntry) /\ Len(m) \in Nat /\ DOMAIN m = 1..Len(m)
           /\ \A i \in 1..Len(m) : m[i] \in HostEntry /\ m[i].address \in Addresses
                                   /\ m[i].hostnames \in Seq(Hostnames)
           /\ \A i, j \in 1..Len(m) : m[i].address = m[j].address => i = j \/ m[i].address \in Twice
  <1>1. m \in Seq(HostEntry) /\ DOMAIN m = 1..Len(m) /\ Len(m) \in Nat
    BY DEF HostLists
  <1>2. \A i \in 1..Len(m) : m[i] \in HostEntry
    BY <1>1
  <1> QED
    BY <1>1, <1>2 DEF HostLists, OneEntryEach, HostEntry

LEMMA SameHostLists ==
    ASSUME NEW texts
    PROVE  Hosts!FlattenSeq(texts) = FlattenSeq(texts) /\ Hosts!ToSet(texts) = ToSet(texts)
  <1>1. Hosts!FlattenSeq(texts) = FlattenSeq(texts)
    BY DEF Hosts!FlattenSeq, FlattenSeq
  <1>2. Hosts!ToSet(texts) = ToSet(texts)
    BY DEF Hosts!ToSet, ToSet
  <1> QED
    BY <1>1, <1>2

LEMMA GivenLists == HostModels \subseteq HostLists
  <1> SUFFICES ASSUME NEW m \in HostModels PROVE m \in HostLists
    OBVIOUS
  <1>1. m \in Seq(HostEntry) /\ \A i \in DOMAIN m : m[i].address \in Addresses
    <2>1. m \in Seq(HostEntry)
      BY HostsAssumption DEF HostEntry
    <2>2. \A i \in DOMAIN m : m[i] \in HostEntry
      BY <2>1
    <2> QED
      BY <2>1, <2>2 DEF HostEntry
  <1>2. \A i, j \in DOMAIN m : m[i].address = m[j].address /\ i # j => Hosts!GivenTwice(m[i].address)
    BY DEF Hosts!GivenTwice
  <1>3. OneEntryEach(m)
    BY <1>1, <1>2 DEF OneEntryEach, Twice
  <1> QED
    BY <1>1, <1>3 DEF HostLists

\* The index of the first entry that has an address.
LEMMA ByAddressFinds ==
    ASSUME NEW m \in HostLists, NEW address
    PROVE  LET i == Hosts!ByAddress(m, address)
           IN  \/ i = 0 /\ \A j \in 1..Len(m) : m[j].address # address
               \/ i \in 1..Len(m) /\ m[i].address = address
  <1> DEFINE I == {j \in 1..Len(m) : m[j].address = address}
  <1>1. Hosts!ByAddress(m, address) = IF I # {} THEN Hosts!Min(I) ELSE 0
    BY DEF Hosts!ByAddress, Hosts!SelectInSeq
  <1>2. I # {} => Hosts!Min(I) \in I
    <2>1. I \subseteq Nat \ {0}
      BY HostLists1
    <2> HIDE DEF I
    <2> QED
      BY <2>1, LeastNatural DEF Hosts!Min
  <1> QED
    BY <1>1, <1>2

LEMMA ByHostnameFinds ==
    ASSUME NEW m \in HostLists, NEW hostname
    PROVE  Hosts!ByHostname(m, hostname) \in 0..Len(m)
  <1> DEFINE I == {j \in 1..Len(m) : Hosts!Contains(m[j].hostnames, hostname)}
  <1>1. Hosts!ByHostname(m, hostname) = IF I # {} THEN Hosts!Min(I) ELSE 0
    BY DEF Hosts!ByHostname, Hosts!SelectInSeq
  <1>2. I # {} => Hosts!Min(I) \in I
    <2>1. I \subseteq Nat \ {0}
      BY HostLists1
    <2> HIDE DEF I
    <2> QED
      BY <2>1, LeastNatural DEF Hosts!Min
  <1>3. Len(m) \in Nat
    BY HostLists1
  <1> QED
    BY <1>1, <1>2, <1>3

\* The entry of an address is replaced, or added at the end.
LEMMA SetAddressKeeps ==
    ASSUME NEW m \in HostLists, NEW address \in Addresses, NEW hostnames \in Seq(Hostnames)
    PROVE  LET set == Hosts!SetAddress(m, address, hostnames)
           IN  /\ set \in HostLists
               /\ \E i \in DOMAIN set : set[i].address = address
               /\ \A i \in DOMAIN set : set[i].address = address => set[i].hostnames = hostnames
  <1> DEFINE set == Hosts!SetAddress(m, address, hostnames)
             new == Hosts!Entry(address, hostnames)
  <1>1. new \in HostEntry /\ new.address = address /\ new.hostnames = hostnames
    BY DEF Hosts!Entry, HostEntry
  <1>2. /\ m \in Seq(HostEntry) /\ Len(m) \in Nat /\ DOMAIN m = 1..Len(m)
        /\ \A i \in 1..Len(m) : m[i] \in HostEntry
        /\ \A i, j \in 1..Len(m) : m[i].address = m[j].address => i = j \/ m[i].address \in Twice
    BY HostLists1
  <1>3. set = IF Hosts!ByAddress(m, address) = 0 THEN Append(m, new)
              ELSE [i \in 1..Len(m) |-> IF m[i].address = address THEN new ELSE m[i]]
    BY <1>2 DEF Hosts!SetAddress
  <1> HIDE DEF new, set
  <1>4. CASE Hosts!ByAddress(m, address) = 0
    <2>1. \A j \in 1..Len(m) : m[j].address # address
      BY <1>2, <1>4, ByAddressFinds
    <2>2. /\ set \in Seq(HostEntry) /\ Len(set) = Len(m) + 1 /\ DOMAIN set = 1..Len(m) + 1
          /\ \A i \in 1..Len(m) : set[i] = m[i]
          /\ set[Len(m) + 1] = new
      <3>1. set = Append(m, new)
        BY <1>3, <1>4
      <3> QED
        BY <1>1, <1>2, <3>1, AppendByIndex
    <2>3. \A i \in 1..Len(m) + 1 : i \in 1..Len(m) \/ i = Len(m) + 1
      BY <1>2
    <2>4. OneEntryEach(set)
      BY <1>1, <1>2, <2>1, <2>2, <2>3 DEF OneEntryEach
    <2>5. Len(m) + 1 \in DOMAIN set
      BY <1>2, <2>2
    <2> QED
      BY <1>1, <2>1, <2>2, <2>3, <2>4, <2>5 DEF HostLists, set
  <1>5. CASE Hosts!ByAddress(m, address) # 0
    <2>1. PICK k \in 1..Len(m) : m[k].address = address
      BY <1>5, ByAddressFinds
    <2>2. set = [i \in 1..Len(m) |-> IF m[i].address = address THEN new ELSE m[i]]
      BY <1>3, <1>5
    <2>3. set \in [1..Len(m) -> HostEntry] /\ \A i \in 1..Len(m) : set[i].address = m[i].address
      BY <1>1, <1>2, <2>2
    <2>4. set \in Seq(HostEntry) /\ DOMAIN set = 1..Len(m)
      BY <1>2, <2>3, IsASeq
    <2>5. OneEntryEach(set)
      BY <1>2, <2>3, <2>4 DEF OneEntryEach
    <2>6. set[k] = new /\ k \in DOMAIN set
      BY <2>1, <2>2
    <2> QED
      BY <1>1, <1>2, <2>2, <2>4, <2>5, <2>6 DEF HostLists, set
  <1> QED
    BY <1>4, <1>5

\* A selection of entries has no address twice either.
LEMMA RemoveAddressKeeps ==
    ASSUME NEW m \in HostLists, NEW address
    PROVE  Hosts!RemoveAddress(m, address) \in HostLists
  <1> DEFINE kept == {e \in HostEntry : e.address = address}
             remaining == Hosts!RemoveAddress(m, address)
  <1>1. /\ m \in Seq(HostEntry) /\ Len(m) \in Nat /\ DOMAIN m = 1..Len(m)
        /\ \A i \in 1..Len(m) : m[i] \in HostEntry
        /\ \A i, j \in 1..Len(m) : m[i].address = m[j].address => i = j \/ m[i].address \in Twice
    BY HostLists1
  <1>2. remaining = Kept(m, kept)
    <2>1. [i \in DOMAIN m |-> IF m[i].address = address THEN <<m[i]>> ELSE <<>>]
            = [i \in DOMAIN m |-> IF m[i] \in kept THEN <<m[i]>> ELSE <<>>]
      BY <1>1
    <2> QED
      BY <2>1, SameHostLists DEF Hosts!RemoveAddress, Hosts!Those, Hosts!Each, Kept
  <1> HIDE DEF remaining, kept
  <1>3. remaining \in Seq(HostEntry)
    BY <1>1, <1>2, KeptIncreasing
  <1>4. PICK at \in [1..Len(remaining) -> 1..Len(m)] :
          /\ \A i \in 1..Len(remaining) : remaining[i] = m[at[i]] /\ m[at[i]] \in kept
          /\ \A i, j \in 1..Len(remaining) : i < j => at[i] < at[j]
    BY <1>1, <1>2, KeptIncreasing
  <1>5. OneEntryEach(remaining)
    <2> SUFFICES ASSUME NEW i \in 1..Len(remaining), NEW j \in 1..Len(remaining), remaining[i].address = remaining[j].address,
                          remaining[i].address \notin Twice
                 PROVE  i = j
      BY <1>3 DEF OneEntryEach
    <2>1. at[i] = at[j] /\ at[i] \in Nat
      BY <1>1, <1>4
    <2>2. ~ i < j /\ ~ j < i
      BY <1>4, <2>1
    <2> QED
      BY <2>2
  <1> QED
    BY <1>3, <1>5 DEF HostLists, remaining

\* Taking a hostname out of its entry leaves entries of different addresses.
LEMMA WithoutHostnameKeeps ==
    ASSUME NEW m \in HostLists, NEW hostname
    PROVE  Hosts!WithoutHostname(m, hostname) \in HostLists
  <1> DEFINE i == Hosts!ByHostname(m, hostname)
             kept == {h \in Hostnames : h # hostname}
             others == Hosts!Those(m[i].hostnames, LAMBDA h : h # hostname)
  <1>1. i \in 0..Len(m) /\ Len(m) \in Nat
    BY ByHostnameFinds, HostLists1
  <1>2. CASE i = 0
    BY <1>2 DEF Hosts!WithoutHostname
  <1>3. CASE i # 0
    <2>1. /\ m[i].address \in Addresses /\ m[i].hostnames \in Seq(Hostnames)
      <3>1. i \in 1..Len(m)
        BY <1>1, <1>3
      <3> HIDE DEF i
      <3> QED
        BY <3>1, HostLists1
    <2>2. others \in Seq(Hostnames)
      <3> DEFINE hs == m[i].hostnames
      <3>1. \A k \in DOMAIN hs : hs[k] \in kept <=> hs[k] # hostname
        BY <2>1
      <3> HIDE DEF i, kept
      <3>2. [k \in DOMAIN hs |-> IF hs[k] # hostname THEN <<hs[k]>> ELSE <<>>]
              = [k \in DOMAIN hs |-> IF hs[k] \in kept THEN <<hs[k]>> ELSE <<>>]
        BY <3>1
      <3>3. others = Kept(hs, kept)
        BY <3>2, SameHostLists DEF Hosts!Those, Hosts!Each, Kept
      <3> QED
        BY <2>1, <3>3, KeptIncreasing
    <2>3. Hosts!WithoutHostname(m, hostname) =
            IF others = <<>> THEN Hosts!RemoveAddress(m, m[i].address)
            ELSE Hosts!SetAddress(m, m[i].address, others)
      BY <1>3 DEF Hosts!WithoutHostname
    <2> HIDE DEF i, others
    <2> QED
      BY <2>1, <2>2, <2>3, RemoveAddressKeeps, SetAddressKeeps
  <1> QED
    BY <1>2, <1>3

\* uniq() keeps one of each.
LEMMA UniqKeepsOnce ==
    ASSUME NEW hs \in Seq(Hostnames)
    PROVE  LET u == Hosts!Uniq(hs)
           IN  /\ u \in Seq(Hostnames)
               /\ \A i \in DOMAIN hs : OnceIn(hs[i], u)
  <1> DEFINE u == Hosts!Uniq(hs)
             places == [i \in DOMAIN hs |-> i]
             First(i) == \A j \in 1..i - 1 : hs[j] # hs[i]
             kept == {i \in Nat : First(i)}
             firsts == Kept(places, kept)
  <1>1. DOMAIN hs = 1..Len(hs) /\ Len(hs) \in Nat /\ \A i \in 1..Len(hs) : hs[i] \in Hostnames
    OBVIOUS
  <1>2. /\ places \in Seq(Nat) /\ Len(places) = Len(hs) /\ DOMAIN places = 1..Len(hs)
        /\ \A i \in 1..Len(hs) : places[i] = i
    BY <1>1
  <1>3. u = [k \in DOMAIN firsts |-> hs[firsts[k]]]
    <2>1. \A i \in DOMAIN places : places[i] \in kept <=> First(places[i])
      BY <1>2
    <2>2. [i \in DOMAIN places |-> IF First(places[i]) THEN <<places[i]>> ELSE <<>>]
            = [i \in DOMAIN places |-> IF places[i] \in kept THEN <<places[i]>> ELSE <<>>]
      <3> HIDE DEF First, kept, places
      <3> QED
        BY <2>1
    <2> HIDE DEF kept
    <2> QED
      BY <2>2, SameHostLists DEF Hosts!Uniq, Hosts!Those, Hosts!Each, Kept
  <1> HIDE DEF places, kept, u
  <1>4. /\ firsts \in Seq(Nat) /\ DOMAIN firsts = 1..Len(firsts) /\ Len(firsts) \in Nat
        /\ \A i : i \in ToSet(firsts) <=> i \in ToSet(places) /\ i \in kept
    <2>1. firsts \in Seq(Nat)
      BY <1>2, KeptIncreasing
    <2>2. \A i : i \in ToSet(firsts) <=> i \in ToSet(places) /\ i \in kept
      BY <1>2, KeptElements
    <2> HIDE DEF firsts
    <2> QED
      BY <2>1, <2>2
  <1>5. PICK at \in [1..Len(firsts) -> 1..Len(hs)] :
          /\ \A i \in 1..Len(firsts) : firsts[i] = places[at[i]] /\ places[at[i]] \in kept
          /\ \A i, j \in 1..Len(firsts) : i < j => at[i] < at[j]
    BY <1>2, KeptIncreasing
  <1> HIDE DEF firsts
  <1>6. \A k \in 1..Len(firsts) : firsts[k] = at[k] /\ at[k] \in 1..Len(hs) /\ at[k] \in kept
    BY <1>2, <1>5
  <1>7. u \in Seq(Hostnames) /\ DOMAIN u = 1..Len(firsts) /\ \A k \in 1..Len(firsts) : u[k] = hs[at[k]]
    <2>1. \A k \in 1..Len(firsts) : hs[firsts[k]] \in Hostnames
      BY <1>1, <1>6
    <2>2. u \in [1..Len(firsts) -> Hostnames]
      BY <1>3, <1>4, <2>1
    <2> QED
      BY <1>3, <1>4, <1>6, <2>2, IsASeq
  <1>8. ASSUME NEW i \in 1..Len(hs)
        PROVE  \E j \in DOMAIN u : \A k \in DOMAIN u : u[k] = hs[i] <=> k = j
    <2> DEFINE I == {j \in 1..Len(hs) : hs[j] = hs[i]}
    <2>1. PICK f \in I : \A j \in I : f =< j
      <3>1. I \subseteq Nat \ {0} /\ I # {}
        BY <1>1
      <3> HIDE DEF I
      <3> QED
        BY <3>1, LeastNatural
    <2>2. f \in 1..Len(hs) /\ hs[f] = hs[i]
      OBVIOUS
    <2>3. \A j \in 1..Len(hs) : hs[j] = hs[i] => f =< j
      <3> TAKE j \in 1..Len(hs)
      <3>1. hs[j] = hs[i] => j \in I
        OBVIOUS
      <3> HIDE DEF I
      <3> QED
        BY <2>1, <3>1
    <2> HIDE DEF I
    <2>4. f \in kept
      <3>1. \A j \in 1..f - 1 : hs[j] # hs[f]
        BY <1>1, <2>2, <2>3
      <3> QED
        BY <1>1, <2>2, <3>1 DEF kept
    <2>5. f \in ToSet(places)
      BY <1>2, <2>2 DEF ToSet
    <2>6. PICK p \in 1..Len(firsts) : firsts[p] = f
      BY <1>4, <2>4, <2>5 DEF ToSet
    <2>7. ASSUME NEW k \in 1..Len(firsts)
          PROVE  u[k] = hs[i] <=> k = p
      <3>1. CASE k = p
        BY <1>6, <1>7, <2>2, <2>6, <3>1
      <3>2. CASE k # p
        <4>1. at[p] = f /\ at[k] \in 1..Len(hs) /\ at[k] \in kept /\ u[k] = hs[at[k]]
          BY <1>6, <1>7, <2>6
        <4>2. at[k] # f
          BY <1>4, <1>5, <2>2, <3>2, <4>1
        <4>3. CASE f < at[k]
          <5>1. f \in 1..at[k] - 1
            BY <1>1, <2>2, <4>1, <4>3
          <5>2. hs[f] # hs[at[k]]
            BY <4>1, <5>1 DEF kept
          <5> QED
            BY <2>2, <3>2, <4>1, <5>2
        <4>4. CASE at[k] < f
          BY <1>1, <2>2, <2>3, <3>2, <4>1, <4>4
        <4> QED
          BY <1>1, <2>2, <4>1, <4>2, <4>3, <4>4
      <3> QED
        BY <3>1, <3>2
    <2> QED
      BY <1>7, <2>7
  <1>9. \A i \in DOMAIN hs : \E j \in DOMAIN u : \A k \in DOMAIN u : u[k] = hs[i] <=> k = j
    BY <1>1, <1>8
  <1> QED
    BY <1>7, <1>9 DEF u, OnceIn

\* What a moved hostname leaves: it is there once, and so is what was there.
LEMMA ReplaceKeeps ==
    ASSUME NEW m \in HostLists, NEW address \in Addresses, NEW hostname \in Hostnames
    PROVE  LET moved == Hosts!ReplaceByHostname(m, address, hostname)
           IN  /\ moved \in HostLists
               /\ HasOnce(moved, address, hostname)
               /\ \A h : HasOnce(m, address, h) => HasOnce(moved, address, h)
  <1> DEFINE moved == Hosts!ReplaceByHostname(m, address, hostname)
             i == Hosts!ByAddress(m, address)
             own == Append(m[i].hostnames, hostname)
             hs == IF i = 0 THEN <<hostname>> ELSE Hosts!Uniq(own)
             without == Hosts!WithoutHostname(m, hostname)
  <1>1. moved = Hosts!SetAddress(without, address, hs)
    BY DEF Hosts!ReplaceByHostname
  <1>2. without \in HostLists
    BY WithoutHostnameKeeps
  <1> HIDE DEF without
  <1>3. /\ hs \in Seq(Hostnames)
        /\ OnceIn(hostname, hs)
        /\ \A h : HasOnce(m, address, h) => OnceIn(h, hs)
    <2>1. CASE i = 0
      <3>1. \A h : ~ HasOnce(m, address, h)
        BY <2>1, ByAddressFinds, HostLists1 DEF HasOnce
      <3>2. /\ <<hostname>> \in Seq(Hostnames) /\ DOMAIN <<hostname>> = {1} /\ <<hostname>>[1] = hostname
        OBVIOUS
      <3> QED
        BY <2>1, <3>1, <3>2 DEF OnceIn
    <2>2. CASE i # 0
      <3>1. i \in 1..Len(m) /\ m[i].address = address
        BY <2>2, ByAddressFinds
      <3> HIDE DEF i
      <3>2. m[i].hostnames \in Seq(Hostnames)
        BY <3>1, HostLists1
      <3> DEFINE listed == m[i].hostnames
      <3>3. /\ own \in Seq(Hostnames) /\ DOMAIN own = 1..Len(listed) + 1 /\ Len(listed) \in Nat
            /\ \A k \in DOMAIN listed : k \in DOMAIN own /\ own[k] = listed[k]
            /\ Len(listed) + 1 \in DOMAIN own /\ own[Len(listed) + 1] = hostname
        <4> HIDE DEF listed
        <4>1. listed \in Seq(Hostnames)
          BY <3>2 DEF listed
        <4>2. /\ Append(listed, hostname) \in Seq(Hostnames) /\ Len(listed) \in Nat
              /\ Len(Append(listed, hostname)) = Len(listed) + 1
              /\ \A k \in 1..Len(listed) : Append(listed, hostname)[k] = listed[k]
              /\ Append(listed, hostname)[Len(listed) + 1] = hostname
          BY <4>1, AppendByIndex
        <4>3. own = Append(listed, hostname) /\ DOMAIN listed = 1..Len(listed)
          BY <4>1 DEF listed
        <4> HIDE DEF own
        <4> QED
          BY <4>2, <4>3
      <3> HIDE DEF own
      <3>4. /\ hs \in Seq(Hostnames)
            /\ \A k \in DOMAIN own : OnceIn(own[k], hs)
        BY <2>2, <3>3, UniqKeepsOnce
      <3> HIDE DEF hs
      <3>5. OnceIn(hostname, hs)
        BY <3>3, <3>4
      <3>6. ASSUME NEW h, HasOnce(m, address, h)
            PROVE  OnceIn(h, hs)
        <4>1. OnceIn(h, listed)
          BY <3>1, <3>6, HostLists1 DEF HasOnce, listed
        <4>2. PICK j \in DOMAIN listed : listed[j] = h
          BY <4>1 DEF OnceIn
        <4>3. j \in DOMAIN own /\ own[j] = h
          BY <3>3, <4>2
        <4> QED
          BY <3>4, <4>3
      <3> QED
        BY <3>4, <3>5, <3>6
    <2> QED
      BY <2>1, <2>2
  <1> HIDE DEF hs, moved
  <1>4. /\ moved \in HostLists
        /\ \E p \in DOMAIN moved : moved[p].address = address
        /\ \A p \in DOMAIN moved : moved[p].address = address => moved[p].hostnames = hs
    BY <1>1, <1>2, <1>3, SetAddressKeeps
  <1>5. ASSUME NEW h, OnceIn(h, hs)
        PROVE  HasOnce(moved, address, h)
    BY <1>4, <1>5 DEF HasOnce
  <1>6. HasOnce(moved, address, hostname) /\ \A h : HasOnce(m, address, h) => HasOnce(moved, address, h)
    BY <1>3, <1>5
  <1> QED
    BY <1>4, <1>6 DEF moved

\* Hostnames are moved one after the other.
LEMMA MoveKeeps ==
    ASSUME NEW m \in HostLists, NEW address \in Addresses, NEW hs \in Seq(Hostnames)
    PROVE  LET moved == Hosts!MoveHostnames(m, address, hs)
           IN  /\ moved \in HostLists
               /\ \A k \in DOMAIN hs : HasOnce(moved, address, hs[k])
  <1> DEFINE Moves(f) == f = [n \in 0..Len(hs) |->
                                IF n = 0 THEN m ELSE Hosts!ReplaceByHostname(f[n - 1], address, hs[n])]
             moved == CHOOSE f : Moves(f)
  <1>1. /\ Len(hs) \in Nat /\ DOMAIN hs = 1..Len(hs) /\ \A n \in 1..Len(hs) : hs[n] \in Hostnames
    OBVIOUS
  <1>2. Hosts!MoveHostnames(m, address, hs) = moved[Len(hs)]
    BY DEF Hosts!MoveHostnames
  <1>3. \E f : Moves(f)
    <2> DEFINE step == [p \in HostLists \X Hostnames |-> Hosts!ReplaceByHostname(p[1], address, p[2])]
    <2>1. /\ step \in [HostLists \X Hostnames -> HostLists]
          /\ \A l \in HostLists, h \in Hostnames :
               step[<<l, h>>] = Hosts!ReplaceByHostname(l, address, h)
      BY ReplaceKeeps
    <2> HIDE DEF step
    <2>2. PICK f \in [0..Len(hs) -> HostLists] :
            \A n \in 0..Len(hs) : f[n] = IF n = 0 THEN m ELSE step[<<f[n - 1], hs[n]>>]
      <3>1. \E f : IsLoop(f, HostLists, step, m, hs)
        BY <2>1, LoopRuns
      <3> QED
        BY <3>1 DEF IsLoop
    <2>3. ASSUME NEW n \in 0..Len(hs), n # 0
          PROVE  step[<<f[n - 1], hs[n]>>] = Hosts!ReplaceByHostname(f[n - 1], address, hs[n])
      <3>1. n - 1 \in 0..Len(hs) /\ n \in 1..Len(hs)
        BY <1>1, <2>3
      <3>2. f[n - 1] \in HostLists /\ hs[n] \in Hostnames
        BY <1>1, <2>2, <3>1
      <3> QED
        BY <2>1, <3>2
    <2>4. \A n \in 0..Len(hs) : f[n] = IF n = 0 THEN m ELSE Hosts!ReplaceByHostname(f[n - 1], address, hs[n])
      BY <2>2, <2>3
    <2>5. Moves(f)
      BY <2>2, <2>4
    <2> HIDE DEF Moves
    <2> QED
      BY <2>5
  <1>4. Moves(moved)
    BY <1>3
  <1> HIDE DEF moved
  <1>5. \A n \in 0..Len(hs) :
          moved[n] = IF n = 0 THEN m ELSE Hosts!ReplaceByHostname(moved[n - 1], address, hs[n])
    BY <1>4
  <1> DEFINE Done(n) == moved[n] \in HostLists /\ \A k \in 1..n : HasOnce(moved[n], address, hs[k])
             I == {n \in 0..Len(hs) : Done(n)}
  <1>6. 0 \in I
    <2>1. 0 \in 0..Len(hs)
      BY <1>1
    <2>2. moved[0] = m
      BY <1>5, <2>1
    <2> QED
      BY <2>1, <2>2
  <1>7. ASSUME NEW n \in 1..Len(hs), n - 1 \in I
        PROVE  n \in I
    <2>1. n \in 0..Len(hs) /\ n # 0
      BY <1>1
    <2>2. Done(n - 1)
      BY <1>7
    <2> DEFINE l == moved[n - 1]
    <2>3. moved[n] = Hosts!ReplaceByHostname(l, address, hs[n])
      BY <1>5, <2>1
    <2>4. l \in HostLists /\ \A k \in 1..n - 1 : HasOnce(l, address, hs[k])
      BY <2>2
    <2> HIDE DEF l
    <2>5. /\ moved[n] \in HostLists
          /\ HasOnce(moved[n], address, hs[n])
          /\ \A h : HasOnce(l, address, h) => HasOnce(moved[n], address, h)
      BY <1>1, <2>3, <2>4, ReplaceKeeps
    <2>6. \A k \in 1..n : k = n \/ k \in 1..n - 1
      OBVIOUS
    <2>7. Done(n)
      BY <2>4, <2>5, <2>6
    <2> QED
      BY <2>1, <2>7
  <1>8. Len(hs) \in I
    <2> HIDE DEF I
    <2>1. 0..Len(hs) \subseteq I
      BY <1>1, <1>6, <1>7, CountingUp
    <2> QED
      BY <1>1, <2>1
  <1> QED
    BY <1>1, <1>2, <1>8

\* The cardinality of the instance is the cardinality of the library.
LEMMA SameSizes == \A T : Hosts!Cardinality(T) = Cardinality(T)
  BY DEF Hosts!Cardinality, Cardinality

\* What the calls keep, and what replaceByHostnames leaves.
HostsInv ==
    /\ entries \in HostLists
    /\ called.name = "replaceByHostnames" =>
         \A k \in DOMAIN called.hostnames : HasOnce(entries, called.address, called.hostnames[k])
    /\ called.name = "replaceByHostnames" => DOMAIN called.hostnames # {}

\* The address has an entry, and in each of its entries the moved hostnames are in
\* one place.
LEMMA HostsInvArrives == HostsInv => HostnamesArrive
  <1> SUFFICES ASSUME HostsInv, called.name = "replaceByHostnames"
               PROVE  LET own == {i \in DOMAIN entries : entries[i].address = called.address}
                      IN  /\ own # {}
                          /\ Cardinality(own) = 1 \/ Hosts!GivenTwice(called.address)
                          /\ \A i \in own, h \in ToSet(called.hostnames) :
                               Cardinality({j \in DOMAIN entries[i].hostnames : entries[i].hostnames[j] = h}) = 1
    BY SameHostLists, SameSizes DEF HostnamesArrive, Hosts!HostnamesArrive
  <1> DEFINE own == {i \in DOMAIN entries : entries[i].address = called.address}
  <1>1. /\ DOMAIN entries = 1..Len(entries)
        /\ \A i, j \in DOMAIN entries :
             entries[i].address = entries[j].address => i = j \/ entries[i].address \in Twice
    BY HostLists1 DEF HostsInv
  <1>2. \A k \in DOMAIN called.hostnames : HasOnce(entries, called.address, called.hostnames[k])
    BY DEF HostsInv
  <1>3. PICK p \in DOMAIN entries : entries[p].address = called.address
    BY <1>2 DEF HostsInv, HasOnce
  <1>4. Cardinality(own) = 1 \/ Hosts!GivenTwice(called.address)
    <2>1. called.address \notin Twice => own = {p}
      BY <1>1, <1>3
    <2> HIDE DEF own
    <2> QED
      BY <2>1, FS_Singleton DEF Twice
  <1>5. ASSUME NEW i \in own, NEW h \in ToSet(called.hostnames)
        PROVE  Cardinality({j \in DOMAIN entries[i].hostnames : entries[i].hostnames[j] = h}) = 1
    <2>1. PICK k \in DOMAIN called.hostnames : called.hostnames[k] = h
      BY <1>5 DEF ToSet
    <2>2. OnceIn(h, entries[i].hostnames)
      BY <1>2, <2>1 DEF HasOnce
    <2>3. PICK j \in DOMAIN entries[i].hostnames :
            \A l \in DOMAIN entries[i].hostnames : entries[i].hostnames[l] = h <=> l = j
      BY <2>2 DEF OnceIn
    <2>4. {l \in DOMAIN entries[i].hostnames : entries[i].hostnames[l] = h} = {j}
      BY <2>3
    <2> QED
      BY <2>4, FS_Singleton
  <1> QED
    BY <1>3, <1>4, <1>5

\* Whatever models were given and whatever calls came before, after
\* replaceByHostnames the address has an entry, one unless it was given several,
\* and each of the hostnames is in it once.
THEOREM HostnamesAlwaysArrive == Hosts!HostsSpec => []HostnamesArrive
  <1>1. Hosts!Init => HostsInv
    <2> SUFFICES ASSUME Hosts!Init PROVE HostsInv
      OBVIOUS
    <2>1. entries \in HostModels /\ called = [name |-> "create"]
      BY DEF Hosts!Init
    <2>2. entries \in HostLists
      BY <2>1, GivenLists
    <2>3. called.name # "replaceByHostnames"
      BY <2>1
    <2> QED
      BY <2>2, <2>3 DEF HostsInv
  <1>2. HostsInv /\ [Hosts!Next]_(Hosts!hostVars) => HostsInv'
    <2> SUFFICES ASSUME HostsInv, [Hosts!Next]_(Hosts!hostVars) PROVE HostsInv'
      OBVIOUS
    <2>1. CASE UNCHANGED Hosts!hostVars
      BY <2>1 DEF Hosts!hostVars, HostsInv, HasOnce
    <2>2. ASSUME NEW model \in HostModels, Hosts!setModel(model)
          PROVE  HostsInv'
      <3>1. entries' = model /\ called'.name # "replaceByHostnames"
        BY <2>2 DEF Hosts!setModel, Hosts!SetModel
      <3>2. model \in HostLists
        BY GivenLists
      <3> QED
        BY <3>1, <3>2 DEF HostsInv
    <2>3. ASSUME NEW address \in Addresses, Hosts!removeAddress(address)
          PROVE  HostsInv'
      <3>1. entries' = Hosts!RemoveAddress(entries, address) /\ called'.name # "replaceByHostnames"
        BY <2>3 DEF Hosts!removeAddress, Hosts!SetModel
      <3>2. entries' \in HostLists
        BY <3>1, RemoveAddressKeeps DEF HostsInv
      <3> QED
        BY <3>1, <3>2 DEF HostsInv
    <2>4. ASSUME NEW address \in Addresses, NEW hs \in Hosts!NameLists,
                 Hosts!setAddress(address, hs) \/ Hosts!replaceByHostnames(address, hs)
          PROVE  HostsInv'
      <3>1. hs \in Seq(Hostnames) /\ DOMAIN hs # {}
        BY DEF Hosts!NameLists, Hosts!SeqOf
      <3>2. CASE Hosts!setAddress(address, hs)
        <4>1. entries' = Hosts!SetAddress(entries, address, hs) /\ called'.name # "replaceByHostnames"
          BY <3>2 DEF Hosts!setAddress, Hosts!SetModel
        <4>2. entries' \in HostLists
          BY <3>1, <4>1, SetAddressKeeps DEF HostsInv
        <4> QED
          BY <4>1, <4>2 DEF HostsInv
      <3>3. CASE Hosts!replaceByHostnames(address, hs)
        <4>1. /\ entries' = Hosts!MoveHostnames(entries, address, hs)
              /\ called' = [name |-> "replaceByHostnames", address |-> address, hostnames |-> hs]
          BY <3>3 DEF Hosts!replaceByHostnames, Hosts!SetModel
        <4>2. entries' \in HostLists /\ \A k \in DOMAIN hs : HasOnce(entries', address, hs[k])
          BY <3>1, <4>1, MoveKeeps DEF HostsInv
        <4>3. called'.address = address /\ called'.hostnames = hs
          BY <4>1
        <4> QED
          BY <3>1, <4>2, <4>3 DEF HostsInv, HasOnce
      <3> QED
        BY <2>4, <3>2, <3>3
    <2> QED
      BY <2>1, <2>2, <2>3, <2>4 DEF Hosts!Next
  <1> QED
    BY <1>1, <1>2, HostsInvArrives, PTL DEF Hosts!HostsSpec

------------------------------------------------------------------------------
\* CommandArguments

\* The end marker, or the end of the arguments.
LastParsed == Commands!EndMarker

CommandWords == {a \in Given : a.name \in Words}

ParsedValues ==
    {Commands!ParsedValue(Configuration[i].type, a.value) : i \in DOMAIN Configuration, a \in Given}

UserArgs == UNION {[told -> ParsedValues] : told \in SUBSET Commands!Keys}

ParseResults ==
    [status : {"OK", "HELP", "VERSION", "ERROR"}, parsingArgs : BOOLEAN,
     freeArgs : Seq(Given), extraArgs : Seq(Given), userArgs : UserArgs]

\* An argument that tells the key of a name.
Tells(i, k) == Commands!IsOption(i) /\ Commands!KeyOf(args[i].name).key = k

\* The value of a key is that of the last of the first n arguments that tells it.
LastTells(n, k, i) ==
    /\ i \in 1..n /\ Tells(i, k)
    /\ \A j \in 1..n : Tells(j, k) => j =< i

\* What is parsed of the first n arguments while nothing stops the command.
GoesOn(n, r) ==
    /\ \A i \in 1..n : i \notin Commands!Stops
    /\ r.parsingArgs <=> n < LastParsed
    /\ r.freeArgs = Kept(SubSeq(args, 1, IF n < LastParsed THEN n ELSE LastParsed - 1), CommandWords)
    /\ r.extraArgs = SubSeq(args, LastParsed + 1, n)
    /\ \A k : k \in DOMAIN r.userArgs <=> \E i \in 1..n : Tells(i, k)
    /\ \A k \in DOMAIN r.userArgs : \E i : LastTells(n, k, i) /\ r.userArgs[k] = Commands!ValueAt(i)

\* Or else the first argument that stops it has decided.
HasStopped(n, r) ==
    \E m \in 1..n :
      /\ m \in Commands!Stops /\ \A i \in Commands!Stops : m =< i
      /\ r.status \in {"HELP", "VERSION"} => Commands!parseCommandArgumentType(args[m]) = r.status
      /\ r.status = "ERROR" => Commands!parseCommandArgumentType(args[m]) = "other"

ParsedUpTo(n, r) ==
    /\ r \in ParseResults
    /\ IF r.status = "OK" THEN GoesOn(n, r) ELSE HasStopped(n, r)

LEMMA ConfigurationFacts ==
    /\ DOMAIN Configuration = 1..Len(Configuration) /\ Len(Configuration) \in Nat
    /\ \A i, j \in DOMAIN Configuration : Configuration[i].key = Configuration[j].key => i = j
    /\ Words \cap {"-h", "--help", "-v", "--version", "--"} = {}
  BY CommandAssumption

LEMMA SameCommandSelections ==
    ASSUME NEW texts
    PROVE  /\ Commands!FlattenSeq(texts) = FlattenSeq(texts)
           /\ Commands!Max(texts) = Max(texts) /\ Commands!Min(texts) = Min(texts)
  <1>1. Commands!FlattenSeq(texts) = FlattenSeq(texts)
    BY DEF Commands!FlattenSeq, FlattenSeq
  <1>2. Commands!Max(texts) = Max(texts) /\ Commands!Min(texts) = Min(texts)
    BY DEF Commands!Max, Max, Commands!Min, Min
  <1> QED
    BY <1>1, <1>2

\* Max and Min choose what is greatest and least.
LEMMA GreatestIsMax ==
    ASSUME NEW I \in SUBSET Int, NEW m \in I, \A i \in I : i =< m
    PROVE  Commands!Max(I) = m
  <1> DEFINE c == CHOOSE x \in I : \A y \in I : x >= y
  <1>1. c \in I /\ \A y \in I : c >= y
    OBVIOUS
  <1>2. m \in Int /\ c \in Int
    BY <1>1
  <1>3. Commands!Max(I) = c
    BY DEF Commands!Max
  <1> HIDE DEF c
  <1> QED
    BY <1>1, <1>2, <1>3

LEMMA LeastIsMin ==
    ASSUME NEW I \in SUBSET Int, NEW m \in I, \A i \in I : m =< i
    PROVE  Commands!Min(I) = m
  <1> DEFINE c == CHOOSE x \in I : \A y \in I : x =< y
  <1>1. c \in I /\ \A y \in I : c =< y
    OBVIOUS
  <1>2. m \in Int /\ c \in Int
    BY <1>1
  <1>3. Commands!Min(I) = c
    BY DEF Commands!Min
  <1> HIDE DEF c
  <1> QED
    BY <1>1, <1>2, <1>3

LEMMA KeyOfName ==
    ASSUME NEW name, Commands!IsUserArgument(name)
    PROVE  \E i \in DOMAIN Configuration : Commands!KeyOf(name) = Configuration[i]
  <1> DEFINE I == IF Commands!KeysWith("long", name) # {} THEN Commands!KeysWith("long", name)
                                                         ELSE Commands!KeysWith("short", name)
  <1>1. I # {} /\ I \subseteq 1..Len(Configuration) /\ Len(Configuration) \in Nat
    BY ConfigurationFacts DEF Commands!IsUserArgument, Commands!KeysWith
  <1>2. Commands!KeyOf(name) = Configuration[Commands!Max(I)]
    BY DEF Commands!KeyOf
  <1> HIDE DEF I
  <1>3. Commands!Max(I) \in I
    BY <1>1, GreatestOfNaturals, SameCommandSelections
  <1> QED
    BY <1>1, <1>2, <1>3, ConfigurationFacts

\* "--" is the first one, and what is after it is not parsed.
LEMMA EndMarkerIsFirst ==
    ASSUME args \in Seq(Given)
    PROVE  /\ LastParsed \in 1..Len(args) + 1 /\ Len(args) \in Nat
           /\ \A i \in 1..Len(args) :
                /\ Commands!parseCommandArgumentType(args[i]) = "DISABLE_ARGUMENT_PARSING" => LastParsed =< i
                /\ i = LastParsed => Commands!parseCommandArgumentType(args[i]) = "DISABLE_ARGUMENT_PARSING"
  <1> DEFINE I == {i \in DOMAIN args : Commands!parseCommandArgumentType(args[i]) = "DISABLE_ARGUMENT_PARSING"}
             J == I \cup {Len(args) + 1}
  <1>1. DOMAIN args = 1..Len(args) /\ Len(args) \in Nat
    OBVIOUS
  <1>2. LastParsed = Commands!Min(J)
    BY DEF LastParsed, Commands!EndMarker
  <1>3. J \subseteq Nat \ {0} /\ J # {}
    BY <1>1
  <1>4. PICK m \in J : \A j \in J : m =< j
    <2> HIDE DEF J
    <2> QED
      BY <1>3, LeastNatural
  <1>5. LastParsed = m
    <2>1. J \in SUBSET Int
      BY <1>3
    <2> HIDE DEF J
    <2> QED
      BY <1>2, <1>4, <2>1, LeastIsMin
  <1>6. \A i \in I : m =< i
    BY <1>4
  <1>7. m \in I \/ m = Len(args) + 1
    OBVIOUS
  <1> QED
    BY <1>1, <1>5, <1>6, <1>7

\* Whatever a round does, it makes a result.
LEMMA LoopType ==
    ASSUME NEW r \in ParseResults, NEW a \in Given
    PROVE  Commands!Loop(r, a) \in ParseResults
  <1> DEFINE type == Commands!parseCommandArgumentType(a)
             key == Commands!KeyOf(a.name)
             value == Commands!ParsedValue(key.type, a.value)
             told == Commands!Over([k \in {key.key} |-> value], r.userArgs)
  <1>1. Append(r.extraArgs, a) \in Seq(Given) /\ Append(r.freeArgs, a) \in Seq(Given)
    <2>1. r.extraArgs \in Seq(Given) /\ r.freeArgs \in Seq(Given)
      BY DEF ParseResults
    <2> QED
      BY <2>1
  <1>2. ASSUME Commands!IsUserArgument(a.name)
        PROVE  told \in UserArgs
    <2>1. PICK i \in DOMAIN Configuration : key = Configuration[i]
      BY <1>2, KeyOfName
    <2>2. PICK old \in SUBSET Commands!Keys : r.userArgs \in [old -> ParsedValues]
      BY DEF ParseResults, UserArgs
    <2>3. key.key \in Commands!Keys
      BY <2>1 DEF Commands!Keys
    <2>4. value \in ParsedValues
      BY <2>1 DEF ParsedValues
    <2> HIDE DEF value, key
    <2>5. told \in [old \cup {key.key} -> ParsedValues]
      BY <2>2, <2>4 DEF Commands!Over
    <2>6. old \cup {key.key} \in SUBSET Commands!Keys
      BY <2>2, <2>3
    <2> HIDE DEF told
    <2> QED
      BY <2>5, <2>6 DEF UserArgs
  <1>3. \/ Commands!Loop(r, a) \in
             {r, [r EXCEPT !.extraArgs = Append(r.extraArgs, a)], [r EXCEPT !.freeArgs = Append(r.freeArgs, a)],
              [r EXCEPT !.parsingArgs = FALSE], [r EXCEPT !.status = "ERROR"]}
        \/ type \in {"HELP", "VERSION"} /\ Commands!Loop(r, a) = [r EXCEPT !.status = type]
        \/ Commands!IsUserArgument(a.name) /\ Commands!Loop(r, a) = [r EXCEPT !.userArgs = told]
    BY DEF Commands!Loop, Commands!Told
  <1> HIDE DEF type, told, key, value
  <1> QED
    BY <1>1, <1>2, <1>3 DEF ParseResults

\* One round of the loop parses one argument.
LEMMA LoopParsesOne ==
    ASSUME args \in Seq(Given), NEW n \in 1..Len(args), NEW r, ParsedUpTo(n - 1, r)
    PROVE  ParsedUpTo(n, Commands!Loop(r, args[n]))
  <1> DEFINE E == LastParsed
             a == args[n]
             type == Commands!parseCommandArgumentType(a)
             new == Commands!Loop(r, a)
  <1>1. /\ E \in 1..Len(args) + 1 /\ Len(args) \in Nat /\ DOMAIN args = 1..Len(args)
        /\ type = "DISABLE_ARGUMENT_PARSING" => E =< n
        /\ n = E => type = "DISABLE_ARGUMENT_PARSING"
    BY EndMarkerIsFirst
  <1>2. /\ a \in Given /\ r \in ParseResults /\ new \in ParseResults
        /\ type \in {"HELP", "VERSION", "DISABLE_ARGUMENT_PARSING", "other"}
    BY LoopType DEF ParsedUpTo, Commands!parseCommandArgumentType
  <1>3. /\ Commands!IsOption(n) <=> n < E /\ a.name \notin Words
        /\ n \in Commands!Stops <=> /\ Commands!IsOption(n)
                                    /\ \/ type # "other"
                                       \/ ~Commands!IsUserArgument(a.name)
                                       \/ Commands!ValueAt(n) = Commands!Failed
    BY <1>1 DEF Commands!IsOption, Commands!Stops, LastParsed
  <1>4. type # "other" => a.name \notin Words
    BY ConfigurationFacts DEF Commands!parseCommandArgumentType
  <1> HIDE DEF E, type, a
  <1> SUFFICES ParsedUpTo(n, new)
    BY DEF a
  <1>5. \A i \in 1..n : i = n \/ i \in 1..n - 1
    OBVIOUS
  <1>6. CASE r.status # "OK"
    <2>1. new = r
      BY <1>6 DEF Commands!Loop
    <2>2. HasStopped(n - 1, r)
      BY <1>6 DEF ParsedUpTo
    <2>3. HasStopped(n, r)
      BY <2>2 DEF HasStopped
    <2> QED
      BY <1>2, <1>6, <2>1, <2>3 DEF ParsedUpTo
  <1>7. ASSUME r.status = "OK"
        PROVE  GoesOn(n - 1, r)
    BY <1>7 DEF ParsedUpTo
  <1>8. CASE r.status = "OK" /\ ~r.parsingArgs
    <2>1. new = [r EXCEPT !.extraArgs = Append(r.extraArgs, a)]
      BY <1>8 DEF Commands!Loop
    <2>2. GoesOn(n - 1, r) /\ ~ n - 1 < E
      BY <1>7, <1>8 DEF GoesOn, E
    <2>3. ~Commands!IsOption(n) /\ n \notin Commands!Stops
      BY <1>1, <1>3, <2>2
    <2>5. /\ new.status = "OK" /\ new.parsingArgs = r.parsingArgs /\ new.freeArgs = r.freeArgs
          /\ new.userArgs = r.userArgs /\ new.extraArgs = Append(r.extraArgs, a)
      BY <1>2, <1>8, <2>1 DEF ParseResults
    <2> HIDE DEF new
    <2>6. Append(SubSeq(args, E + 1, n - 1), a) = SubSeq(args, E + 1, n)
      BY <1>1, <2>2 DEF a
    <2>7. ~Tells(n, 0) /\ \A k : ~Tells(n, k)
      BY <2>3 DEF Tells
    <2>8. \A k : (\E i \in 1..n : Tells(i, k)) <=> \E i \in 1..n - 1 : Tells(i, k)
      BY <1>5, <2>7
    <2>9. \A k, i : LastTells(n - 1, k, i) => LastTells(n, k, i)
      BY <1>5, <2>7 DEF LastTells
    <2>10. GoesOn(n, new)
      <3>1. \A i \in 1..n : i \notin Commands!Stops
        BY <1>5, <2>2, <2>3 DEF GoesOn
      <3>2. /\ new.parsingArgs <=> n < E
            /\ new.freeArgs = Kept(SubSeq(args, 1, IF n < E THEN n ELSE E - 1), CommandWords)
        BY <1>1, <2>2, <2>5 DEF GoesOn, E
      <3>3. new.extraArgs = SubSeq(args, E + 1, n)
        BY <2>2, <2>5, <2>6 DEF GoesOn, E
      <3>4. \A k : k \in DOMAIN new.userArgs <=> \E i \in 1..n : Tells(i, k)
        BY <2>2, <2>5, <2>8 DEF GoesOn
      <3>5. ASSUME NEW k \in DOMAIN new.userArgs
            PROVE  \E i : LastTells(n, k, i) /\ new.userArgs[k] = Commands!ValueAt(i)
        BY <2>2, <2>5, <2>9 DEF GoesOn
      <3> QED
        BY <3>1, <3>2, <3>3, <3>4, <3>5 DEF GoesOn, E
    <2> QED
      BY <1>2, <2>5, <2>10 DEF ParsedUpTo
  <1>9. ASSUME r.status = "OK", r.parsingArgs
        PROVE  n =< E /\ n - 1 < E /\ (n # E => n < E)
    <2>1. n - 1 < E
      BY <1>7, <1>9 DEF GoesOn, E
    <2> QED
      BY <1>1, <2>1
  \* An argument that stops the command is the first one.
  <1>10. ASSUME r.status = "OK", n \in Commands!Stops, NEW s \in {"HELP", "VERSION", "ERROR"},
                new = [r EXCEPT !.status = s],
                s # "ERROR" => type = s, s = "ERROR" => type = "other"
         PROVE  ParsedUpTo(n, new)
    <2>1. new \in ParseResults /\ new.status = s
      BY <1>2, <1>10 DEF ParseResults
    <2>2. \A i \in Commands!Stops : n =< i
      <3> SUFFICES ASSUME NEW i \in Commands!Stops PROVE n =< i
        OBVIOUS
      <3>1. i \in 1..Len(args)
        BY <1>1 DEF Commands!Stops
      <3>2. i \notin 1..n - 1
        BY <1>7, <1>10 DEF GoesOn
      <3> QED
        BY <1>1, <3>1, <3>2
    <2>3. HasStopped(n, new)
      BY <1>10, <2>1, <2>2 DEF HasStopped, type, a
    <2> QED
      BY <1>10, <2>1, <2>3 DEF ParsedUpTo
  <1>11. CASE r.status = "OK" /\ r.parsingArgs /\ type \in {"HELP", "VERSION"}
    <2>1. new = [r EXCEPT !.status = type]
      BY <1>11 DEF Commands!Loop, type
    <2>2. n \in Commands!Stops
      BY <1>1, <1>3, <1>4, <1>9, <1>11
    <2> HIDE DEF new
    <2> QED
      BY <1>10, <1>11, <2>1, <2>2
  <1>12. CASE r.status = "OK" /\ r.parsingArgs /\ type = "DISABLE_ARGUMENT_PARSING"
    <2>1. new = [r EXCEPT !.parsingArgs = FALSE]
      BY <1>12 DEF Commands!Loop, type
    <2>2. n = E
      BY <1>1, <1>9, <1>12
    <2>3. ~Commands!IsOption(n) /\ n \notin Commands!Stops
      BY <1>3, <2>2
    <2>5. /\ new.status = "OK" /\ new.parsingArgs = FALSE /\ new.freeArgs = r.freeArgs
          /\ new.userArgs = r.userArgs /\ new.extraArgs = r.extraArgs
      BY <1>2, <1>12, <2>1 DEF ParseResults
    <2> HIDE DEF new
    <2>6. SubSeq(args, E + 1, n - 1) = <<>> /\ SubSeq(args, E + 1, n) = <<>>
      BY <1>1, <2>2
    <2>7. \A k : ~Tells(n, k)
      BY <2>3 DEF Tells
    <2>8. \A k : (\E i \in 1..n : Tells(i, k)) <=> \E i \in 1..n - 1 : Tells(i, k)
      BY <1>5, <2>7
    <2>9. \A k, i : LastTells(n - 1, k, i) => LastTells(n, k, i)
      BY <1>5, <2>7 DEF LastTells
    <2>10. GoesOn(n, new)
      <3>1. GoesOn(n - 1, r)
        BY <1>7, <1>12
      <3>2. \A i \in 1..n : i \notin Commands!Stops
        BY <1>5, <2>3, <3>1 DEF GoesOn
      <3>3. /\ new.parsingArgs <=> n < E
            /\ new.freeArgs = Kept(SubSeq(args, 1, IF n < E THEN n ELSE E - 1), CommandWords)
        BY <1>1, <2>2, <2>5, <3>1 DEF GoesOn, E
      <3>4. new.extraArgs = SubSeq(args, E + 1, n)
        BY <2>5, <2>6, <3>1 DEF GoesOn, E
      <3>5. \A k : k \in DOMAIN new.userArgs <=> \E i \in 1..n : Tells(i, k)
        BY <2>5, <2>8, <3>1 DEF GoesOn
      <3>6. ASSUME NEW k \in DOMAIN new.userArgs
            PROVE  \E i : LastTells(n, k, i) /\ new.userArgs[k] = Commands!ValueAt(i)
        BY <2>5, <2>9, <3>1 DEF GoesOn
      <3> QED
        BY <3>2, <3>3, <3>4, <3>5, <3>6 DEF GoesOn, E
    <2> QED
      BY <1>2, <2>5, <2>10 DEF ParsedUpTo
  <1>13. ASSUME r.status = "OK", r.parsingArgs, type = "other"
         PROVE  /\ n < E
                /\ SubSeq(args, 1, n) = Append(SubSeq(args, 1, n - 1), a)
                /\ SubSeq(args, 1, n - 1) \in Seq(Given)
                /\ SubSeq(args, E + 1, n) = <<>> /\ SubSeq(args, E + 1, n - 1) = <<>>
                /\ Kept(SubSeq(args, 1, n), CommandWords) =
                     IF a \in CommandWords THEN Append(Kept(SubSeq(args, 1, n - 1), CommandWords), a)
                                           ELSE Kept(SubSeq(args, 1, n - 1), CommandWords)
    <2>1. n < E
      BY <1>1, <1>9, <1>13
    <2> DEFINE before == SubSeq(args, 1, n - 1)
    <2>2. /\ SubSeq(args, 1, n) = Append(SubSeq(args, 1, n - 1), a)
          /\ SubSeq(args, 1, n - 1) \in Seq(Given)
          /\ SubSeq(args, E + 1, n) = <<>> /\ SubSeq(args, E + 1, n - 1) = <<>>
      BY <1>1, <2>1 DEF a
    <2> HIDE DEF before
    <2>3. before \in Seq(Given) => Kept(Append(before, a), CommandWords) =
            IF a \in CommandWords THEN Append(Kept(before, CommandWords), a) ELSE Kept(before, CommandWords)
      BY <1>2, KeptAppend
    <2> QED
      BY <2>1, <2>2, <2>3 DEF before
  <1>14. CASE r.status = "OK" /\ r.parsingArgs /\ type = "other" /\ a.name \in Words
    <2>1. new = [r EXCEPT !.freeArgs = Append(r.freeArgs, a)]
      BY <1>14 DEF Commands!Loop, type
    <2>3. ~Commands!IsOption(n) /\ n \notin Commands!Stops
      BY <1>3, <1>14
    <2>5. /\ new.status = "OK" /\ new.parsingArgs = r.parsingArgs /\ new.freeArgs = Append(r.freeArgs, a)
          /\ new.userArgs = r.userArgs /\ new.extraArgs = r.extraArgs
      BY <1>2, <1>14, <2>1 DEF ParseResults
    <2> HIDE DEF new
    <2>6. a \in CommandWords
      BY <1>2, <1>14 DEF CommandWords
    <2>7. \A k : ~Tells(n, k)
      BY <2>3 DEF Tells
    <2>8. \A k : (\E i \in 1..n : Tells(i, k)) <=> \E i \in 1..n - 1 : Tells(i, k)
      BY <1>5, <2>7
    <2>9. \A k, i : LastTells(n - 1, k, i) => LastTells(n, k, i)
      BY <1>5, <2>7 DEF LastTells
    <2>10. GoesOn(n, new)
      <3>1. GoesOn(n - 1, r)
        BY <1>7, <1>14
      <3>2. \A i \in 1..n : i \notin Commands!Stops
        BY <1>5, <2>3, <3>1 DEF GoesOn
      <3>3. /\ new.parsingArgs <=> n < E
            /\ new.freeArgs = Kept(SubSeq(args, 1, IF n < E THEN n ELSE E - 1), CommandWords)
        BY <1>1, <1>9, <1>13, <1>14, <2>5, <2>6, <3>1 DEF GoesOn, E
      <3>4. new.extraArgs = SubSeq(args, E + 1, n)
        BY <1>13, <1>14, <2>5, <3>1 DEF GoesOn, E
      <3>5. \A k : k \in DOMAIN new.userArgs <=> \E i \in 1..n : Tells(i, k)
        BY <2>5, <2>8, <3>1 DEF GoesOn
      <3>6. ASSUME NEW k \in DOMAIN new.userArgs
            PROVE  \E i : LastTells(n, k, i) /\ new.userArgs[k] = Commands!ValueAt(i)
        BY <2>5, <2>9, <3>1 DEF GoesOn
      <3> QED
        BY <3>2, <3>3, <3>4, <3>5, <3>6 DEF GoesOn, E
    <2> QED
      BY <1>2, <2>5, <2>10 DEF ParsedUpTo
  <1>15. CASE r.status = "OK" /\ r.parsingArgs /\ type = "other" /\ a.name \notin Words
    <2>1. Commands!IsOption(n) /\ a \notin CommandWords
      BY <1>3, <1>13, <1>15 DEF CommandWords
    <2> DEFINE key == Commands!KeyOf(a.name)
               value == Commands!ParsedValue(key.type, a.value)
    <2>2. Commands!ValueAt(n) = value
      BY DEF Commands!ValueAt, a
    <2>3. new = IF ~Commands!IsUserArgument(a.name) \/ value = Commands!Failed
                THEN [r EXCEPT !.status = "ERROR"] ELSE Commands!Told(r, key.key, value)
      BY <1>15 DEF Commands!Loop, type
    <2> HIDE DEF value, key
    <2>4. CASE ~Commands!IsUserArgument(a.name) \/ value = Commands!Failed
      <3>1. n \in Commands!Stops
        BY <1>3, <2>1, <2>2, <2>4
      <3> HIDE DEF new
      <3> QED
        BY <1>10, <1>15, <2>3, <2>4, <3>1
    <2>5. CASE Commands!IsUserArgument(a.name) /\ value # Commands!Failed
      <3> DEFINE told == Commands!Over([k \in {key.key} |-> value], r.userArgs)
      <3>1. n \notin Commands!Stops
        BY <1>3, <1>15, <2>2, <2>5
      <3>3. /\ DOMAIN told = DOMAIN r.userArgs \cup {key.key} /\ told[key.key] = value
            /\ \A k \in DOMAIN r.userArgs : k # key.key => told[k] = r.userArgs[k]
        BY DEF Commands!Over
      <3> HIDE DEF told
      <3>5. new = [r EXCEPT !.userArgs = told]
        BY <2>3, <2>5 DEF Commands!Told, told
      <3>7. /\ new.status = "OK" /\ new.parsingArgs = r.parsingArgs /\ new.freeArgs = r.freeArgs
            /\ new.userArgs = told /\ new.extraArgs = r.extraArgs
        BY <1>2, <1>15, <3>5 DEF ParseResults
      <3> HIDE DEF new
      <3>8. \A k : Tells(n, k) <=> k = key.key
        BY <2>1 DEF Tells, key, a
      <3>9. \A k : k \in DOMAIN told <=> \E j \in 1..n : Tells(j, k)
        <4>1. \A k : k \in DOMAIN r.userArgs <=> \E j \in 1..n - 1 : Tells(j, k)
          BY <1>7, <1>15 DEF GoesOn
        <4>2. n \in 1..n /\ 1..n - 1 \subseteq 1..n
          OBVIOUS
        <4> QED
          BY <1>5, <3>3, <3>8, <4>1, <4>2
      <3>10. ASSUME NEW k \in DOMAIN told
             PROVE  \E j : LastTells(n, k, j) /\ told[k] = Commands!ValueAt(j)
        <4>1. CASE k = key.key
          <5>1. LastTells(n, k, n)
            BY <3>8, <4>1 DEF LastTells
          <5> QED
            BY <2>2, <3>3, <4>1, <5>1
        <4>2. CASE k # key.key
          <5>1. k \in DOMAIN r.userArgs /\ told[k] = r.userArgs[k]
            BY <3>3, <4>2
          <5>2. PICK j : LastTells(n - 1, k, j) /\ r.userArgs[k] = Commands!ValueAt(j)
            BY <1>7, <1>15, <5>1 DEF GoesOn
          <5>3. LastTells(n, k, j)
            BY <1>5, <3>8, <4>2, <5>2 DEF LastTells
          <5> QED
            BY <5>1, <5>2, <5>3
        <4> QED
          BY <4>1, <4>2
      <3>11. GoesOn(n, new)
        <4>1. GoesOn(n - 1, r)
          BY <1>7, <1>15
        <4>2. \A i \in 1..n : i \notin Commands!Stops
          BY <1>5, <3>1, <4>1 DEF GoesOn
        <4>3. /\ new.parsingArgs <=> n < E
              /\ new.freeArgs = Kept(SubSeq(args, 1, IF n < E THEN n ELSE E - 1), CommandWords)
          BY <1>1, <1>9, <1>13, <1>15, <2>1, <3>7, <4>1 DEF GoesOn, E
        <4>4. new.extraArgs = SubSeq(args, E + 1, n)
          BY <1>13, <1>15, <3>7, <4>1 DEF GoesOn, E
        <4> QED
          BY <3>7, <3>9, <3>10, <4>2, <4>3, <4>4 DEF GoesOn, E
      <3> QED
        BY <1>2, <3>7, <3>11 DEF ParsedUpTo
    <2> QED
      BY <2>4, <2>5
  <1>16. r.status = "OK" /\ r.parsingArgs => type \in {"HELP", "VERSION", "DISABLE_ARGUMENT_PARSING", "other"}
    BY <1>2
  <1> HIDE DEF new
  <1> QED
    BY <1>6, <1>8, <1>11, <1>12, <1>14, <1>15, <1>16

\* The loop parses all arguments, if any.
LEMMA LoopParsesAll ==
    ASSUME args \in Seq(Given), args # <<>>
    PROVE  \E r : /\ ParsedUpTo(Len(args), r)
                  /\ Commands!parseArguments(environment, args) = IF r.status = "OK" THEN Commands!WithEnvironment(environment, r) ELSE r
  <1> DEFINE Rounds(f) == f = [n \in 0..Len(args) |->
                                 IF n = 0 THEN Commands!NothingParsed ELSE Commands!Loop(f[n - 1], args[n])]
             round == CHOOSE f : Rounds(f)
             r == round[Len(args)]
  <1>1. /\ Len(args) \in Nat /\ Len(args) # 0 /\ DOMAIN args = 1..Len(args)
        /\ \A n \in 1..Len(args) : args[n] \in Given
    BY EmptySeq
  <1>2. Commands!parseArguments(environment, args) = IF r.status = "OK" THEN Commands!WithEnvironment(environment, r) ELSE r
    BY DEF Commands!parseArguments
  <1>3. Commands!NothingParsed \in ParseResults
    <2>1. <<>> \in Seq(Given) /\ <<>> \in UserArgs
      <3>1. <<>> \in [{} -> ParsedValues]
        OBVIOUS
      <3> QED
        BY <3>1 DEF UserArgs
    <2> QED
      BY <2>1 DEF Commands!NothingParsed, ParseResults
  <1>4. \E f : Rounds(f)
    <2> DEFINE step == [p \in ParseResults \X Given |-> Commands!Loop(p[1], p[2])]
    <2>1. /\ step \in [ParseResults \X Given -> ParseResults]
          /\ \A l \in ParseResults, a \in Given : step[<<l, a>>] = Commands!Loop(l, a)
      BY LoopType
    <2> HIDE DEF step
    <2>2. PICK f \in [0..Len(args) -> ParseResults] :
            \A n \in 0..Len(args) :
              f[n] = IF n = 0 THEN Commands!NothingParsed ELSE step[<<f[n - 1], args[n]>>]
      <3>1. \E f : IsLoop(f, ParseResults, step, Commands!NothingParsed, args)
        BY <1>3, <2>1, LoopRuns
      <3> QED
        BY <3>1 DEF IsLoop
    <2>3. ASSUME NEW n \in 0..Len(args), n # 0
          PROVE  step[<<f[n - 1], args[n]>>] = Commands!Loop(f[n - 1], args[n])
      <3>1. n - 1 \in 0..Len(args) /\ n \in 1..Len(args)
        BY <1>1, <2>3
      <3>2. f[n - 1] \in ParseResults /\ args[n] \in Given
        BY <1>1, <2>2, <3>1
      <3> QED
        BY <2>1, <3>2
    <2>4. \A n \in 0..Len(args) :
            f[n] = IF n = 0 THEN Commands!NothingParsed ELSE Commands!Loop(f[n - 1], args[n])
      BY <2>2, <2>3
    <2>5. Rounds(f)
      BY <2>2, <2>4
    <2> HIDE DEF Rounds
    <2> QED
      BY <2>5
  <1>5. Rounds(round)
    BY <1>4
  <1> HIDE DEF round
  <1>6. \A n \in 0..Len(args) :
          round[n] = IF n = 0 THEN Commands!NothingParsed ELSE Commands!Loop(round[n - 1], args[n])
    BY <1>5
  <1> DEFINE I == {n \in 0..Len(args) : ParsedUpTo(n, round[n])}
  <1>7. 0 \in I
    <2>1. 0 \in 0..Len(args) /\ round[0] = Commands!NothingParsed
      BY <1>1, <1>6
    <2>2. /\ LastParsed \in 1..Len(args) + 1 /\ 0 < LastParsed
      BY <1>1, EndMarkerIsFirst
    <2>3. SubSeq(args, 1, 0) = <<>> /\ SubSeq(args, LastParsed + 1, 0) = <<>>
      BY <1>1, <2>2
    <2>4. Kept(<<>>, CommandWords) = <<>>
      <3>1. args[1] \in Given /\ <<>> \in Seq(Given)
        BY <1>1
      <3> QED
        BY <3>1, KeptAppend
    <2>5. /\ Commands!NothingParsed.parsingArgs = TRUE /\ Commands!NothingParsed.freeArgs = <<>>
          /\ Commands!NothingParsed.extraArgs = <<>> /\ DOMAIN Commands!NothingParsed.userArgs = {}
      BY EmptySeq DEF Commands!NothingParsed
    <2>6. GoesOn(0, Commands!NothingParsed)
      <3>1. \A i : i \notin 1..0
        OBVIOUS
      <3>2. (IF 0 < LastParsed THEN 0 ELSE LastParsed - 1) = 0
        BY <2>2
      <3>3. /\ Commands!NothingParsed.parsingArgs <=> 0 < LastParsed
            /\ Commands!NothingParsed.freeArgs = Kept(SubSeq(args, 1, 0), CommandWords)
            /\ Commands!NothingParsed.extraArgs = SubSeq(args, LastParsed + 1, 0)
            /\ \A k : k \in DOMAIN Commands!NothingParsed.userArgs <=> \E i \in 1..0 : Tells(i, k)
            /\ \A k : k \notin DOMAIN Commands!NothingParsed.userArgs
        BY <2>2, <2>3, <2>4, <2>5, <3>1
      <3> QED
        BY <3>1, <3>2, <3>3 DEF GoesOn
    <2> QED
      BY <1>3, <2>1, <2>6 DEF ParsedUpTo, Commands!NothingParsed
  <1>8. ASSUME NEW n \in 1..Len(args), n - 1 \in I
        PROVE  n \in I
    <2>1. n \in 0..Len(args) /\ n # 0
      BY <1>1
    <2>2. ParsedUpTo(n - 1, round[n - 1]) /\ round[n] = Commands!Loop(round[n - 1], args[n])
      BY <1>6, <1>8, <2>1
    <2>3. ParsedUpTo(n, round[n])
      BY <2>2, LoopParsesOne
    <2> QED
      BY <2>1, <2>3
  <1>9. Len(args) \in I
    <2> HIDE DEF I
    <2>1. 0..Len(args) \subseteq I
      BY <1>1, <1>7, <1>8, CountingUp
    <2> QED
      BY <1>1, <2>1
  <1>10. ParsedUpTo(Len(args), r)
    BY <1>9
  <1> HIDE DEF r
  <1> QED
    BY <1>2, <1>10

\* While the method runs, the results are known by name, over what was known before.
CommandInv ==
    /\ args \in Seq(Given)
    /\ IF stage = "idle" THEN result = Commands!NothingParsed ELSE result = Commands!parseArguments(environment, args)
    /\ stage = "method" =>
         /\ result.status \in {"OK", "NO_ARGUMENTS"}
         /\ \E old : names = Commands!Over([freeArgs |-> result.freeArgs, extraArgs |-> result.extraArgs],
                                           Commands!Over(result.userArgs, old))

LEMMA OverIs ==
    ASSUME NEW set, NEW object
    PROVE  /\ \A k \in DOMAIN set : Commands!Over(set, object)[k] = set[k]
           /\ \A k \in DOMAIN object : k \notin DOMAIN set => Commands!Over(set, object)[k] = object[k]
           /\ DOMAIN Commands!Over(set, object) = DOMAIN set \cup DOMAIN object
  BY DEF Commands!Over

\* What the environment adds.
LEMMA EnvironmentTells ==
    ASSUME NEW r \in ParseResults, r.status = "OK", NEW p, p = Commands!WithEnvironment(environment, r), p.status = "OK"
    PROVE  /\ p.freeArgs = r.freeArgs /\ p.extraArgs = r.extraArgs
           /\ \A k \in DOMAIN r.userArgs : k \in DOMAIN p.userArgs /\ p.userArgs[k] = r.userArgs[k]
           /\ \A i \in Commands!Environmental(environment, r) :
                LET key == Configuration[i]
                IN  key.key \in DOMAIN p.userArgs /\ p.userArgs[key.key] = Commands!EnvironmentValue(environment, key)
  <1> DEFINE taken == {Configuration[i] : i \in Commands!Environmental(environment, r)}
             added == [k \in {key.key : key \in taken} |->
                         Commands!EnvironmentValue(environment, CHOOSE key \in taken : key.key = k)]
             told == Commands!Over(r.userArgs, added)
  <1>1. p = IF \E key \in taken : Commands!EnvironmentValue(environment, key) = Commands!Failed
            THEN [r EXCEPT !.status = "THROWN", !.userArgs = <<>>] ELSE [r EXCEPT !.userArgs = told]
    BY DEF Commands!WithEnvironment
  <1> HIDE DEF told
  <1>2. p = [r EXCEPT !.userArgs = told]
    <2>1. [r EXCEPT !.status = "THROWN", !.userArgs = <<>>].status = "THROWN"
      BY DEF ParseResults
    <2> QED
      BY <1>1, <2>1
  <1>3. p.freeArgs = r.freeArgs /\ p.extraArgs = r.extraArgs /\ p.userArgs = told
    BY <1>2 DEF ParseResults
  <1>4. ASSUME NEW i \in Commands!Environmental(environment, r)
        PROVE  LET key == Configuration[i]
               IN  /\ key.key \in DOMAIN added /\ added[key.key] = Commands!EnvironmentValue(environment, key)
                   /\ key.key \notin DOMAIN r.userArgs
    <2> DEFINE key == Configuration[i]
    <2>1. key \in taken /\ key.key \notin DOMAIN r.userArgs
      BY DEF Commands!Environmental
    <2>2. ASSUME NEW other \in taken, other.key = key.key PROVE other = key
      <3>1. PICK j \in Commands!Environmental(environment, r) : other = Configuration[j]
        OBVIOUS
      <3>2. i \in DOMAIN Configuration /\ j \in DOMAIN Configuration
        BY DEF Commands!Environmental
      <3> QED
        BY <2>2, <3>1, <3>2, ConfigurationFacts
    <2> HIDE DEF taken, key
    <2>3. (CHOOSE k \in taken : k.key = key.key) = key
      BY <2>1, <2>2
    <2>4. key.key \in DOMAIN added /\ added[key.key] = Commands!EnvironmentValue(environment, key)
      BY <2>1, <2>3
    <2> QED
      BY <2>1, <2>4 DEF key
  <1> HIDE DEF added
  <1>5. /\ \A k \in DOMAIN r.userArgs : told[k] = r.userArgs[k]
        /\ \A k \in DOMAIN added : k \notin DOMAIN r.userArgs => told[k] = added[k]
        /\ DOMAIN told = DOMAIN r.userArgs \cup DOMAIN added
    BY OverIs DEF told
  <1> QED
    BY <1>3, <1>4, <1>5

LEMMA CommandInvShows == CommandInv => MethodSeesItsArguments
  <1> SUFFICES ASSUME CommandInv
               PROVE  MethodSeesItsArguments
    OBVIOUS
  <1> USE DEF MethodSeesItsArguments, Commands!MethodSeesItsArguments
  <1>1. args \in Seq(Given)
    BY DEF CommandInv
  <1>2. CASE result = Commands!NothingParsed /\ stage = "idle"
    BY <1>2 DEF Commands!NothingParsed
  <1>3. CASE args = <<>> /\ stage # "idle"
    <2>1. result.status = "NO_ARGUMENTS"
      BY <1>3 DEF CommandInv, Commands!parseArguments, Commands!NothingParsed
    <2> QED
      BY <1>3, <2>1
  <1>4. CASE args # <<>> /\ stage # "idle"
    <2> DEFINE E == LastParsed
               n == Len(args)
    <2>1. PICK r : /\ ParsedUpTo(n, r)
                   /\ result = IF r.status = "OK" THEN Commands!WithEnvironment(environment, r) ELSE r
      BY <1>1, <1>4, LoopParsesAll DEF CommandInv
    <2>2. /\ E \in 1..n + 1 /\ n \in Nat /\ DOMAIN args = 1..n /\ r \in ParseResults
          /\ Commands!Stops \subseteq 1..n
      BY <1>1, <2>1, EndMarkerIsFirst DEF ParsedUpTo, Commands!Stops
    <2>3. CASE r.status # "OK"
      <3>1. PICK m \in Commands!Stops :
              /\ \A i \in Commands!Stops : m =< i
              /\ r.status \in {"HELP", "VERSION"} => Commands!parseCommandArgumentType(args[m]) = r.status
              /\ r.status = "ERROR" => Commands!parseCommandArgumentType(args[m]) = "other"
        BY <2>1, <2>3 DEF ParsedUpTo, HasStopped
      <3>2. Commands!Stops \in SUBSET Int
        BY <2>2
      <3>3. Commands!Min(Commands!Stops) = m
        BY <3>1, <3>2, LeastIsMin
      <3>4. result = r /\ r.status \in {"HELP", "VERSION", "ERROR"}
        BY <2>1, <2>2, <2>3 DEF ParseResults
      <3>5. stage # "method"
        BY <3>4 DEF CommandInv
      <3> QED
        BY <3>1, <3>3, <3>4, <3>5
    <2>4. CASE r.status = "OK"
      <3>1. result = Commands!WithEnvironment(environment, r)
        BY <2>1, <2>4
      <3>2. result.status \in {"OK", "THROWN"}
        BY <2>2, <2>4, <3>1 DEF Commands!WithEnvironment, ParseResults
      <3>3. GoesOn(n, r)
        BY <2>1, <2>4 DEF ParsedUpTo
      <3> SUFFICES ASSUME stage = "method"
                   PROVE  /\ Commands!Stops = {}
                          /\ names["freeArgs"] = Commands!Those(SubSeq(args, 1, E - 1), LAMBDA a : a.name \in Words)
                          /\ names["extraArgs"] = SubSeq(args, E + 1, n)
                          /\ \A i \in DOMAIN Configuration :
                               LET key == Configuration[i]
                                   told == {j \in DOMAIN args : Commands!TellsKey(j, key)}
                               IN  key.key \notin {"freeArgs", "extraArgs"} =>
                                     /\ told # {} => names[key.key] = Commands!ValueAt(Commands!Max(told))
                                     /\ told = {} /\ key.env \in DOMAIN environment
                                        /\ i = Commands!Max(Commands!KeysWith("env", key.env)) =>
                                          names[key.key] = Commands!EnvironmentValue(environment, key)
        BY <3>2 DEF LastParsed
      <3>4. result.status = "OK"
        BY <3>2 DEF CommandInv
      <3>5. /\ result.freeArgs = r.freeArgs /\ result.extraArgs = r.extraArgs
            /\ \A k \in DOMAIN r.userArgs : k \in DOMAIN result.userArgs /\ result.userArgs[k] = r.userArgs[k]
            /\ \A i \in Commands!Environmental(environment, r) :
                 LET key == Configuration[i]
                 IN  /\ key.key \in DOMAIN result.userArgs
                     /\ result.userArgs[key.key] = Commands!EnvironmentValue(environment, key)
        BY <2>2, <2>4, <3>1, <3>4, EnvironmentTells
      <3>6. /\ names["freeArgs"] = r.freeArgs /\ names["extraArgs"] = r.extraArgs
            /\ \A k \in DOMAIN result.userArgs :
                 k \notin {"freeArgs", "extraArgs"} => names[k] = result.userArgs[k]
        <4> DEFINE rows == [freeArgs |-> result.freeArgs, extraArgs |-> result.extraArgs]
        <4>1. PICK old : names = Commands!Over(rows, Commands!Over(result.userArgs, old))
          BY DEF CommandInv
        <4>2. DOMAIN rows = {"freeArgs", "extraArgs"} /\ rows["freeArgs"] = r.freeArgs /\ rows["extraArgs"] = r.extraArgs
          BY <3>5
        <4> DEFINE rest == Commands!Over(result.userArgs, old)
        <4> HIDE DEF rows
        <4>3. \A k \in DOMAIN result.userArgs : k \in DOMAIN rest /\ rest[k] = result.userArgs[k]
          BY DEF Commands!Over
        <4>4. names = Commands!Over(rows, rest)
          BY <4>1
        <4> HIDE DEF rest
        <4>5. /\ \A k \in DOMAIN rows : names[k] = rows[k]
              /\ \A k \in DOMAIN rest : k \notin DOMAIN rows => names[k] = rest[k]
          BY <4>4 DEF Commands!Over
        <4> QED
          BY <4>2, <4>3, <4>5
      <3>7. Commands!Stops = {}
        BY <2>2, <3>3 DEF GoesOn
      <3>8. r.freeArgs = Commands!Those(SubSeq(args, 1, E - 1), LAMBDA a : a.name \in Words)
        <4> DEFINE parsed == SubSeq(args, 1, E - 1)
        <4>1. (IF n < E THEN n ELSE E - 1) = E - 1
          BY <2>2
        <4>2. r.freeArgs = Kept(parsed, CommandWords)
          BY <3>3, <4>1 DEF GoesOn, E
        <4>3. parsed \in Seq(Given)
          BY <1>1, <2>2
        <4> HIDE DEF parsed
        <4>4. [i \in DOMAIN parsed |-> IF parsed[i].name \in Words THEN <<parsed[i]>> ELSE <<>>]
                = [i \in DOMAIN parsed |-> IF parsed[i] \in CommandWords THEN <<parsed[i]>> ELSE <<>>]
          BY <4>3 DEF CommandWords
        <4> QED
          BY <4>2, <4>4, SameCommandSelections DEF Commands!Those, Commands!Each, Kept, parsed
      <3>9. r.extraArgs = SubSeq(args, E + 1, n)
        BY <3>3 DEF GoesOn, E
      <3>10. ASSUME NEW i \in DOMAIN Configuration, Configuration[i].key \notin {"freeArgs", "extraArgs"}
             PROVE  LET key == Configuration[i]
                        told == {j \in DOMAIN args : Commands!TellsKey(j, key)}
                    IN  /\ told # {} => names[key.key] = Commands!ValueAt(Commands!Max(told))
                        /\ told = {} /\ key.env \in DOMAIN environment
                           /\ i = Commands!Max(Commands!KeysWith("env", key.env)) =>
                             names[key.key] = Commands!EnvironmentValue(environment, key)
        <4> DEFINE key == Configuration[i]
                   told == {j \in DOMAIN args : Commands!TellsKey(j, key)}
        <4>1. \A j : j \in told <=> j \in 1..n /\ Tells(j, key.key)
          BY <2>2 DEF Commands!TellsKey, Tells
        <4>2. key.key \in DOMAIN r.userArgs <=> told # {}
          BY <3>3, <4>1 DEF GoesOn
        <4>3. ASSUME told # {}
              PROVE  names[key.key] = Commands!ValueAt(Commands!Max(told))
          <5>1. PICK j : LastTells(n, key.key, j) /\ r.userArgs[key.key] = Commands!ValueAt(j)
            BY <3>3, <4>2, <4>3 DEF GoesOn
          <5>2. told \in SUBSET Int
            BY <2>2, <4>1
          <5>3. j \in told /\ \A l \in told : l =< j
            BY <4>1, <5>1 DEF LastTells
          <5> HIDE DEF told, key
          <5>4. Commands!Max(told) = j
            BY <5>2, <5>3, GreatestIsMax
          <5> QED
            BY <3>5, <3>6, <3>10, <4>2, <4>3, <5>1, <5>4 DEF key
        <4>4. ASSUME told = {}, key.env \in DOMAIN environment, i = Commands!Max(Commands!KeysWith("env", key.env))
              PROVE  names[key.key] = Commands!EnvironmentValue(environment, key)
          <5>1. i \in Commands!Environmental(environment, r)
            BY <4>2, <4>4 DEF Commands!Environmental
          <5> QED
            BY <3>5, <3>6, <3>10, <5>1
        <4> QED
          BY <4>3, <4>4
      <3> QED
        BY <3>6, <3>7, <3>8, <3>9, <3>10
    <2> QED
      BY <2>3, <2>4
  <1> QED
    BY <1>2, <1>3, <1>4 DEF CommandInv

\* Whatever a program's configuration is, and whatever was run before, the method
\* of a command sees what its arguments and the environment tell.
THEOREM MethodsSeeTheirArguments == Commands!CommandSpec => []MethodSeesItsArguments
  <1>1. Commands!Init => CommandInv
    BY DEF Commands!Init, CommandInv
  <1>2. CommandInv /\ [Commands!Next]_(Commands!commandVars) => CommandInv'
    <2> SUFFICES ASSUME CommandInv, [Commands!Next]_(Commands!commandVars) PROVE CommandInv'
      OBVIOUS
    <2>1. CASE UNCHANGED Commands!commandVars
      BY <2>1 DEF Commands!commandVars, CommandInv
    <2>2. ASSUME NEW n \in 0..MaxArguments, NEW arguments \in [1..n -> Given], Commands!run(arguments)
          PROVE  CommandInv'
      <3> DEFINE r == Commands!parseArguments(environment, arguments)
      <3>1. /\ args' = arguments /\ result' = r /\ environment' = environment
            /\ stage' = IF r.status \in {"OK", "NO_ARGUMENTS"} THEN "method" ELSE "over"
            /\ names' = IF r.status = "THROWN" THEN names
                        ELSE Commands!Over([freeArgs |-> r.freeArgs, extraArgs |-> r.extraArgs],
                                           Commands!Over(r.userArgs, names))
        BY <2>2 DEF Commands!run
      <3>2. arguments \in Seq(Given)
        BY <2>2
      <3>3. result' = Commands!parseArguments(environment', args')
        BY <3>1
      <3> HIDE DEF r
      <3>4. stage' # "idle"
        BY <3>1
      <3>5. stage' = "method" => r.status \in {"OK", "NO_ARGUMENTS"} /\ r.status # "THROWN"
        BY <3>1
      <3>6. stage' = "method" =>
              /\ result'.status \in {"OK", "NO_ARGUMENTS"}
              /\ \E old : names' = Commands!Over([freeArgs |-> result'.freeArgs, extraArgs |-> result'.extraArgs],
                                                Commands!Over(result'.userArgs, old))
        BY <3>1, <3>5
      <3> QED
        BY <3>1, <3>2, <3>3, <3>4, <3>6 DEF CommandInv
    <2>3. CASE Commands!commandEnds
      BY <2>3 DEF Commands!commandEnds, CommandInv, Commands!NothingParsed
    <2> QED
      BY <2>1, <2>2, <2>3 DEF Commands!Next
  <1> QED
    BY <1>1, <1>2, CommandInvShows, PTL DEF Commands!CommandSpec

------------------------------------------------------------------------------
\* BufferedLog

Text == Seq(STRING)

LettersIn(text) == Kept(text, Letters)

AllLetters(texts) == Kept(FlattenSeq(texts), Letters)

\* The log's own instances of the sequence operators are those of the library.
LEMMA SameLogOperators ==
    ASSUME NEW s
    PROVE  /\ Log!FlattenSeq(s) = FlattenSeq(s) /\ Log!Max(s) = Max(s)
           /\ Log!LettersOf(s) = LettersIn(s)
  <1>1. \A u : Log!FlattenSeq(u) = FlattenSeq(u)
    BY DEF Log!FlattenSeq, FlattenSeq
  <1>2. Log!Max(s) = Max(s)
    BY DEF Log!Max, Max
  <1>3. Log!LettersOf(s) = LettersIn(s)
    BY <1>1 DEF Log!LettersOf, Log!Those, Log!Each, Kept, LettersIn
  <1> QED
    BY <1>1, <1>2, <1>3

\* Letters of text are text.
LEMMA LettersAreText ==
    /\ \A t \in Text : LettersIn(t) \in Text
    /\ \A texts \in Seq(Text) : AllLetters(texts) \in Text
  BY KeptInSeq, FlattenInSeq DEF LettersIn, AllLetters, Text

\* Letters of texts one after the other.
LEMMA LettersJoin ==
    ASSUME NEW s \in Text, NEW t \in Text
    PROVE  LettersIn(s \o t) = LettersIn(s) \o LettersIn(t)
  BY KeptConcat DEF LettersIn, Text

\* A letter that is appended is the last of the letters.
LEMMA LettersAppend ==
    ASSUME NEW t \in Text, NEW c \in STRING
    PROVE  LettersIn(Append(t, c)) = IF c \in Letters THEN Append(LettersIn(t), c) ELSE LettersIn(t)
  BY KeptGrows DEF LettersIn, Text

\* Text without a letter has none to tell.
LEMMA NoLetters ==
    ASSUME NEW t \in Text, \A i \in DOMAIN t : t[i] \notin Letters
    PROVE  LettersIn(t) = <<>>
  BY NoneKept DEF LettersIn, Text

\* No text has no letters.
LEMMA NothingToTell == LettersIn(<<>>) = <<>> /\ AllLetters(<<>>) = <<>>
  <1>1. FlattenSeq(<<>>) = <<>>
    BY DEF FlattenSeq
  <1> QED
    BY <1>1, NothingKept DEF LettersIn, AllLetters

\* The letters of a text that is appended come last.
LEMMA AllLettersAppend ==
    ASSUME NEW texts \in Seq(Text), NEW t \in Text
    PROVE  AllLetters(Append(texts, t)) = AllLetters(texts) \o LettersIn(t)
  <1> DEFINE flat == FlattenSeq(texts)
  <1>1. flat \in Seq(STRING) /\ t \in Seq(STRING)
    BY FlattenInSeq DEF Text
  <1>2. FlattenSeq(Append(texts, t)) = flat \o t
    BY FlattenAppend DEF Text
  <1> HIDE DEF flat
  <1>3. Kept(flat \o t, Letters) = Kept(flat, Letters) \o Kept(t, Letters)
    BY <1>1, KeptConcat
  <1> QED
    BY <1>2, <1>3 DEF LettersIn, AllLetters, flat

\* The letters of two lists of texts follow each other.
LEMMA AllLettersJoin ==
    ASSUME NEW a \in Seq(Text), NEW b \in Seq(Text)
    PROVE  AllLetters(a \o b) = AllLetters(a) \o AllLetters(b)
  <1> DEFINE first == FlattenSeq(a)
             second == FlattenSeq(b)
  <1>1. first \in Seq(STRING) /\ second \in Seq(STRING) /\ FlattenSeq(a \o b) = first \o second
    BY FlattenConcat DEF Text
  <1> HIDE DEF first, second
  <1>2. Kept(first \o second, Letters) = Kept(first, Letters) \o Kept(second, Letters)
    BY <1>1, KeptConcat
  <1> QED
    BY <1>1, <1>2 DEF AllLetters, first, second

\* Lists of texts that have the same letters one by one have the same letters.
LEMMA AllLettersSame ==
    ASSUME NEW a \in Seq(Text), NEW b \in Seq(Text), Len(a) = Len(b),
           \A i \in DOMAIN a : LettersIn(a[i]) = LettersIn(b[i])
    PROVE  AllLetters(a) = AllLetters(b)
  <1>1. DOMAIN a = DOMAIN b
    OBVIOUS
  <1>2. /\ AllLetters(a) = FlattenSeq([i \in DOMAIN a |-> LettersIn(a[i])])
        /\ AllLetters(b) = FlattenSeq([i \in DOMAIN b |-> LettersIn(b[i])])
    BY KeptFlattens DEF AllLetters, LettersIn, Text
  <1>3. [i \in DOMAIN a |-> LettersIn(a[i])] = [i \in DOMAIN b |-> LettersIn(b[i])]
    BY <1>1
  <1> QED
    BY <1>2, <1>3

\* What is left of a text, and the pieces before it.
Cutting == [pieces : Seq(Text), rest : Text]

CutFrom(text, n, p) ==
    /\ p \in Cutting
    /\ Len(p.rest) =< Len(text) - n
    /\ AllLetters(p.pieces) \o LettersIn(p.rest) = LettersIn(text)
    /\ \A i \in DOMAIN p.pieces : Len(p.pieces[i]) =< ChunkSize

\* Texts that fit still do with one more that fits.
LEMMA FitsAppended ==
    ASSUME NEW texts \in Seq(Text), NEW t \in Text, Len(t) =< ChunkSize,
           \A i \in DOMAIN texts : Len(texts[i]) =< ChunkSize
    PROVE  /\ Append(texts, t) \in Seq(Text)
           /\ \A i \in DOMAIN Append(texts, t) : Len(Append(texts, t)[i]) =< ChunkSize
  <1> DEFINE added == Append(texts, t)
  <1>1. /\ added \in Seq(Text) /\ Len(texts) \in Nat /\ DOMAIN added = 1..Len(texts) + 1 /\ DOMAIN texts = 1..Len(texts)
        /\ \A i \in 1..Len(texts) : added[i] = texts[i]
        /\ added[Len(texts) + 1] = t
    OBVIOUS
  <1> HIDE DEF added
  <1>2. \A i \in DOMAIN added : i \in DOMAIN texts \/ i = Len(texts) + 1
    BY <1>1
  <1>3. \A i \in DOMAIN added : Len(added[i]) =< ChunkSize
    BY <1>1, <1>2
  <1> QED
    BY <1>1, <1>3 DEF added

\* A round cuts off a piece that fits, with at least one character, and its letters.
LEMMA CutKeeps ==
    ASSUME NEW text \in Text, NEW n \in 1..Len(text), NEW p, CutFrom(text, n - 1, p)
    PROVE  CutFrom(text, n, Log!Cut(p))
  <1>1. /\ p.pieces \in Seq(Text) /\ p.rest \in Text /\ Len(p.rest) \in Nat /\ Len(text) \in Nat
        /\ Len(p.rest) =< Len(text) - (n - 1)
        /\ AllLetters(p.pieces) \o LettersIn(p.rest) = LettersIn(text)
        /\ \A i \in DOMAIN p.pieces : Len(p.pieces[i]) =< ChunkSize
    BY DEF CutFrom, Cutting, Text
  <1>2. CASE p.rest = <<>>
    <2>1. Log!Cut(p) = p
      BY <1>2 DEF Log!Cut
    <2>2. Len(p.rest) = 0 /\ 0 =< Len(text) - n
      BY <1>1, <1>2
    <2> QED
      BY <2>1, <2>2 DEF CutFrom
  <1>3. CASE p.rest # <<>>
    <2> DEFINE prefix == IF p.pieces = <<>> THEN <<>> ELSE Prefix
               suffix == IF Len(p.rest) =< ChunkSize - Len(prefix) THEN <<>> ELSE Suffix
               room == ChunkSize - Len(prefix) - Len(suffix)
               taken == IF room < Len(p.rest) THEN room ELSE Len(p.rest)
               head == SubSeq(p.rest, 1, taken)
               tail == SubSeq(p.rest, taken + 1, Len(p.rest))
               piece == prefix \o head \o suffix
    <2>1. Log!Cut(p) = [pieces |-> Append(p.pieces, piece), rest |-> tail]
      BY <1>3 DEF Log!Cut
    <2>2. /\ prefix \in Text /\ LettersIn(prefix) = <<>> /\ Len(prefix) \in 0..Len(Prefix) /\ Len(Prefix) \in Nat
      <3>1. Prefix \in Text /\ LettersIn(Prefix) = <<>>
        BY LogAssumption, NoLetters DEF Text
      <3>2. <<>> \in Text /\ Len(<<>>) = 0 /\ LettersIn(<<>>) = <<>>
        BY NothingToTell DEF Text
      <3>3. Len(Prefix) \in Nat
        BY <3>1 DEF Text
      <3>4. prefix = <<>> \/ prefix = Prefix
        OBVIOUS
      <3> HIDE DEF prefix
      <3>5. CASE prefix = <<>>
        BY <3>2, <3>3, <3>5
      <3>6. CASE prefix = Prefix
        BY <3>1, <3>3, <3>6
      <3> QED
        BY <3>4, <3>5, <3>6
    <2> HIDE DEF prefix
    <2>3. /\ suffix \in Text /\ LettersIn(suffix) = <<>> /\ Len(suffix) \in 0..Len(Suffix) /\ Len(Suffix) \in Nat
      <3>1. Suffix \in Text /\ LettersIn(Suffix) = <<>>
        BY LogAssumption, NoLetters DEF Text
      <3>2. <<>> \in Text /\ Len(<<>>) = 0 /\ LettersIn(<<>>) = <<>>
        BY NothingToTell DEF Text
      <3>3. Len(Suffix) \in Nat
        BY <3>1 DEF Text
      <3>4. suffix = <<>> \/ suffix = Suffix
        OBVIOUS
      <3> HIDE DEF suffix
      <3>5. CASE suffix = <<>>
        BY <3>2, <3>3, <3>5
      <3>6. CASE suffix = Suffix
        BY <3>1, <3>3, <3>6
      <3> QED
        BY <3>4, <3>5, <3>6
    <2> HIDE DEF suffix
    <2>4. ChunkSize \in Nat /\ ChunkSize > Len(Prefix) + 1 + Len(Suffix)
      BY LogAssumption
    <2>5. room \in Nat /\ room > 0 /\ room + Len(prefix) + Len(suffix) = ChunkSize
      BY <2>2, <2>3, <2>4
    <2>6. Len(p.rest) > 0
      BY <1>1, <1>3 DEF Text
    <2> HIDE DEF room
    <2>7. taken \in 1..Len(p.rest) /\ taken =< room
      BY <1>1, <2>5, <2>6
    <2> HIDE DEF taken
    <2>8. /\ head \in Text /\ tail \in Text /\ Len(head) = taken /\ Len(tail) = Len(p.rest) - taken
          /\ head \o tail = p.rest
      <3> DEFINE rest == p.rest
      <3>1. rest \in Seq(STRING) /\ taken \in 1..Len(rest) /\ Len(rest) \in Nat
        BY <1>1, <2>7 DEF Text
      <3> HIDE DEF rest
      <3>2. /\ SubSeq(rest, 1, taken) \in Seq(STRING) /\ SubSeq(rest, taken + 1, Len(rest)) \in Seq(STRING)
            /\ Len(SubSeq(rest, 1, taken)) = taken /\ Len(SubSeq(rest, taken + 1, Len(rest))) = Len(rest) - taken
        BY <3>1
      <3>3. SubSeq(rest, 1, taken) \o SubSeq(rest, taken + 1, Len(rest)) = rest
        <4>1. /\ 1 \in 1..Len(rest) + 1 /\ taken \in (1 - 1)..Len(rest) /\ Len(rest) \in taken..Len(rest)
              /\ SubSeq(rest, 1, Len(rest)) = rest
          BY <3>1
        <4> QED
          BY <3>1, <4>1, ConcatAdjacentSubSeq
      <3> QED
        BY <3>2, <3>3 DEF Text, rest
    <2> HIDE DEF head, tail
    <2>9. /\ piece \in Text /\ Len(piece) =< ChunkSize
          /\ LettersIn(piece) = LettersIn(head)
      <3>1. prefix \o head \in Text /\ Len(prefix \o head) = Len(prefix) + taken
        BY <2>2, <2>8, ConcatProperties DEF Text
      <3>2. piece \in Text /\ Len(piece) = Len(prefix) + taken + Len(suffix)
        BY <2>3, <3>1, ConcatProperties DEF Text
      <3>3. /\ LettersIn(prefix \o head) = LettersIn(prefix) \o LettersIn(head)
            /\ LettersIn(piece) = LettersIn(prefix \o head) \o LettersIn(suffix)
        BY <2>2, <2>3, <2>8, <3>1, LettersJoin
      <3>4. <<>> \o LettersIn(head) = LettersIn(head) /\ LettersIn(head) \o <<>> = LettersIn(head)
        BY <2>8, LettersAreText, ConcatEmptySeq DEF Text
      <3>5. Len(prefix) + taken + Len(suffix) =< ChunkSize
        BY <1>1, <2>2, <2>3, <2>4, <2>5, <2>7
      <3> QED
        BY <2>2, <2>3, <3>2, <3>3, <3>4, <3>5
    <2> HIDE DEF piece
    <2>10. /\ Append(p.pieces, piece) \in Seq(Text)
           /\ \A i \in DOMAIN Append(p.pieces, piece) : Len(Append(p.pieces, piece)[i]) =< ChunkSize
      BY <1>1, <2>9, FitsAppended
    <2>11. AllLetters(Append(p.pieces, piece)) \o LettersIn(tail) = LettersIn(text)
      <3> DEFINE before == AllLetters(p.pieces)
      <3>1. AllLetters(Append(p.pieces, piece)) = before \o LettersIn(head)
        BY <1>1, <2>9, AllLettersAppend
      <3>2. LettersIn(p.rest) = LettersIn(head) \o LettersIn(tail)
        BY <2>8, LettersJoin
      <3>3. before \in Seq(STRING) /\ LettersIn(head) \in Seq(STRING) /\ LettersIn(tail) \in Seq(STRING)
        BY <1>1, <2>8, LettersAreText DEF Text
      <3> HIDE DEF before
      <3>4. (before \o LettersIn(head)) \o LettersIn(tail) = before \o (LettersIn(head) \o LettersIn(tail))
        BY <3>3, ConcatAssociative
      <3> QED
        BY <1>1, <3>1, <3>2, <3>4 DEF before
    <2>12. Len(tail) =< Len(text) - n
      BY <1>1, <2>7, <2>8
    <2> DEFINE new == Log!Cut(p)
    <2>13. new \in Cutting /\ new.pieces = Append(p.pieces, piece) /\ new.rest = tail
      BY <2>1, <2>8, <2>10 DEF Cutting
    <2> HIDE DEF new
    <2>14. CutFrom(text, n, new)
      BY <2>10, <2>11, <2>12, <2>13 DEF CutFrom
    <2> QED
      BY <2>14 DEF new
  <1> QED
    BY <1>2, <1>3

\* Splitting keeps the letters, in pieces that fit.
LEMMA SplitKeeps ==
    ASSUME NEW text \in Text
    PROVE  /\ Log!splitStringValue(text) \in Seq(Text)
           /\ AllLetters(Log!splitStringValue(text)) = LettersIn(text)
           /\ \A i \in DOMAIN Log!splitStringValue(text) : Len(Log!splitStringValue(text)[i]) =< ChunkSize
  <1> DEFINE base == [pieces |-> <<>>, rest |-> text]
             Rounds(f) == f = [n \in 0..Len(text) |-> IF n = 0 THEN base ELSE Log!Cut(f[n - 1])]
             cut == CHOOSE f : Rounds(f)
  <1>1. Len(text) \in Nat
    BY DEF Text
  <1>2. Log!splitStringValue(text) = cut[Len(text)].pieces
    BY DEF Log!splitStringValue
  <1>3. CutFrom(text, 0, base)
    <2>1. base \in Cutting /\ base.pieces = <<>> /\ base.rest = text
      BY DEF Cutting
    <2>3. Len(text) =< Len(text) - 0 /\ \A i : i \notin DOMAIN <<>>
      BY <1>1
    <2>4. AllLetters(base.pieces) = <<>>
      BY <2>1, NothingToTell
    <2> HIDE DEF base
    <2>2. <<>> \o LettersIn(text) = LettersIn(text)
      BY LettersAreText, ConcatEmptySeq DEF Text
    <2> QED
      BY <2>1, <2>2, <2>3, <2>4 DEF CutFrom
  <1> HIDE DEF base
  <1>4. \E f : Rounds(f)
    <2> DEFINE C == {p \in Cutting : \E n \in 0..Len(text) : CutFrom(text, n, p)}
               step == [q \in C \X STRING |-> Log!Cut(q[1])]
    <2>1. base \in C
      <3>1. base \in Cutting /\ 0 \in 0..Len(text)
        BY <1>1, <1>3 DEF CutFrom
      <3> QED
        BY <1>3, <3>1
    <2>2. ASSUME NEW p \in C
          PROVE  Log!Cut(p) \in C
      <3>1. PICK n \in 0..Len(text) : CutFrom(text, n, p)
        OBVIOUS
      <3>2. CASE n = Len(text)
        <4>1. Len(p.rest) = 0 /\ p.rest \in Text
          BY <1>1, <3>1, <3>2 DEF CutFrom, Cutting, Text
        <4>2. p.rest = <<>>
          BY <4>1, EmptySeq DEF Text
        <4>3. Log!Cut(p) = p
          BY <4>2 DEF Log!Cut
        <4> QED
          BY <4>3
      <3>3. CASE n # Len(text)
        <4>1. n + 1 \in 1..Len(text) /\ (n + 1) - 1 = n
          BY <1>1, <3>3
        <4>2. CutFrom(text, n + 1, Log!Cut(p))
          BY <3>1, <4>1, CutKeeps
        <4>3. n + 1 \in 0..Len(text) /\ Log!Cut(p) \in Cutting
          BY <4>1, <4>2 DEF CutFrom
        <4> QED
          BY <4>2, <4>3
      <3> QED
        BY <3>2, <3>3
    <2> HIDE DEF C
    <2>3. step \in [C \X STRING -> C] /\ \A p \in C, c \in STRING : step[<<p, c>>] = Log!Cut(p)
      BY <2>2
    <2> HIDE DEF step
    <2>4. PICK f \in [0..Len(text) -> C] :
            \A n \in 0..Len(text) : f[n] = IF n = 0 THEN base ELSE step[<<f[n - 1], text[n]>>]
      <3>1. \E f : IsLoop(f, C, step, base, text)
        BY <2>1, <2>3, LoopRuns DEF Text
      <3> QED
        BY <3>1 DEF IsLoop
    <2>5. ASSUME NEW n \in 0..Len(text), n # 0
          PROVE  step[<<f[n - 1], text[n]>>] = Log!Cut(f[n - 1])
      <3>1. n - 1 \in 0..Len(text) /\ n \in 1..Len(text)
        BY <1>1, <2>5
      <3>2. f[n - 1] \in C /\ text[n] \in STRING
        BY <1>1, <2>4, <3>1 DEF Text
      <3> QED
        BY <2>3, <3>2
    <2>6. \A n \in 0..Len(text) : f[n] = IF n = 0 THEN base ELSE Log!Cut(f[n - 1])
      BY <2>4, <2>5
    <2>7. Rounds(f)
      BY <2>4, <2>6
    <2> HIDE DEF Rounds
    <2> QED
      BY <2>7
  <1>5. Rounds(cut)
    BY <1>4
  <1> HIDE DEF cut
  <1>6. \A n \in 0..Len(text) : cut[n] = IF n = 0 THEN base ELSE Log!Cut(cut[n - 1])
    BY <1>5
  <1> DEFINE I == {n \in 0..Len(text) : CutFrom(text, n, cut[n])}
  <1>7. 0 \in I
    <2>1. 0 \in 0..Len(text) /\ cut[0] = base
      BY <1>1, <1>6
    <2> QED
      BY <1>3, <2>1
  <1>8. ASSUME NEW n \in 1..Len(text), n - 1 \in I
        PROVE  n \in I
    <2>1. n \in 0..Len(text) /\ n # 0
      BY <1>1
    <2>2. CutFrom(text, n - 1, cut[n - 1]) /\ cut[n] = Log!Cut(cut[n - 1])
      BY <1>6, <1>8, <2>1
    <2>3. CutFrom(text, n, cut[n])
      BY <2>2, CutKeeps
    <2> QED
      BY <2>1, <2>3
  <1>9. Len(text) \in I
    <2> HIDE DEF I
    <2>1. 0..Len(text) \subseteq I
      BY <1>1, <1>7, <1>8, CountingUp
    <2> QED
      BY <1>1, <2>1
  <1> DEFINE p == cut[Len(text)]
  <1>10. CutFrom(text, Len(text), p)
    BY <1>9
  <1> HIDE DEF p
  <1>11. p.pieces \in Seq(Text) /\ p.rest = <<>>
    <2>1. p.pieces \in Seq(Text) /\ p.rest \in Text /\ Len(p.rest) \in Nat /\ Len(p.rest) =< 0
      BY <1>1, <1>10 DEF CutFrom, Cutting, Text
    <2> QED
      BY <2>1, EmptySeq DEF Text
  <1>12. AllLetters(p.pieces) \o <<>> = AllLetters(p.pieces)
    BY <1>11, LettersAreText, ConcatEmptySeq DEF Text
  <1> QED
    BY <1>2, <1>10, <1>11, <1>12, NothingToTell DEF CutFrom, p

\* Line breaks at the end of a text are no letters.
LEMMA TrimKeeps ==
    ASSUME NEW t \in Text
    PROVE  Log!TrimEnd(t) \in Text /\ Len(Log!TrimEnd(t)) =< Len(t) /\ LettersIn(Log!TrimEnd(t)) = LettersIn(t)
  <1> DEFINE kept == {i \in DOMAIN t : t[i] # Break}
             k == IF kept = {} THEN 0 ELSE Max(kept)
             head == SubSeq(t, 1, k)
             tail == SubSeq(t, k + 1, Len(t))
  <1>1. t \in Seq(STRING) /\ Len(t) \in Nat /\ DOMAIN t = 1..Len(t)
    BY DEF Text
  <1>2. Log!TrimEnd(t) = head
    BY SameLogOperators DEF Log!TrimEnd
  <1>3. k \in 0..Len(t) /\ \A i \in 1..Len(t) : t[i] # Break => i =< k
    <2>1. kept \subseteq 1..Len(t) /\ \A i \in 1..Len(t) : t[i] # Break => i \in kept
      BY <1>1
    <2> HIDE DEF kept
    <2>2. CASE kept = {}
      BY <1>1, <2>1, <2>2
    <2>3. CASE kept # {}
      <3>1. Max(kept) \in kept /\ \A i \in kept : i =< Max(kept)
        BY <1>1, <2>1, <2>3, GreatestOfNaturals
      <3>2. k = Max(kept)
        BY <2>3
      <3> HIDE DEF k
      <3>3. k \in kept /\ \A i \in kept : i =< k
        BY <3>1, <3>2
      <3>4. k \in 1..Len(t)
        BY <2>1, <3>3
      <3>5. \A i \in 1..Len(t) : t[i] # Break => i =< k
        BY <2>1, <3>3
      <3>6. k \in 0..Len(t)
        BY <1>1, <3>4
      <3> QED
        BY <3>5, <3>6
    <2> QED
      BY <2>2, <2>3
  <1> HIDE DEF k
  <1>4. /\ head \in Text /\ tail \in Text /\ Len(head) = k /\ DOMAIN tail = 1..Len(t) - k
        /\ \A i \in 1..Len(t) - k : tail[i] = t[k + i]
    BY <1>1, <1>3 DEF Text
  <1>5. head \o tail = t
    <2>1. /\ 1 \in 1..Len(t) + 1 /\ k \in (1 - 1)..Len(t) /\ Len(t) \in k..Len(t)
          /\ SubSeq(t, 1, Len(t)) = t
      BY <1>1, <1>3
    <2> QED
      BY <1>1, <2>1, ConcatAdjacentSubSeq
  <1> HIDE DEF head, tail
  <1>6. LettersIn(tail) = <<>>
    <2>1. \A i \in 1..Len(t) - k : k + i \in 1..Len(t) /\ ~ k + i =< k
      BY <1>1, <1>3
    <2>2. \A i \in DOMAIN tail : tail[i] = Break
      BY <1>3, <1>4, <2>1
    <2> QED
      BY <1>4, <2>2, NoLetters, LogAssumption
  <1>7. LettersIn(t) = LettersIn(head) \o <<>>
    BY <1>4, <1>5, <1>6, LettersJoin
  <1>8. LettersIn(head) \o <<>> = LettersIn(head)
    BY <1>4, LettersAreText, ConcatEmptySeq DEF Text
  <1> QED
    BY <1>1, <1>2, <1>3, <1>4, <1>7, <1>8

\* Texts that fit into a chunk.
Fitting(texts) == texts \in Seq(Text) /\ \A i \in DOMAIN texts : Len(texts[i]) =< ChunkSize

\* Texts that fit, joined with others that fit, fit.
LEMMA FittingJoined ==
    ASSUME NEW a, NEW b, Fitting(a), Fitting(b)
    PROVE  Fitting(a \o b)
  <1> DEFINE both == a \o b
  <1>1. a \in Seq(Text) /\ b \in Seq(Text)
    BY DEF Fitting
  <1>2. /\ both \in Seq(Text) /\ Len(a) \in Nat /\ Len(b) \in Nat
        /\ DOMAIN both = 1..Len(a) + Len(b) /\ DOMAIN a = 1..Len(a) /\ DOMAIN b = 1..Len(b)
        /\ \A i \in 1..Len(a) + Len(b) : both[i] = IF i =< Len(a) THEN a[i] ELSE b[i - Len(a)]
    BY <1>1
  <1> HIDE DEF both
  <1>3. ASSUME NEW i \in DOMAIN both
        PROVE  Len(both[i]) =< ChunkSize
    <2>1. CASE i =< Len(a)
      <3>1. i \in DOMAIN a /\ both[i] = a[i]
        BY <1>2, <2>1
      <3> QED
        BY <3>1 DEF Fitting
    <2>2. CASE ~ i =< Len(a)
      <3>1. i - Len(a) \in DOMAIN b /\ both[i] = b[i - Len(a)]
        BY <1>2, <2>2
      <3> QED
        BY <3>1 DEF Fitting
    <2> QED
      BY <2>1, <2>2
  <1>4. Fitting(both)
    BY <1>2, <1>3 DEF Fitting
  <1> QED
    BY <1>4 DEF both

\* The trimmed pieces of a row have its letters.
LEMMA TrimmedKeep ==
    ASSUME NEW row \in Text
    PROVE  Fitting(Log!TrimmedPieces(row)) /\ AllLetters(Log!TrimmedPieces(row)) = LettersIn(row)
  <1> DEFINE line == Append(row, Break)
             pieces == Log!splitStringValue(line)
             trimmed == [j \in DOMAIN pieces |-> Log!TrimEnd(pieces[j])]
  <1>1. line \in Text /\ LettersIn(line) = LettersIn(row)
    <2>1. Break \in STRING /\ Break \notin Letters
      BY LogAssumption
    <2>2. Append(row, Break) \in Text
      BY <2>1, AppendProperties DEF Text
    <2>3. LettersIn(Append(row, Break)) = LettersIn(row)
      BY <2>1, LettersAppend
    <2> QED
      BY <2>2, <2>3
  <1> HIDE DEF line
  <1>2. Log!TrimmedPieces(row) = trimmed
    BY DEF Log!TrimmedPieces, line
  <1>3. /\ pieces \in Seq(Text) /\ AllLetters(pieces) = LettersIn(line)
        /\ \A i \in DOMAIN pieces : Len(pieces[i]) =< ChunkSize
    BY <1>1, SplitKeeps
  <1> HIDE DEF pieces
  <1>4. /\ Len(pieces) \in Nat /\ DOMAIN pieces = 1..Len(pieces)
        /\ \A j \in DOMAIN pieces : /\ trimmed[j] \in Text /\ Len(trimmed[j]) =< Len(pieces[j])
                                    /\ LettersIn(trimmed[j]) = LettersIn(pieces[j])
                                    /\ Len(trimmed[j]) \in Nat /\ Len(pieces[j]) \in Nat
    <2>1. \A j \in DOMAIN pieces : pieces[j] \in Text
      BY <1>3
    <2>2. ASSUME NEW j \in DOMAIN pieces
          PROVE  /\ trimmed[j] \in Text /\ Len(trimmed[j]) =< Len(pieces[j])
                 /\ LettersIn(trimmed[j]) = LettersIn(pieces[j])
      BY <2>1, TrimKeeps
    <2>3. \A t \in Text : Len(t) \in Nat
      BY DEF Text
    <2> HIDE DEF trimmed
    <2> QED
      BY <1>3, <2>1, <2>2, <2>3
  <1>5. trimmed \in [1..Len(pieces) -> Text]
    <2>1. \A j \in DOMAIN pieces : Log!TrimEnd(pieces[j]) \in Text
      BY <1>4
    <2> QED
      BY <1>4, <2>1
  <1> HIDE DEF trimmed
  <1>6. trimmed \in Seq(Text) /\ Len(trimmed) = Len(pieces) /\ DOMAIN trimmed = DOMAIN pieces
    BY <1>4, <1>5, SequenceOfLength
  <1>7. Fitting(trimmed)
    <2>1. \A j \in DOMAIN trimmed : Len(trimmed[j]) =< ChunkSize
      BY <1>3, <1>4, <1>6, LogAssumption
    <2> QED
      BY <1>6, <2>1 DEF Fitting
  <1>8. AllLetters(trimmed) = AllLetters(pieces)
    BY <1>3, <1>4, <1>6, AllLettersSame
  <1> QED
    BY <1>1, <1>2, <1>3, <1>7, <1>8

\* Rows that are split fit, with their letters.
LEMMA SplitRowsKeep ==
    ASSUME NEW rows \in Seq(Text)
    PROVE  Fitting(Log!splitStringArray(rows)) /\ AllLetters(Log!splitStringArray(rows)) = AllLetters(rows)
  <1> DEFINE Pieces(r) == [i \in DOMAIN r |-> Log!TrimmedPieces(r[i])]
             I == {r \in Seq(Text) : /\ Pieces(r) \in Seq(Seq(Text))
                                     /\ Fitting(FlattenSeq(Pieces(r)))
                                     /\ AllLetters(FlattenSeq(Pieces(r))) = AllLetters(r)}
  <1>1. \A r : Log!splitStringArray(r) = FlattenSeq(Pieces(r))
    BY SameLogOperators DEF Log!splitStringArray, Log!Each
  <1>2. <<>> \in I
    <2>1. DOMAIN <<>> = {} /\ <<>> = [i \in {} |-> Log!TrimmedPieces(<<>>[i])]
      OBVIOUS
    <2>2. Pieces(<<>>) = <<>>
      BY <2>1
    <2>3. FlattenSeq(<<>>) = <<>>
      BY DEF FlattenSeq
    <2>4. <<>> \in Seq(Seq(Text)) /\ <<>> \in Seq(Text) /\ \A i : i \notin DOMAIN <<>>
      OBVIOUS
    <2>5. Fitting(<<>>)
      BY <2>4 DEF Fitting
    <2> HIDE DEF Pieces
    <2> QED
      BY <2>2, <2>3, <2>4, <2>5
  <1>3. ASSUME NEW r \in Seq(Text), NEW row \in Text, r \in I
        PROVE  Append(r, row) \in I
    <2> DEFINE added == Append(r, row)
               own == Log!TrimmedPieces(row)
    <2>1. /\ added \in Seq(Text) /\ Len(r) \in Nat /\ DOMAIN added = 1..Len(r) + 1 /\ DOMAIN r = 1..Len(r)
          /\ \A i \in 1..Len(r) : added[i] = r[i]
          /\ added[Len(r) + 1] = row
      OBVIOUS
    <2> HIDE DEF added
    <2>2. Fitting(own) /\ AllLetters(own) = LettersIn(row) /\ own \in Seq(Text)
      BY TrimmedKeep DEF Fitting
    <2>3. /\ Pieces(r) \in Seq(Seq(Text)) /\ Fitting(FlattenSeq(Pieces(r)))
          /\ AllLetters(FlattenSeq(Pieces(r))) = AllLetters(r)
      BY <1>3
    <2>4. /\ Len(Pieces(r)) = Len(r) /\ DOMAIN Pieces(added) = 1..Len(r) + 1
          /\ \A i \in 1..Len(r) : Pieces(added)[i] = Pieces(r)[i]
          /\ Pieces(added)[Len(r) + 1] = own
      <3>1. DOMAIN Pieces(r) = 1..Len(r)
        BY <2>1
      <3>2. Len(Pieces(r)) = Len(r)
        BY <2>1, <2>3, <3>1
      <3> QED
        BY <2>1, <3>2
    <2>5. Pieces(added) = [i \in 1..Len(r) + 1 |-> Pieces(added)[i]]
      BY <2>1
    <2> HIDE DEF Pieces, own
    <2>6. Pieces(added) = Append(Pieces(r), own)
      <3> DEFINE longer == Append(Pieces(r), own)
      <3>1. /\ longer \in Seq(Seq(Text)) /\ DOMAIN longer = 1..Len(r) + 1
            /\ \A i \in 1..Len(r) : longer[i] = Pieces(r)[i]
            /\ longer[Len(r) + 1] = own
        BY <2>1, <2>2, <2>3, <2>4
      <3> HIDE DEF longer
      <3>2. longer = [i \in 1..Len(r) + 1 |-> longer[i]]
        <4>1. longer \in [1..Len(longer) -> Seq(Text)]
          BY <3>1, LenProperties
        <4> QED
          BY <3>1, <4>1
      <3>3. \A i \in 1..Len(r) + 1 : i \in 1..Len(r) \/ i = Len(r) + 1
        BY <2>1
      <3>4. \A i \in 1..Len(r) + 1 : longer[i] = Pieces(added)[i]
        BY <2>4, <3>1, <3>3
      <3>5. longer = Pieces(added)
        BY <2>5, <3>2, <3>4
      <3> QED
        BY <3>5 DEF longer
    <2> DEFINE flat == FlattenSeq(Pieces(r))
    <2>7. Pieces(added) \in Seq(Seq(Text)) /\ FlattenSeq(Pieces(added)) = flat \o own
      BY <2>2, <2>3, <2>6, FlattenAppend
    <2> HIDE DEF flat
    <2>8. Fitting(flat) /\ AllLetters(flat) = AllLetters(r) /\ flat \in Seq(Text)
      BY <2>3 DEF flat, Fitting
    <2>9. Fitting(flat \o own)
      BY <2>2, <2>8, FittingJoined
    <2>10. AllLetters(flat \o own) = AllLetters(added)
      <3>1. AllLetters(flat \o own) = AllLetters(flat) \o AllLetters(own)
        BY <2>2, <2>8, AllLettersJoin
      <3>2. AllLetters(added) = AllLetters(r) \o LettersIn(row)
        BY AllLettersAppend DEF added
      <3> QED
        BY <2>2, <2>8, <3>1, <3>2
    <2> QED
      BY <2>1, <2>7, <2>9, <2>10 DEF added
  <1>4. rows \in I
    <2> HIDE DEF I
    <2> QED
      BY <1>2, <1>3, OneByOne
  <1> QED
    BY <1>1, <1>4

\* What is gathered, and what is done before it.
Gathering == [done : Seq(Text), next : Text]

Gathered(m) == AllLetters(m.done) \o LettersIn(m.next)

\* Letters that come to what is gathered, when that is done or goes on.
LEMMA GatheredGrows ==
    ASSUME NEW m \in Gathering, NEW t \in Text
    PROVE  /\ Gathered(m) \in Text
           /\ AllLetters(Append(m.done, m.next)) \o LettersIn(t) = Gathered(m) \o LettersIn(t)
           /\ AllLetters(m.done) \o LettersIn(m.next \o t) = Gathered(m) \o LettersIn(t)
           /\ AllLetters(Append(m.done, m.next)) = Gathered(m)
           /\ m.next = <<>> => Gathered(m) = AllLetters(m.done)
  <1> DEFINE ended == m.done
             next == m.next
             before == AllLetters(ended)
             now == LettersIn(next)
             new == LettersIn(t)
  <1>1. ended \in Seq(Text) /\ next \in Text
    BY DEF Gathering
  <1> HIDE DEF ended, next
  <1>2. before \in Seq(STRING) /\ now \in Seq(STRING) /\ new \in Seq(STRING)
    BY <1>1, LettersAreText DEF Text
  <1>3. AllLetters(Append(ended, next)) = before \o now
    BY <1>1, AllLettersAppend
  <1>4. LettersIn(next \o t) = now \o new
    BY <1>1, LettersJoin
  <1>5. next = <<>> => now = <<>>
    BY NothingToTell
  <1> HIDE DEF before, now, new
  <1>6. before \o now \in Seq(STRING) /\ before \o <<>> = before
    BY <1>2, ConcatEmptySeq, ConcatProperties
  <1>7. before \o (now \o new) = (before \o now) \o new
    BY <1>2, ConcatAssociative
  <1> QED
    BY <1>3, <1>4, <1>5, <1>6, <1>7 DEF Gathered, Text, ended, next, before, now, new

MergedUpTo(rows, n, m) ==
    /\ m \in Gathering
    /\ Gathered(m) = AllLetters(SubSeq(rows, 1, n))
    /\ Fitting(m.done) /\ Len(m.next) =< ChunkSize

\* Nothing gathered has no letters.
LEMMA NothingGathered ==
    /\ Log!Nothing \in Gathering /\ Log!Nothing.done = <<>> /\ Log!Nothing.next = <<>>
    /\ Gathered(Log!Nothing) = <<>>
  <1>1. Log!Nothing \in Gathering /\ Log!Nothing.done = <<>> /\ Log!Nothing.next = <<>>
    <2>1. <<>> \in Text /\ <<>> \in Seq(Text)
      BY DEF Text
    <2> QED
      BY <2>1 DEF Log!Nothing, Gathering
  <1>2. <<>> \in Text
    BY DEF Text
  <1>3. Gathered(Log!Nothing) = AllLetters(Log!Nothing.done)
    BY <1>1, <1>2, GatheredGrows
  <1> QED
    BY <1>1, <1>3, NothingToTell

\* A row comes to what is gathered, or is what is gathered next.
LEMMA MergeKeeps ==
    ASSUME NEW rows, Fitting(rows), NEW n \in 1..Len(rows), NEW m, MergedUpTo(rows, n - 1, m)
    PROVE  MergedUpTo(rows, n, Log!MergeOne(m, rows[n]))
  <1> DEFINE row == rows[n]
             new == Log!MergeOne(m, row)
             before == SubSeq(rows, 1, n - 1)
  <1>1. /\ row \in Text /\ Len(row) =< ChunkSize /\ Len(row) \in Nat /\ ChunkSize \in Nat
        /\ before \in Seq(Text) /\ SubSeq(rows, 1, n) = Append(before, row)
    <2>1. rows \in Seq(Text) /\ n \in DOMAIN rows
      BY DEF Fitting
    <2>2. row \in Text /\ before \in Seq(Text) /\ SubSeq(rows, 1, n) = Append(before, row)
      BY <2>1
    <2>3. Len(row) =< ChunkSize
      BY <2>1 DEF Fitting
    <2> HIDE DEF row
    <2> QED
      BY <2>2, <2>3, LogAssumption DEF Text
  <1>2. /\ m \in Gathering /\ Gathered(m) = AllLetters(before) /\ Fitting(m.done) /\ Len(m.next) =< ChunkSize
        /\ m.done \in Seq(Text) /\ m.next \in Text /\ Len(m.next) \in Nat
        /\ m = [done |-> m.done, next |-> m.next]
    BY DEF MergedUpTo, Gathering, Text
  <1> HIDE DEF row, before
  <1>3. AllLetters(SubSeq(rows, 1, n)) = Gathered(m) \o LettersIn(row)
    BY <1>1, <1>2, AllLettersAppend
  <1>4. SUFFICES MergedUpTo(rows, n, new)
    BY DEF row
  <1>5. CASE m.next = <<>>
    <2>1. new = [m EXCEPT !.next = row]
      BY <1>5 DEF Log!MergeOne
    <2> HIDE DEF new
    <2>2. new \in Gathering /\ new.done = m.done /\ new.next = row
      BY <1>1, <1>2, <2>1 DEF Gathering
    <2>3. Gathered(new) = Gathered(m) \o LettersIn(row)
      BY <1>1, <1>2, <1>5, <2>2, GatheredGrows DEF Gathered
    <2> QED
      BY <1>1, <1>2, <1>3, <2>2, <2>3 DEF MergedUpTo
  <1>6. CASE m.next # <<>> /\ Len(m.next) + 1 + Len(row) > ChunkSize
    <2>1. new = [done |-> Append(m.done, m.next), next |-> row]
      BY <1>6 DEF Log!MergeOne
    <2> HIDE DEF new
    <2>2. Fitting(Append(m.done, m.next))
      BY <1>2, FitsAppended DEF Fitting
    <2>3. new \in Gathering /\ new.done = Append(m.done, m.next) /\ new.next = row
      BY <1>1, <2>1, <2>2 DEF Gathering, Fitting
    <2>4. Gathered(new) = Gathered(m) \o LettersIn(row)
      BY <1>1, <1>2, <2>3, GatheredGrows DEF Gathered
    <2> QED
      BY <1>1, <1>3, <2>2, <2>3, <2>4 DEF MergedUpTo
  <1>7. CASE m.next # <<>> /\ ~ Len(m.next) + 1 + Len(row) > ChunkSize
    <2> DEFINE line == m.next \o <<Break>>
               joined == line \o row
    <2>1. new = [m EXCEPT !.next = joined]
      BY <1>7 DEF Log!MergeOne
    <2>2. line \in Text /\ Len(line) = Len(m.next) + 1 /\ LettersIn(line) = LettersIn(m.next)
      <3> DEFINE next == m.next
      <3>1. next \in Seq(STRING) /\ Break \in STRING /\ Break \notin Letters
        BY <1>2, LogAssumption DEF Text
      <3> HIDE DEF next
      <3>2. next \o <<Break>> = Append(next, Break)
        BY <3>1, AppendIsConcat
      <3>3. Append(next, Break) \in Seq(STRING) /\ Len(Append(next, Break)) = Len(next) + 1
        BY <3>1, AppendProperties
      <3>4. LettersIn(Append(next, Break)) = LettersIn(next)
        BY <3>1, LettersAppend DEF Text
      <3> QED
        BY <3>2, <3>3, <3>4 DEF Text, next
    <2> HIDE DEF line
    <2>3. joined \in Text /\ Len(joined) = Len(line) + Len(row)
      BY <1>1, <2>2, ConcatProperties DEF Text
    <2>4. Len(joined) =< ChunkSize
      BY <1>1, <1>2, <1>7, <2>2, <2>3
    <2>5. LettersIn(joined) = LettersIn(line) \o LettersIn(row) /\ LettersIn(m.next \o row) = LettersIn(m.next) \o LettersIn(row)
      BY <1>1, <1>2, <2>2, LettersJoin
    <2> HIDE DEF new, joined
    <2>6. new \in Gathering /\ new.done = m.done /\ new.next = joined
      BY <1>2, <2>1, <2>3 DEF Gathering
    <2>7. AllLetters(m.done) \o LettersIn(m.next \o row) = Gathered(m) \o LettersIn(row)
      BY <1>1, <1>2, GatheredGrows
    <2>8. Gathered(new) = Gathered(m) \o LettersIn(row)
      BY <2>2, <2>5, <2>6, <2>7 DEF Gathered
    <2> QED
      BY <1>2, <1>3, <2>4, <2>6, <2>8 DEF MergedUpTo
  <1> QED
    BY <1>5, <1>6, <1>7

\* Merged rows fit and have the letters of the rows.
LEMMA MergeRowsKeep ==
    ASSUME NEW rows, Fitting(rows)
    PROVE  Fitting(Log!mergeStringArray(rows)) /\ AllLetters(Log!mergeStringArray(rows)) = AllLetters(rows)
  <1> DEFINE base == Log!Nothing
             Rounds(f) == f = [n \in 0..Len(rows) |-> IF n = 0 THEN base ELSE Log!MergeOne(f[n - 1], rows[n])]
             merged == CHOOSE f : Rounds(f)
             m == merged[Len(rows)]
  <1>1. /\ rows \in Seq(Text) /\ Len(rows) \in Nat /\ SubSeq(rows, 1, 0) = <<>> /\ SubSeq(rows, 1, Len(rows)) = rows
        /\ \A n \in 1..Len(rows) : rows[n] \in Text
    <2>1. rows \in Seq(Text)
      BY DEF Fitting
    <2> QED
      BY <2>1
  <1>2. Log!mergeStringArray(rows) = IF m.next = <<>> THEN m.done ELSE Append(m.done, m.next)
    BY DEF Log!mergeStringArray
  <1>3. MergedUpTo(rows, 0, base)
    <2>1. Fitting(<<>>) /\ Len(<<>>) =< ChunkSize
      BY LogAssumption DEF Fitting
    <2> QED
      BY <1>1, <2>1, NothingGathered, NothingToTell DEF MergedUpTo
  <1> HIDE DEF base
  <1>4. \E f : Rounds(f)
    <2> DEFINE step == [q \in Gathering \X Text |-> Log!MergeOne(q[1], q[2])]
    <2>1. ASSUME NEW g \in Gathering, NEW row \in Text
          PROVE  Log!MergeOne(g, row) \in Gathering
      <3>1. g.done \in Seq(Text) /\ g.next \in Text
        BY DEF Gathering
      <3>2. Append(g.done, g.next) \in Seq(Text)
        BY <3>1, AppendProperties
      <3>3. g.next \o <<Break>> \o row \in Text
        <4>1. <<Break>> \in Seq(STRING)
          <5>1. Break \in STRING
            BY LogAssumption
          <5>2. Append(<<>>, Break) \in Seq(STRING) /\ Append(<<>>, Break) = <<Break>>
            BY <5>1, AppendProperties, EmptySeq, SingletonByIndex
          <5> QED
            BY <5>2
        <4>2. g.next \o <<Break>> \in Seq(STRING)
          BY <3>1, <4>1, ConcatProperties DEF Text
        <4> QED
          BY <4>2, ConcatProperties DEF Text
      <3> DEFINE joined == g.next \o <<Break>> \o row
      <3>4. Log!MergeOne(g, row) \in {[g EXCEPT !.next = row], [done |-> Append(g.done, g.next), next |-> row],
                                     [g EXCEPT !.next = joined]}
        BY DEF Log!MergeOne
      <3> HIDE DEF joined
      <3>5. /\ [g EXCEPT !.next = row] \in Gathering /\ [done |-> Append(g.done, g.next), next |-> row] \in Gathering
            /\ [g EXCEPT !.next = joined] \in Gathering
        BY <3>2, <3>3 DEF Gathering, joined
      <3> QED
        BY <3>4, <3>5
    <2>2. /\ step \in [Gathering \X Text -> Gathering]
          /\ \A g \in Gathering, row \in Text : step[<<g, row>>] = Log!MergeOne(g, row)
      BY <2>1
    <2> HIDE DEF step
    <2>3. base \in Gathering
      BY <1>3 DEF MergedUpTo
    <2>4. PICK f \in [0..Len(rows) -> Gathering] :
            \A n \in 0..Len(rows) : f[n] = IF n = 0 THEN base ELSE step[<<f[n - 1], rows[n]>>]
      <3>1. \E f : IsLoop(f, Gathering, step, base, rows)
        BY <1>1, <2>2, <2>3, LoopRuns
      <3> QED
        BY <3>1 DEF IsLoop
    <2>5. ASSUME NEW n \in 0..Len(rows), n # 0
          PROVE  step[<<f[n - 1], rows[n]>>] = Log!MergeOne(f[n - 1], rows[n])
      <3>1. n - 1 \in 0..Len(rows) /\ n \in 1..Len(rows)
        BY <1>1, <2>5
      <3>2. f[n - 1] \in Gathering /\ rows[n] \in Text
        BY <1>1, <2>4, <3>1
      <3> QED
        BY <2>2, <3>2
    <2>6. \A n \in 0..Len(rows) : f[n] = IF n = 0 THEN base ELSE Log!MergeOne(f[n - 1], rows[n])
      BY <2>4, <2>5
    <2>7. Rounds(f)
      BY <2>4, <2>6
    <2> HIDE DEF Rounds
    <2> QED
      BY <2>7
  <1>5. Rounds(merged)
    BY <1>4
  <1> HIDE DEF merged
  <1>6. \A n \in 0..Len(rows) : merged[n] = IF n = 0 THEN base ELSE Log!MergeOne(merged[n - 1], rows[n])
    BY <1>5
  <1> DEFINE I == {n \in 0..Len(rows) : MergedUpTo(rows, n, merged[n])}
  <1>7. 0 \in I
    <2>1. 0 \in 0..Len(rows) /\ merged[0] = base
      BY <1>1, <1>6
    <2> QED
      BY <1>3, <2>1
  <1>8. ASSUME NEW n \in 1..Len(rows), n - 1 \in I
        PROVE  n \in I
    <2>1. n \in 0..Len(rows) /\ n # 0
      BY <1>1
    <2>2. MergedUpTo(rows, n - 1, merged[n - 1]) /\ merged[n] = Log!MergeOne(merged[n - 1], rows[n])
      BY <1>6, <1>8, <2>1
    <2>3. MergedUpTo(rows, n, merged[n])
      BY <2>2, MergeKeeps
    <2> QED
      BY <2>1, <2>3
  <1>9. Len(rows) \in I
    <2> HIDE DEF I
    <2>1. 0..Len(rows) \subseteq I
      BY <1>1, <1>7, <1>8, CountingUp
    <2> QED
      BY <1>1, <2>1
  <1>10. MergedUpTo(rows, Len(rows), m)
    BY <1>9
  <1> HIDE DEF m
  <1>11. /\ m \in Gathering /\ Gathered(m) = AllLetters(rows) /\ Fitting(m.done) /\ Len(m.next) =< ChunkSize
         /\ m.next \in Text /\ m.done \in Seq(Text)
    BY <1>1, <1>10 DEF MergedUpTo, Gathering
  <1>12. Fitting(Append(m.done, m.next))
    BY <1>11, FitsAppended DEF Fitting
  <1>13. AllLetters(Append(m.done, m.next)) = Gathered(m) /\ (m.next = <<>> => Gathered(m) = AllLetters(m.done))
    BY <1>11, GatheredGrows
  <1> QED
    BY <1>2, <1>11, <1>12, <1>13

\* The rows of a text have its letters.
LEMMA RowsKeep ==
    ASSUME NEW text \in Text
    PROVE  Log!RowsOf(text) \in Seq(Text) /\ AllLetters(Log!RowsOf(text)) = LettersIn(text)
  <1> DEFINE base == Log!Nothing
             Rounds(f) == f = [n \in 0..Len(text) |-> IF n = 0 THEN base ELSE Log!SplitOne(f[n - 1], text[n])]
             rows == CHOOSE f : Rounds(f)
             r == rows[Len(text)]
  <1>1. /\ text \in Seq(STRING) /\ Len(text) \in Nat /\ SubSeq(text, 1, 0) = <<>> /\ SubSeq(text, 1, Len(text)) = text
        /\ \A n \in 1..Len(text) : text[n] \in STRING
    BY DEF Text
  <1>2. Log!RowsOf(text) = Append(r.done, r.next)
    BY DEF Log!RowsOf
  <1>3. base \in Gathering /\ Gathered(base) = LettersIn(<<>>)
    BY NothingGathered, NothingToTell
  <1> HIDE DEF base
  <1>4. ASSUME NEW g \in Gathering, NEW c \in STRING
        PROVE  /\ Log!SplitOne(g, c) \in Gathering
               /\ Gathered(Log!SplitOne(g, c)) = IF c \in Letters THEN Append(Gathered(g), c) ELSE Gathered(g)
    <2> DEFINE ended == g.done
               next == g.next
               longer == Append(next, c)
    <2>1. ended \in Seq(Text) /\ next \in Text /\ g = [done |-> ended, next |-> next]
      BY DEF Gathering
    <2>2. CASE c = Break
      <3> DEFINE new == [done |-> Append(ended, next), next |-> <<>>]
      <3>1. Log!SplitOne(g, c) = new
        BY <2>2 DEF Log!SplitOne
      <3>2. Append(ended, next) \in Seq(Text) /\ <<>> \in Text
        BY <2>1, AppendProperties DEF Text
      <3>3. new \in Gathering /\ new.done = Append(ended, next) /\ new.next = <<>>
        BY <3>2 DEF Gathering
      <3>4. AllLetters(Append(ended, next)) = Gathered(g)
        BY <3>2, GatheredGrows
      <3> HIDE DEF new
      <3>5. Gathered(new) = AllLetters(Append(ended, next))
        BY <3>2, <3>3, GatheredGrows
      <3>6. c \notin Letters
        BY <2>2, LogAssumption
      <3> QED
        BY <3>1, <3>3, <3>4, <3>5, <3>6
    <2>3. CASE c # Break
      <3> DEFINE new == [g EXCEPT !.next = longer]
      <3>1. Log!SplitOne(g, c) = new
        BY <2>3 DEF Log!SplitOne
      <3>2. longer \in Text
        BY <2>1, AppendProperties DEF Text
      <3>3. LettersIn(longer) = IF c \in Letters THEN Append(LettersIn(next), c) ELSE LettersIn(next)
        BY <2>1, LettersAppend
      <3> HIDE DEF longer
      <3>4. new \in Gathering /\ new.done = ended /\ new.next = longer
        BY <2>1, <3>2 DEF Gathering
      <3> HIDE DEF new
      <3>5. Gathered(g) = AllLetters(ended) \o LettersIn(next) /\ Gathered(new) = AllLetters(ended) \o LettersIn(longer)
        BY <3>4 DEF Gathered
      <3> DEFINE before == AllLetters(ended)
                 now == LettersIn(next)
      <3>6. before \in Seq(STRING) /\ now \in Seq(STRING)
        BY <2>1, LettersAreText DEF Text
      <3> HIDE DEF before, now
      <3>7. before \o Append(now, c) = Append(before \o now, c)
        <4>1. before \o now \in Seq(STRING) /\ <<c>> \in Seq(STRING)
          <5>1. Append(<<>>, c) \in Seq(STRING) /\ Append(<<>>, c) = <<c>>
            BY AppendProperties, EmptySeq, SingletonByIndex
          <5> QED
            BY <3>6, <5>1, ConcatProperties
        <4>2. Append(before \o now, c) = (before \o now) \o <<c>> /\ Append(now, c) = now \o <<c>>
          BY <3>6, <4>1, AppendIsConcat
        <4> QED
          BY <3>6, <4>1, <4>2, ConcatAssociative
      <3> QED
        BY <3>1, <3>3, <3>4, <3>5, <3>7 DEF before, now
    <2> QED
      BY <2>2, <2>3
  <1>5. \E f : Rounds(f)
    <2> DEFINE step == [q \in Gathering \X STRING |-> Log!SplitOne(q[1], q[2])]
    <2>1. /\ step \in [Gathering \X STRING -> Gathering]
          /\ \A g \in Gathering, c \in STRING : step[<<g, c>>] = Log!SplitOne(g, c)
      BY <1>4
    <2> HIDE DEF step
    <2>2. PICK f \in [0..Len(text) -> Gathering] :
            \A n \in 0..Len(text) : f[n] = IF n = 0 THEN base ELSE step[<<f[n - 1], text[n]>>]
      <3>1. \E f : IsLoop(f, Gathering, step, base, text)
        BY <1>1, <1>3, <2>1, LoopRuns
      <3> QED
        BY <3>1 DEF IsLoop
    <2>3. ASSUME NEW n \in 0..Len(text), n # 0
          PROVE  step[<<f[n - 1], text[n]>>] = Log!SplitOne(f[n - 1], text[n])
      <3>1. n - 1 \in 0..Len(text) /\ n \in 1..Len(text)
        BY <1>1, <2>3
      <3>2. f[n - 1] \in Gathering /\ text[n] \in STRING
        BY <1>1, <2>2, <3>1
      <3> QED
        BY <2>1, <3>2
    <2>4. \A n \in 0..Len(text) : f[n] = IF n = 0 THEN base ELSE Log!SplitOne(f[n - 1], text[n])
      BY <2>2, <2>3
    <2>5. Rounds(f)
      BY <2>2, <2>4
    <2> HIDE DEF Rounds
    <2> QED
      BY <2>5
  <1>6. Rounds(rows)
    BY <1>5
  <1> HIDE DEF rows
  <1>7. \A n \in 0..Len(text) : rows[n] = IF n = 0 THEN base ELSE Log!SplitOne(rows[n - 1], text[n])
    BY <1>6
  <1> DEFINE I == {n \in 0..Len(text) : rows[n] \in Gathering /\ Gathered(rows[n]) = LettersIn(SubSeq(text, 1, n))}
  <1>8. 0 \in I
    <2>1. 0 \in 0..Len(text) /\ rows[0] = base
      BY <1>1, <1>7
    <2> QED
      BY <1>1, <1>3, <2>1
  <1>9. ASSUME NEW n \in 1..Len(text), n - 1 \in I
        PROVE  n \in I
    <2> DEFINE before == SubSeq(text, 1, n - 1)
    <2>1. /\ n \in 0..Len(text) /\ n # 0 /\ text[n] \in STRING
          /\ before \in Seq(STRING) /\ SubSeq(text, 1, n) = Append(before, text[n])
      BY <1>1
    <2>2. rows[n - 1] \in Gathering /\ Gathered(rows[n - 1]) = LettersIn(before) /\ rows[n] = Log!SplitOne(rows[n - 1], text[n])
      BY <1>7, <1>9, <2>1
    <2> HIDE DEF before
    <2>3. LettersIn(Append(before, text[n])) =
            IF text[n] \in Letters THEN Append(LettersIn(before), text[n]) ELSE LettersIn(before)
      BY <2>1, LettersAppend DEF Text
    <2>4. rows[n] \in Gathering /\ Gathered(rows[n]) = LettersIn(SubSeq(text, 1, n))
      BY <1>4, <2>1, <2>2, <2>3
    <2> QED
      BY <2>1, <2>4
  <1>10. Len(text) \in I
    <2> HIDE DEF I
    <2>1. 0..Len(text) \subseteq I
      BY <1>1, <1>8, <1>9, CountingUp
    <2> QED
      BY <1>1, <2>1
  <1>11. r \in Gathering /\ Gathered(r) = LettersIn(text)
    BY <1>1, <1>10
  <1> HIDE DEF r
  <1>12. AllLetters(Append(r.done, r.next)) = Gathered(r) /\ Append(r.done, r.next) \in Seq(Text)
    <2>1. <<>> \in Text
      BY DEF Text
    <2>2. r.done \in Seq(Text) /\ r.next \in Text
      BY <1>11 DEF Gathering
    <2> QED
      BY <1>11, <2>1, <2>2, GatheredGrows, AppendProperties
  <1> QED
    BY <1>2, <1>11, <1>12

\* Chunks on their way to the writer fit, but for a line break.
Sending(texts) == texts \in Seq(Text) /\ \A i \in DOMAIN texts : Len(texts[i]) =< ChunkSize + 1

\* Line breaks that are added to chunks are no letters, and one longer is all they get.
LEMMA WithBreaksKeep ==
    ASSUME NEW texts, Fitting(texts)
    PROVE  Sending(Log!WithBreaks(texts)) /\ AllLetters(Log!WithBreaks(texts)) = AllLetters(texts)
  <1> DEFINE sent == Log!WithBreaks(texts)
             Line(i) == IF i = Len(texts) THEN texts[i] ELSE Append(texts[i], Break)
  <1>1. /\ texts \in Seq(Text) /\ Len(texts) \in Nat /\ DOMAIN texts = 1..Len(texts)
    <2>1. texts \in Seq(Text)
      BY DEF Fitting
    <2> QED
      BY <2>1
  <1>2. sent = [i \in DOMAIN texts |-> Line(i)]
    BY DEF Log!WithBreaks
  <1>3. ASSUME NEW i \in DOMAIN texts
        PROVE  Line(i) \in Text /\ Len(Line(i)) =< ChunkSize + 1 /\ LettersIn(Line(i)) = LettersIn(texts[i])
    <2> DEFINE t == texts[i]
    <2>1. t \in Text /\ Len(t) =< ChunkSize /\ Len(t) \in Nat /\ ChunkSize \in Nat
      <3>1. t \in Text
        BY <1>1
      <3> HIDE DEF t
      <3>2. Len(t) \in Nat
        BY <3>1 DEF Text
      <3> QED
        BY <3>1, <3>2, LogAssumption DEF Fitting, t
    <2> HIDE DEF t
    <2>2. Break \in STRING /\ Break \notin Letters
      BY LogAssumption
    <2>3. Append(t, Break) \in Text /\ Len(Append(t, Break)) = Len(t) + 1
      BY <2>1, <2>2, AppendProperties DEF Text
    <2>4. LettersIn(Append(t, Break)) = LettersIn(t)
      BY <2>1, <2>2, LettersAppend
    <2>5. CASE i = Len(texts)
      BY <2>1, <2>5 DEF t
    <2>6. CASE i # Len(texts)
      BY <2>1, <2>3, <2>4, <2>6 DEF t
    <2> QED
      BY <2>5, <2>6
  <1> HIDE DEF sent, Line
  <1>4. sent \in [1..Len(texts) -> Text] /\ \A i \in DOMAIN texts : sent[i] = Line(i)
    BY <1>1, <1>2, <1>3
  <1>5. sent \in Seq(Text) /\ Len(sent) = Len(texts) /\ DOMAIN sent = DOMAIN texts
    BY <1>1, <1>4, SequenceOfLength
  <1>6. Sending(sent)
    BY <1>3, <1>4, <1>5 DEF Sending
  <1>7. AllLetters(sent) = AllLetters(texts)
    BY <1>1, <1>3, <1>4, <1>5, AllLettersSame
  <1> QED
    BY <1>6, <1>7 DEF sent

\* What is written goes on or is kept, with its letters, and is no longer than it may be.
LogInv ==
    /\ data \in Text /\ Sending(chunks) /\ input \in Text
    /\ AllLetters(chunks) \o LettersIn(data) = LettersIn(input)
    /\ Len(data) < ChunkSize

\* What a drain hands on of a text, and what it keeps.
HandedOn(text, force) ==
    Log!WithBreaks(Log!mergeStringArray(Log!splitStringArray(Log!RowsOf(
      SubSeq(text, 1, Log!Drained(text, force))))))

KeptBack(text, force) == SubSeq(text, Log!Drained(text, force) + 1, Len(text))

\* A drain hands on one part of the text and keeps the other.
LEMMA DrainLoopIs ==
    ASSUME NEW text, NEW force, Log!DrainLoop(text, force)
    PROVE  chunks' = chunks \o HandedOn(text, force) /\ data' = KeptBack(text, force)
  BY DEF Log!DrainLoop, HandedOn, KeptBack

\* What is sent now and what is kept account for what was sent before and a text.
Accounted(all, rest, sent, text) ==
    /\ rest \in Text /\ Sending(all) /\ Len(rest) < ChunkSize
    /\ AllLetters(all) \o LettersIn(rest) = AllLetters(sent) \o LettersIn(text)

\* A text can be cut anywhere into two texts.
LEMMA PartsOfText ==
    ASSUME NEW t \in Text, NEW k \in 0..Len(t)
    PROVE  /\ SubSeq(t, 1, k) \in Text /\ SubSeq(t, k + 1, Len(t)) \in Text
           /\ Len(SubSeq(t, k + 1, Len(t))) = Len(t) - k
  <1>1. t \in Seq(STRING) /\ Len(t) \in Nat
    BY DEF Text
  <1> QED
    BY <1>1 DEF Text

\* The parts of a text that was cut make the text again.
LEMMA TextOfParts ==
    ASSUME NEW t \in Text, NEW k \in 0..Len(t)
    PROVE  SubSeq(t, 1, k) \o SubSeq(t, k + 1, Len(t)) = t
  <1>1. t \in Seq(STRING) /\ Len(t) \in Nat
    BY DEF Text
  <1>2. /\ 1 \in 1..Len(t) + 1 /\ k \in (1 - 1)..Len(t) /\ Len(t) \in k..Len(t)
        /\ SubSeq(t, 1, Len(t)) = t
    BY <1>1
  <1> QED
    BY <1>1, <1>2, ConcatAdjacentSubSeq

\* A drain hands on or keeps the letters of a text.
LEMMA DrainKeeps ==
    ASSUME NEW text \in Text, NEW force, NEW sent \in Seq(Text), Sending(sent)
    PROVE  Accounted(sent \o HandedOn(text, force), KeptBack(text, force), sent, text)
  <1> DEFINE rest == KeptBack(text, force)
             all == sent \o HandedOn(text, force)
  <1> DEFINE drained == Log!Drained(text, force)
             head == SubSeq(text, 1, drained)
             rows == Log!RowsOf(head)
             split == Log!splitStringArray(rows)
             merged == Log!mergeStringArray(split)
             new == Log!WithBreaks(merged)
  <1>1. text \in Seq(STRING) /\ Len(text) \in Nat /\ DOMAIN text = 1..Len(text)
    BY DEF Text
  <1>2. drained \in 0..Len(text) /\ Len(text) - drained < ChunkSize
    <2> DEFINE last == Log!LastBreak(text)
               breaks == {i \in DOMAIN text : text[i] = Break}
    <2>1. last \in 0..Len(text)
      <3>1. last = IF breaks = {} THEN 0 ELSE Max(breaks)
        BY SameLogOperators DEF Log!LastBreak
      <3>2. breaks \subseteq 1..Len(text)
        BY <1>1
      <3> HIDE DEF last, breaks
      <3>3. breaks # {} => Max(breaks) \in breaks
        BY <1>1, <3>2, GreatestOfNaturals
      <3> QED
        BY <1>1, <3>1, <3>2, <3>3
    <2>2. drained = IF force \/ Len(text) - last >= ChunkSize THEN Len(text) ELSE last
      BY DEF Log!Drained
    <2>3. ChunkSize \in Nat /\ ChunkSize > 0
      BY LogAssumption, EmptySeq
    <2> HIDE DEF last, drained
    <2>4. CASE force \/ Len(text) - last >= ChunkSize
      BY <1>1, <2>2, <2>3, <2>4
    <2>5. CASE ~(force \/ Len(text) - last >= ChunkSize)
      BY <1>1, <2>1, <2>2, <2>3, <2>5
    <2> QED
      BY <2>4, <2>5
  <1>3. rest = SubSeq(text, drained + 1, Len(text)) /\ all = sent \o new
    BY DEF KeptBack, HandedOn
  <1> HIDE DEF drained, rest, all
  <1>4. /\ head \in Text /\ rest \in Text /\ Len(rest) = Len(text) - drained /\ head \o rest = text
    <2>1. /\ head \in Text /\ rest \in Text /\ Len(rest) = Len(text) - drained
      BY <1>2, <1>3, PartsOfText
    <2>2. head \o SubSeq(text, drained + 1, Len(text)) = text
      BY <1>2, TextOfParts
    <2> QED
      BY <1>3, <2>1, <2>2
  <1> HIDE DEF head
  <1>5. rows \in Seq(Text) /\ AllLetters(rows) = LettersIn(head)
    BY <1>4, RowsKeep
  <1> HIDE DEF rows
  <1>6. Fitting(split) /\ AllLetters(split) = AllLetters(rows)
    BY <1>5, SplitRowsKeep
  <1> HIDE DEF split
  <1>7. Fitting(merged) /\ AllLetters(merged) = AllLetters(split)
    BY <1>6, MergeRowsKeep
  <1> HIDE DEF merged
  <1>8. Sending(new) /\ AllLetters(new) = AllLetters(merged)
    BY <1>7, WithBreaksKeep
  <1> HIDE DEF new
  <1>9. new \in Seq(Text)
    BY <1>8 DEF Sending
  <1>10. Sending(all)
    <2>1. /\ all \in Seq(Text) /\ Len(sent) \in Nat /\ Len(new) \in Nat
          /\ DOMAIN all = 1..Len(sent) + Len(new) /\ DOMAIN sent = 1..Len(sent) /\ DOMAIN new = 1..Len(new)
          /\ \A i \in 1..Len(sent) + Len(new) : all[i] = IF i =< Len(sent) THEN sent[i] ELSE new[i - Len(sent)]
      <3>1. /\ sent \o new \in Seq(Text) /\ Len(sent) \in Nat /\ Len(new) \in Nat
            /\ Len(sent \o new) = Len(sent) + Len(new)
            /\ \A i \in 1..Len(sent) + Len(new) : (sent \o new)[i] = IF i =< Len(sent) THEN sent[i] ELSE new[i - Len(sent)]
        BY <1>9, ConcatProperties, LenProperties
      <3>2. all \in Seq(Text) /\ Len(all) = Len(sent) + Len(new)
        BY <1>3, <3>1
      <3> QED
        BY <1>3, <1>9, <3>1, <3>2, LenProperties
    <2>2. ASSUME NEW i \in DOMAIN all
          PROVE  Len(all[i]) =< ChunkSize + 1
      <3>1. CASE i =< Len(sent)
        <4>1. i \in DOMAIN sent /\ all[i] = sent[i]
          BY <2>1, <3>1
        <4> QED
          BY <4>1 DEF Sending
      <3>2. CASE ~ i =< Len(sent)
        <4>1. i - Len(sent) \in DOMAIN new /\ all[i] = new[i - Len(sent)]
          BY <2>1, <3>2
        <4> QED
          BY <1>8, <4>1 DEF Sending
      <3> QED
        BY <3>1, <3>2
    <2> QED
      BY <2>1, <2>2 DEF Sending
  <1>11. AllLetters(all) \o LettersIn(rest) = AllLetters(sent) \o LettersIn(text)
    <2> DEFINE a == AllLetters(sent)
               b == LettersIn(head)
               c == LettersIn(rest)
    <2>1. AllLetters(all) = a \o b
      BY <1>3, <1>5, <1>6, <1>7, <1>8, <1>9, AllLettersJoin
    <2>2. LettersIn(text) = b \o c
      BY <1>4, LettersJoin
    <2>3. a \in Seq(STRING) /\ b \in Seq(STRING) /\ c \in Seq(STRING)
      BY <1>4, LettersAreText DEF Text
    <2> HIDE DEF a, b
    <2>4. AllLetters(all) \o c = a \o LettersIn(text)
      <3> HIDE DEF c
      <3>1. (a \o b) \o c = a \o (b \o c)
        BY <2>3, ConcatAssociative
      <3> QED
        BY <2>1, <2>2, <3>1
    <2> QED
      BY <2>4 DEF a
  <1>12. Len(rest) < ChunkSize
    BY <1>2, <1>4
  <1>13. Accounted(all, rest, sent, text)
    BY <1>4, <1>10, <1>11, <1>12 DEF Accounted
  <1> QED
    BY <1>13 DEF all, rest

\* For chunks of any size, whatever is put around pieces and whatever is written:
\* no letter is lost or repeated on the way to the writer, and neither chunks nor
\* what is kept are too long.
THEOREM OutputStaysKept == Log!LogSpec => []OutputIsKept
  <1>1. Log!Init => LogInv
    <2> SUFFICES ASSUME Log!Init PROVE LogInv
      OBVIOUS
    <2>1. data = <<>> /\ chunks = <<>> /\ input = <<>>
      BY DEF Log!Init
    <2>2. <<>> \in Text /\ <<>> \in Seq(Text) /\ <<>> \o <<>> = <<>> /\ Len(<<>>) = 0
      BY ConcatEmptySeq DEF Text
    <2>3. 0 < ChunkSize
      BY LogAssumption, EmptySeq
    <2>4. Sending(<<>>)
      BY <2>2 DEF Sending
    <2>5. AllLetters(<<>>) \o LettersIn(<<>>) = LettersIn(<<>>)
      BY <2>2, NothingToTell
    <2> QED
      BY <2>1, <2>2, <2>3, <2>4, <2>5 DEF LogInv
  <1>2. LogInv /\ [Log!Next]_(Log!logVars) => LogInv'
    <2> SUFFICES ASSUME LogInv, [Log!Next]_(Log!logVars) PROVE LogInv'
      OBVIOUS
    <2>1. /\ data \in Text /\ Sending(chunks) /\ input \in Text /\ chunks \in Seq(Text)
          /\ AllLetters(chunks) \o LettersIn(data) = LettersIn(input)
          /\ Len(data) < ChunkSize
      BY DEF LogInv, Sending
    <2>2. ASSUME NEW text \in Text, NEW force, Log!DrainLoop(text, force)
          PROVE  /\ data' \in Text /\ Sending(chunks') /\ Len(data') < ChunkSize
                 /\ AllLetters(chunks') \o LettersIn(data') = AllLetters(chunks) \o LettersIn(text)
      <3>1. chunks' = chunks \o HandedOn(text, force) /\ data' = KeptBack(text, force)
        BY <2>2, DrainLoopIs
      <3>2. Accounted(chunks \o HandedOn(text, force), KeptBack(text, force), chunks, text)
        BY <2>1, DrainKeeps
      <3>3. Accounted(chunks', data', chunks, text)
        BY <3>1, <3>2
      <3> QED
        BY <3>3 DEF Accounted
    <2>3. CASE UNCHANGED Log!logVars
      BY <2>3 DEF Log!logVars, LogInv
    <2>4. ASSUME NEW text \in Inputs, Log!write(text)
          PROVE  LogInv'
      <3>1. text \in Text
        BY LogAssumption DEF Text
      <3>2. input' = input \o text
        BY <2>4 DEF Log!write
      <3>3. /\ input' \in Text /\ data \o text \in Text /\ Len(data \o text) = Len(data) + Len(text)
            /\ Len(data) \in Nat /\ Len(text) \in Nat
        BY <2>1, <3>1, <3>2, ConcatProperties DEF Text
      <3>4. AllLetters(chunks) \o LettersIn(data \o text) = LettersIn(input')
        <4> DEFINE a == AllLetters(chunks)
                   b == LettersIn(data)
                   c == LettersIn(text)
        <4>1. LettersIn(data \o text) = b \o c /\ LettersIn(input') = LettersIn(input) \o c
          BY <2>1, <3>1, <3>2, LettersJoin
        <4>2. a \in Seq(STRING) /\ b \in Seq(STRING) /\ c \in Seq(STRING)
          BY <2>1, <3>1, LettersAreText DEF Text
        <4>3. LettersIn(input) = a \o b
          BY <2>1
        <4> HIDE DEF a, b, c
        <4>4. (a \o b) \o c = a \o (b \o c)
          BY <4>2, ConcatAssociative
        <4> QED
          BY <4>1, <4>3, <4>4 DEF a
      <3>5. CASE Len(data) + Len(text) >= ChunkSize
        <4>1. Log!DrainLoop(data \o text, FALSE)
          BY <2>4, <3>5 DEF Log!write
        <4> QED
          BY <2>2, <3>3, <3>4, <4>1 DEF LogInv
      <3>6. CASE ~ Len(data) + Len(text) >= ChunkSize
        <4>1. data' = data \o text /\ chunks' = chunks
          BY <2>4, <3>6 DEF Log!write
        <4>2. Len(data') < ChunkSize
          BY <3>3, <3>6, <4>1, LogAssumption
        <4> QED
          BY <2>1, <3>3, <3>4, <4>1, <4>2 DEF LogInv
      <3> QED
        BY <3>5, <3>6
    <2>5. CASE Log!Timeout
      <3>1. Log!DrainLoop(data, TRUE)
        BY <2>5, Zenon DEF Log!Timeout
      <3>2. input' = input
        BY <2>5 DEF Log!Timeout
      <3>3. /\ data' \in Text /\ Sending(chunks') /\ Len(data') < ChunkSize
            /\ AllLetters(chunks') \o LettersIn(data') = AllLetters(chunks) \o LettersIn(data)
        BY <2>1, <2>2, <3>1
      <3> QED
        BY <2>1, <3>2, <3>3 DEF LogInv
    <2>6. CASE Log!drain
      <3>1. Log!DrainLoop(data, TRUE)
        BY <2>6, Zenon DEF Log!drain
      <3>2. input' = input
        BY <2>6 DEF Log!drain
      <3>3. /\ data' \in Text /\ Sending(chunks') /\ Len(data') < ChunkSize
            /\ AllLetters(chunks') \o LettersIn(data') = AllLetters(chunks) \o LettersIn(data)
        BY <2>1, <2>2, <3>1
      <3> QED
        BY <2>1, <3>2, <3>3 DEF LogInv
    <2> QED
      BY <2>3, <2>4, <2>5, <2>6 DEF Log!Next
  <1>3. LogInv => OutputIsKept
    <2> SUFFICES ASSUME LogInv PROVE OutputIsKept
      OBVIOUS
    <2>1. /\ data \in Text /\ chunks \in Seq(Text) /\ Sending(chunks) /\ Len(data) < ChunkSize
          /\ AllLetters(chunks) \o LettersIn(data) = LettersIn(input)
      BY DEF LogInv, Sending
    <2> DEFINE flat == FlattenSeq(chunks)
    <2>2. flat \in Text
      BY <2>1, FlattenInSeq DEF Text
    <2>3. AllLetters(chunks) = LettersIn(flat)
      BY DEF AllLetters, LettersIn
    <2>4. Log!LettersOf(Log!FlattenSeq(chunks) \o data) = LettersIn(flat \o data) /\ Log!LettersOf(input) = LettersIn(input)
      BY SameLogOperators
    <2> HIDE DEF flat
    <2>5. LettersIn(flat \o data) = LettersIn(flat) \o LettersIn(data)
      BY <2>1, <2>2, LettersJoin
    <2>6. Log!NoLetterIsLost
      BY <2>1, <2>3, <2>4, <2>5 DEF Log!NoLetterIsLost
    <2>7. Log!ChunksAreBounded
      BY <2>1 DEF Log!ChunksAreBounded, Sending
    <2> QED
      BY <2>6, <2>7 DEF OutputIsKept
  <1> QED
    BY <1>1, <1>2, <1>3, PTL DEF Log!LogSpec

------------------------------------------------------------------------------
\* FinnishIds

\* What is typed: digits.
Number == Seq(0..9)

\* The weights of a reference number.
LEMMA WeightsAre ==
    ASSUME NEW k \in Nat
    PROVE  Ids!Weight(k) \in {1, 3, 7}
  <1>1. k % 3 \in 0..2
    OBVIOUS
  <1> DEFINE m == k % 3
  <1> HIDE DEF m
  <1>2. m = 0 \/ m = 1 \/ m = 2
    BY <1>1 DEF m
  <1>3. Ids!Weight(k) = <<7, 3, 1>>[m + 1]
    BY DEF Ids!Weight, m
  <1> QED
    BY <1>2, <1>3

\* The sums that are made of the digits of a number, from its end.
IsSum(f, d) ==
    /\ f \in [0..Len(d) -> Nat]
    /\ f[0] = 9
    /\ \A k \in 1..Len(d) : f[k] = f[k - 1] + Ids!Weight(k - 1) * d[Len(d) - k + 1]

\* They are natural numbers.
LEMMA SumsAreNatural ==
    ASSUME NEW d, Len(d) \in Nat, NEW f, IsSum(f, d)
    PROVE  \A k \in 0..Len(d) : f[k] \in Nat
  <1>1. f \in [0..Len(d) -> Nat]
    BY DEF IsSum
  <1> QED
    BY <1>1

\* The check digit comes from the last of them.
LEMMA CheckDigitIs ==
    ASSUME NEW d \in Number
    PROVE  \E f : IsSum(f, d) /\ Ids!refNumCalculateDigit(d) = 9 - (f[Len(d)] % 10)
  <1> DEFINE n == Len(d)
             term == [k \in 1..n |-> Ids!Weight(k - 1) * d[n - k + 1]]
             Rounds(f) == f = [k \in 0..n |-> IF k = 0 THEN 9 ELSE f[k - 1] + Ids!Weight(k - 1) * d[n - k + 1]]
             calc == CHOOSE f : Rounds(f)
  <1>1. n \in Nat /\ \A i \in 1..n : d[i] \in 0..9
    BY DEF Number
  <1>2. Ids!refNumCalculateDigit(d) = 9 - (calc[n] % 10)
    BY DEF Ids!refNumCalculateDigit
  <1>3. term \in [1..n -> Nat] /\ \A k \in 1..n : term[k] = Ids!Weight(k - 1) * d[n - k + 1]
    <2>1. ASSUME NEW k \in 1..n
          PROVE  Ids!Weight(k - 1) * d[n - k + 1] \in Nat
      <3> DEFINE w == Ids!Weight(k - 1)
                 x == d[n - k + 1]
      <3>1. k - 1 \in Nat /\ n - k + 1 \in 1..n
        BY <1>1
      <3>2. w \in {1, 3, 7} /\ x \in 0..9
        BY <1>1, <3>1, WeightsAre
      <3> HIDE DEF w, x
      <3>3. w * x \in Nat
        BY <3>2
      <3> QED
        BY <3>3 DEF w, x
    <2> QED
      BY <2>1
  <1> HIDE DEF term
  <1>4. PICK f \in [0..n -> Nat] : \A k \in 0..n : f[k] = IF k = 0 THEN 9 ELSE f[k - 1] + term[k]
    <2> HIDE DEF n
    <2>1. 9 \in Nat
      OBVIOUS
    <2> QED
      BY <1>1, <1>3, <2>1, SumsRun
  <1>5. Rounds(f)
    BY <1>3, <1>4
  <1>6. Rounds(calc)
    BY <1>5
  <1> HIDE DEF calc
  <1>7. DOMAIN calc = 0..n /\ \A k \in 0..n : calc[k] = IF k = 0 THEN 9 ELSE calc[k - 1] + term[k]
    BY <1>3, <1>6
  <1>8. calc \in [0..n -> Nat]
    <2> DEFINE I == {k \in 0..n : calc[k] \in Nat}
    <2>1. 0 \in I
      BY <1>1, <1>7
    <2>2. \A k \in 1..n : k - 1 \in I => k \in I
      BY <1>1, <1>3, <1>7
    <2> HIDE DEF I
    <2>3. 0..n \subseteq I
      BY <1>1, <2>1, <2>2, CountingUp
    <2>4. \A k \in 0..n : calc[k] \in Nat
      BY <2>3 DEF I
    <2>5. calc = [k \in 0..n |-> calc[k]]
      BY <1>6
    <2> QED
      BY <2>4, <2>5
  <1>9. IsSum(calc, d)
    BY <1>1, <1>3, <1>7, <1>8 DEF IsSum
  <1> QED
    BY <1>2, <1>9

\* A check digit is a digit.
LEMMA CheckDigitIsDigit ==
    ASSUME NEW d \in Number
    PROVE  Ids!refNumCalculateDigit(d) \in 0..9
  <1>1. PICK f : IsSum(f, d) /\ Ids!refNumCalculateDigit(d) = 9 - (f[Len(d)] % 10)
    BY CheckDigitIs
  <1>2. f[Len(d)] \in Nat
    BY <1>1 DEF IsSum, Number
  <1> DEFINE x == f[Len(d)]
  <1> HIDE DEF x
  <1>3. x % 10 \in 0..9
    BY <1>2 DEF x
  <1> QED
    BY <1>1, <1>3 DEF x

\* One digit off makes another sum.
LEMMA WeightTells ==
    ASSUME NEW w \in {1, 3, 7}, NEW a \in 0..9, NEW b \in 0..9, a # b,
           NEW s \in Nat, NEW t \in Nat, s = t + w * a - w * b
    PROVE  s % 10 # t % 10
  <1>1. CASE w = 1
    BY <1>1
  <1>2. CASE w = 3
    BY <1>2
  <1>3. CASE w = 7
    BY <1>3
  <1> QED
    BY <1>1, <1>2, <1>3
\* Numbers that differ in one digit have different sums.
LEMMA SumsDiffer ==
    ASSUME NEW d \in Number, NEW e \in Number, Len(d) = Len(e),
           NEW i \in 1..Len(d), d[i] # e[i], \A j \in 1..Len(d) : j # i => d[j] = e[j],
           NEW f, IsSum(f, d), NEW g, IsSum(g, e)
    PROVE  f[Len(d)] % 10 # g[Len(d)] % 10
  <1> DEFINE n == Len(d)
             m == n - i + 1
             w == Ids!Weight(m - 1)
             x == w * d[i]
             y == w * e[i]
             I == {k \in 0..n : f[k] = g[k] + (IF k >= m THEN x - y ELSE 0)}
  <1>1. /\ n \in Nat /\ m \in 1..n /\ m - 1 \in Nat /\ d[i] \in 0..9 /\ e[i] \in 0..9
    BY DEF Number
  <1>2. w \in {1, 3, 7}
    BY <1>1, WeightsAre
  <1>3. x \in Nat /\ y \in Nat
    <2> DEFINE a == d[i]
               b == e[i]
    <2> HIDE DEF w
    <2>1. a \in 0..9 /\ b \in 0..9
      BY <1>1
    <2> HIDE DEF a, b
    <2>2. w * a \in Nat /\ w * b \in Nat
      BY <1>2, <2>1
    <2> QED
      BY <2>2 DEF a, b
  <1>4. /\ f \in [0..n -> Nat] /\ f[0] = 9
        /\ \A k \in 1..n : f[k] = f[k - 1] + Ids!Weight(k - 1) * d[n - k + 1]
        /\ g \in [0..n -> Nat] /\ g[0] = 9
        /\ \A k \in 1..n : g[k] = g[k - 1] + Ids!Weight(k - 1) * e[n - k + 1]
    BY DEF IsSum
  <1>5. \A k \in 0..n : f[k] \in Nat /\ g[k] \in Nat
    BY <1>1, SumsAreNatural
  <1>11. 0 \in I
    <2> HIDE DEF x, y
    <2> QED
      BY <1>1, <1>4
  <1>6. ASSUME NEW k \in 1..n, k - 1 \in I
        PROVE  k \in I
    <2> DEFINE p == Ids!Weight(k - 1) * d[n - k + 1]
               q == Ids!Weight(k - 1) * e[n - k + 1]
    <2>1. f[k] = f[k - 1] + p /\ g[k] = g[k - 1] + q
      BY <1>4
    <2>2. CASE k = m
      <3>1. n - k + 1 = i
        BY <1>1, <2>2
      <3>2. p = x /\ q = y
        BY <2>2, <3>1
      <3> HIDE DEF p, q, x, y
      <3>3. f[k - 1] = g[k - 1] /\ f[k - 1] \in Nat /\ g[k - 1] \in Nat
        <4>1. k - 1 \in 0..n /\ ~ k - 1 >= m
          BY <1>1, <2>2
        <4>2. f[k - 1] \in Nat /\ g[k - 1] \in Nat
          BY <1>5, <4>1
        <4>3. f[k - 1] = g[k - 1] + 0
          BY <1>6, <4>1
        <4> QED
          BY <4>2, <4>3
      <3>4. f[k] = g[k] + (x - y)
        BY <1>3, <2>1, <3>2, <3>3
      <3> QED
        BY <1>1, <2>2, <3>4
    <2>3. CASE k # m
      <3>1. n - k + 1 \in 1..n /\ n - k + 1 # i
        BY <1>1, <2>3
      <3>2. p = q /\ p \in Nat
        <4> DEFINE v == Ids!Weight(k - 1)
                   a == d[n - k + 1]
        <4>1. a = e[n - k + 1] /\ a \in 0..9 /\ k - 1 \in Nat
          BY <1>1, <3>1 DEF Number
        <4>2. v \in {1, 3, 7}
          BY <4>1, WeightsAre
        <4> HIDE DEF v, a
        <4>3. v * a \in Nat
          BY <4>1, <4>2
        <4> QED
          BY <4>1, <4>3 DEF v, a
      <3> HIDE DEF p, q, x, y
      <3>3. f[k - 1] \in Nat /\ g[k - 1] \in Nat /\ k - 1 \in 0..n
        <4>1. k - 1 \in 0..n
          BY <1>1
        <4> QED
          BY <1>5, <4>1
      <3>4. f[k - 1] = g[k - 1] + (IF k - 1 >= m THEN x - y ELSE 0)
        BY <1>6
      <3>5. k >= m <=> k - 1 >= m
        BY <1>1, <2>3
      <3>6. f[k] = g[k] + (IF k >= m THEN x - y ELSE 0)
        BY <1>3, <2>1, <3>2, <3>3, <3>4, <3>5
      <3> QED
        BY <1>1, <3>6
    <2> QED
      BY <2>2, <2>3
  <1>7. n \in I
    <2> HIDE DEF I
    <2>1. 0..n \subseteq I
      BY <1>1, <1>6, <1>11, CountingUp
    <2> QED
      BY <1>1, <2>1
  <1>8. f[n] = g[n] + x - y /\ f[n] \in Nat /\ g[n] \in Nat
    <2> HIDE DEF x, y
    <2> QED
      BY <1>1, <1>3, <1>5, <1>7
  <1> DEFINE a == d[i]
             b == e[i]
             s == f[n]
             t == g[n]
  <1>9. a \in 0..9 /\ b \in 0..9 /\ a # b /\ s = t + w * a - w * b /\ s \in Nat /\ t \in Nat
    BY <1>1, <1>8
  <1> HIDE DEF w, a, b, s, t
  <1>10. s % 10 # t % 10
    BY <1>2, <1>9, WeightTells
  <1> QED
    BY <1>10 DEF s, t

\* So have they different check digits.
LEMMA CheckDigitsDiffer ==
    ASSUME NEW d \in Number, NEW e \in Number, Len(d) = Len(e),
           NEW i \in 1..Len(d), d[i] # e[i], \A j \in 1..Len(d) : j # i => d[j] = e[j]
    PROVE  Ids!refNumCalculateDigit(d) # Ids!refNumCalculateDigit(e)
  <1>1. PICK f : IsSum(f, d) /\ Ids!refNumCalculateDigit(d) = 9 - (f[Len(d)] % 10)
    BY CheckDigitIs
  <1>2. PICK g : IsSum(g, e) /\ Ids!refNumCalculateDigit(e) = 9 - (g[Len(d)] % 10)
    BY CheckDigitIs
  <1>3. f[Len(d)] % 10 # g[Len(d)] % 10
    BY <1>1, <1>2, SumsDiffer
  <1>4. f[Len(d)] \in Nat /\ g[Len(d)] \in Nat
    <2>1. Len(d) \in Nat /\ Len(d) \in 0..Len(d)
      BY DEF Number
    <2> QED
      BY <1>1, <1>2, <2>1, SumsAreNatural
  <1> DEFINE s == f[Len(d)]
             t == g[Len(d)]
  <1> HIDE DEF s, t
  <1>5. s % 10 \in Int /\ t % 10 \in Int
    BY <1>4 DEF s, t
  <1> QED
    BY <1>1, <1>2, <1>3, <1>5 DEF s, t

\* Leading zeros do not change the check digit.
LEMMA ZerosDoNotCount ==
    ASSUME NEW d \in Number, NEW z \in 0..Len(d), \A i \in 1..z : d[i] = 0
    PROVE  Ids!refNumCalculateDigit(SubSeq(d, z + 1, Len(d))) = Ids!refNumCalculateDigit(d)
  <1> DEFINE n == Len(d)
             e == SubSeq(d, z + 1, n)
             m == Len(e)
  <1>1. /\ n \in Nat /\ e \in Number /\ m = n - z /\ m \in 0..n
        /\ \A i \in 1..m : e[i] = d[z + i]
        /\ \A i \in 1..n : d[i] \in 0..9
    BY DEF Number
  <1>2. PICK f : IsSum(f, d) /\ Ids!refNumCalculateDigit(d) = 9 - (f[n] % 10)
    BY CheckDigitIs
  <1> HIDE DEF e
  <1>3. PICK g : IsSum(g, e) /\ Ids!refNumCalculateDigit(e) = 9 - (g[m] % 10)
    BY <1>1, CheckDigitIs
  <1>4. /\ f \in [0..n -> Nat] /\ f[0] = 9
        /\ \A k \in 1..n : f[k] = f[k - 1] + Ids!Weight(k - 1) * d[n - k + 1]
    BY <1>2 DEF IsSum
  <1>5. /\ g \in [0..m -> Nat] /\ g[0] = 9
        /\ \A k \in 1..m : g[k] = g[k - 1] + Ids!Weight(k - 1) * e[m - k + 1]
    BY <1>3 DEF IsSum
  <1> HIDE DEF m, n
  <1> DEFINE I == {k \in 0..n : f[k] = IF k =< m THEN g[k] ELSE g[m]}
  <1>6. 0 \in I
    BY <1>1, <1>4, <1>5
  <1>7. ASSUME NEW k \in 1..n, k - 1 \in I
        PROVE  k \in I
    <2>1. CASE k =< m
      <3>1. e[m - k + 1] = d[n - k + 1]
        <4>1. m - k + 1 \in 1..m /\ z + (m - k + 1) = n - k + 1
          BY <1>1, <2>1
        <4> QED
          BY <1>1, <4>1
      <3>2. k \in 1..m /\ f[k - 1] = g[k - 1]
        BY <1>1, <1>7, <2>1
      <3>3. f[k] = g[k]
        BY <1>4, <1>5, <3>1, <3>2
      <3> QED
        BY <2>1, <3>3
    <2>2. CASE ~ k =< m
      <3>1. n - k + 1 \in 1..z /\ k - 1 \in Nat
        BY <1>1, <2>2
      <3>2. d[n - k + 1] = 0
        BY <3>1
      <3>3. Ids!Weight(k - 1) * d[n - k + 1] = 0
        <4> DEFINE w == Ids!Weight(k - 1)
        <4>1. w \in {1, 3, 7}
          BY <3>1, WeightsAre
        <4> HIDE DEF w
        <4>2. w * 0 = 0
          BY <4>1
        <4> QED
          BY <3>2, <4>2 DEF w
      <3>4. f[k - 1] = g[m] /\ f[k - 1] \in Nat
        BY <1>1, <1>4, <1>7, <2>2
      <3>5. f[k] = g[m]
        BY <1>4, <3>3, <3>4
      <3> QED
        BY <2>2, <3>5
    <2> QED
      BY <2>1, <2>2
  <1>8. n \in I
    <2> HIDE DEF I
    <2>1. 0..n \subseteq I
      BY <1>1, <1>6, <1>7, CountingUp
    <2> QED
      BY <1>1, <2>1
  <1>9. f[n] = g[m]
    BY <1>1, <1>8
  <1> QED
    BY <1>2, <1>3, <1>9 DEF e, n

\* The sequence operators of the identifiers are those of the library.
LEMMA SameIdOperators ==
    ASSUME NEW s
    PROVE  Ids!Min(s) = Min(s) /\ Ids!OnlyDigits(s) = Kept(s, 0..9)
  <1>1. \A u : Ids!FlattenSeq(u) = FlattenSeq(u)
    BY DEF Ids!FlattenSeq, FlattenSeq
  <1> QED
    BY <1>1 DEF Ids!Min, Min, Ids!OnlyDigits, Ids!Those, Ids!Each, Kept

\* A number has only digits.
LEMMA NumberIsDigits ==
    ASSUME NEW t \in Number
    PROVE  Ids!OnlyDigits(t) = t
  BY AllKept, SameIdOperators DEF Number

\* The first z digits of a number are its leading zeros.
ZerosLead(t, z) ==
    /\ z \in 0..Len(t)
    /\ \A i \in 1..z : t[i] = 0
    /\ z < Len(t) => t[z + 1] # 0

\* What is left of a text are its digits without leading zeros.
LEMMA LeadingZerosGo ==
    ASSUME NEW text, NEW t \in Number, Ids!OnlyDigits(text) = t
    PROVE  \E z : ZerosLead(t, z) /\ Ids!refNumLeaveOnlyDigits(text) = SubSeq(t, z + 1, Len(t))
  <1> DEFINE significant == {i \in DOMAIN t : t[i] # 0}
  <1>1. Len(t) \in Nat /\ DOMAIN t = 1..Len(t)
    BY DEF Number
  <1>2. Ids!refNumLeaveOnlyDigits(text) =
          IF significant = {} THEN <<>> ELSE SubSeq(t, Min(significant), Len(t))
    BY SameIdOperators DEF Ids!refNumLeaveOnlyDigits
  <1>3. CASE significant = {}
    <2>1. ZerosLead(t, Len(t))
      BY <1>1, <1>3 DEF ZerosLead
    <2>2. SubSeq(t, Len(t) + 1, Len(t)) = <<>>
      BY <1>1 DEF Number
    <2> QED
      BY <1>2, <1>3, <2>1, <2>2
  <1>4. CASE significant # {}
    <2> DEFINE m == Min(significant)
    <2>1. m \in significant /\ \A i \in significant : m =< i
      <3>1. significant \subseteq Nat \ {0}
        BY <1>1
      <3> HIDE DEF significant
      <3> QED
        BY <1>4, <3>1, LeastOfNaturals
    <2> HIDE DEF m
    <2>2. m \in 1..Len(t) /\ t[m] # 0
      BY <1>1, <2>1
    <2>3. \A i \in 1..m - 1 : t[i] = 0
      <3> SUFFICES ASSUME NEW i \in 1..m - 1, t[i] # 0 PROVE FALSE
        OBVIOUS
      <3>1. i \in significant
        BY <1>1, <2>2
      <3> QED
        BY <2>1, <2>2, <3>1
    <2>4. ZerosLead(t, m - 1)
      BY <1>1, <2>2, <2>3 DEF ZerosLead
    <2>5. (m - 1) + 1 = m
      BY <1>1, <2>2
    <2> QED
      BY <1>2, <1>4, <2>4, <2>5 DEF m
  <1> QED
    BY <1>3, <1>4

\* The digits before the check digit.
Body(t) == SubSeq(t, 1, Len(t) - 1)

\* The digits before the last.
LEMMA BodyByIndex ==
    ASSUME NEW t \in Number, Len(t) > 0
    PROVE  /\ Body(t) \in Number /\ Len(Body(t)) = Len(t) - 1 /\ Len(t) \in Nat
           /\ \A i \in 1..Len(t) - 1 : Body(t)[i] = t[i]
  <1>1. t \in Seq(0..9) /\ Len(t) \in Nat
    BY DEF Number
  <1> DEFINE m == Len(t) - 1
  <1>2. m \in 0..Len(t)
    BY <1>1
  <1> HIDE DEF m
  <1>3. SubSeq(t, 1, m) \in Seq(0..9) /\ Len(SubSeq(t, 1, m)) = m /\ \A i \in 1..m : SubSeq(t, 1, m)[i] = t[i]
    BY <1>1, <1>2
  <1> QED
    BY <1>1, <1>3 DEF Body, Number, m

\* The last digit of a number is its check digit.
Matches(t) == Len(t) > 0 /\ t[Len(t)] = Ids!refNumCalculateDigit(Body(t))

\* A number as it is made.
Made(t) == Len(t) \in 2..20 /\ t[1] # 0 /\ Matches(t)

\* What is accepted has its check digit.
LEMMA CheckedMatches ==
    ASSUME NEW t \in Number, Ids!refNumCheck(t)
    PROVE  Matches(t)
  <1> DEFINE body == Ids!refNumStrip(t)
             q == Ids!refNumLeaveOnlyDigits(body)
  <1>1. body = Body(t)
    BY NumberIsDigits DEF Ids!refNumStrip, Body
  <1>2. /\ Ids!refNumCreate(body) # <<>> /\ Ids!refNumCreate(body) = t
    BY DEF Ids!refNumCheck, Ids!Undefined
  <1>3. Len(q) \in 1..19 /\ t = Append(q, Ids!refNumCalculateDigit(q))
    BY <1>2 DEF Ids!refNumCreate, Ids!Undefined
  <1>4. Body(t) \in Number /\ Len(t) \in Nat /\ Len(Body(t)) = IF Len(t) > 0 THEN Len(t) - 1 ELSE 0
    BY DEF Body, Number
  <1> HIDE DEF body, q
  <1>5. PICK z : ZerosLead(Body(t), z) /\ q = SubSeq(Body(t), z + 1, Len(Body(t)))
    BY <1>1, <1>4, NumberIsDigits, LeadingZerosGo DEF q
  <1>6. q \in Number /\ Len(q) = Len(Body(t)) - z /\ z \in 0..Len(Body(t))
    BY <1>4, <1>5 DEF ZerosLead, Number
  <1>7. Len(t) = Len(q) + 1 /\ t[Len(t)] = Ids!refNumCalculateDigit(q)
    <2> DEFINE c == Ids!refNumCalculateDigit(q)
    <2>1. c \in 0..9
      BY <1>6, CheckDigitIsDigit
    <2> HIDE DEF c
    <2>2. t = Append(q, c)
      BY <1>3 DEF c
    <2>3. Len(t) = Len(q) + 1 /\ t[Len(t)] = c
      BY <1>6, <2>1, <2>2, AppendByIndex DEF Number
    <2> QED
      BY <2>3 DEF c
  <1>8. z = 0 /\ Len(t) > 0
    BY <1>3, <1>4, <1>6, <1>7
  <1>9. q = Body(t)
    <2>1. SubSeq(Body(t), 1, Len(Body(t))) = Body(t)
      BY <1>4 DEF Number
    <2> QED
      BY <1>5, <1>8, <2>1
  <1> QED
    BY <1>7, <1>8, <1>9 DEF Matches

\* What is made is accepted.
LEMMA MadeIsChecked ==
    ASSUME NEW t \in Number, Made(t)
    PROVE  Ids!refNumCheck(t)
  <1> DEFINE body == Ids!refNumStrip(t)
             q == Ids!refNumLeaveOnlyDigits(body)
  <1>1. body = Body(t)
    BY NumberIsDigits DEF Ids!refNumStrip, Body
  <1>2. /\ Len(t) \in 2..20 /\ Body(t) \in Number /\ Len(Body(t)) = Len(t) - 1
        /\ \A i \in 1..Len(t) - 1 : Body(t)[i] = t[i]
    BY BodyByIndex DEF Made
  <1> HIDE DEF body, q
  <1>3. PICK z : ZerosLead(Body(t), z) /\ q = SubSeq(Body(t), z + 1, Len(Body(t)))
    BY <1>1, <1>2, NumberIsDigits, LeadingZerosGo DEF q
  <1>4. z = 0
    <2>1. Body(t)[1] # 0
      BY <1>2 DEF Made
    <2> QED
      BY <1>2, <1>3, <2>1 DEF ZerosLead
  <1>5. q = Body(t)
    <2>1. SubSeq(Body(t), 1, Len(Body(t))) = Body(t)
      BY <1>2 DEF Number
    <2> QED
      BY <1>3, <1>4, <2>1
  <1>6. Ids!refNumCreate(body) = Append(q, Ids!refNumCalculateDigit(q))
    <2>1. Len(q) \in 1..19
      <3>1. Len(q) = Len(t) - 1
        BY <1>2, <1>5
      <3>2. Len(t) \in 2..20
        BY <1>2
      <3> DEFINE m == Len(t)
      <3> HIDE DEF q, m
      <3>3. m \in 2..20 => m - 1 \in 1..19
        OBVIOUS
      <3> QED
        BY <3>1, <3>2, <3>3 DEF m
    <2> QED
      BY <2>1 DEF Ids!refNumCreate, q
  <1>7. Append(q, Ids!refNumCalculateDigit(q)) = t
    <2> DEFINE c == Ids!refNumCalculateDigit(q)
    <2>1. c = t[Len(t)]
      BY <1>5 DEF Made, Matches
    <2> HIDE DEF c
    <2>2. Append(Body(t), t[Len(t)]) = t
      BY <1>2 DEF Body, Number
    <2> QED
      BY <1>5, <2>1, <2>2 DEF c
  <1>8. t # <<>>
    BY <1>2, EmptySeq
  <1> QED
    BY <1>6, <1>7, <1>8 DEF Ids!refNumCheck, Ids!Undefined, body

\* What a text is parsed to has its check digit; so has the text.
LEMMA ParsedMatches ==
    ASSUME NEW t \in Number, Ids!refNumParse(t) # Ids!Undefined
    PROVE  Matches(t)
  <1> DEFINE q == Ids!refNumLeaveOnlyDigits(t)
  <1>1. Ids!refNumCheck(q)
    BY DEF Ids!refNumParse
  <1> HIDE DEF q
  <1>2. PICK z : ZerosLead(t, z) /\ q = SubSeq(t, z + 1, Len(t))
    BY NumberIsDigits, LeadingZerosGo DEF q
  <1>3. /\ z \in 0..Len(t) /\ Len(t) \in Nat /\ q \in Number /\ Len(q) = Len(t) - z
        /\ \A i \in 1..Len(t) - z : q[i] = t[z + i]
    BY <1>2 DEF ZerosLead, Number
  <1>4. Matches(q)
    BY <1>1, <1>3, CheckedMatches
  <1>5. Len(q) > 0 /\ q[Len(q)] = Ids!refNumCalculateDigit(Body(q))
    BY <1>4 DEF Matches
  <1>6. q[Len(q)] = t[Len(t)] /\ Len(t) > 0
    <2>1. Len(t) - z \in 1..Len(t) - z /\ z + (Len(t) - z) = Len(t) /\ Len(t) > 0
      BY <1>3, <1>5
    <2> QED
      BY <1>3, <2>1
  <1> DEFINE b == Body(t)
  <1>7. /\ b \in Number /\ Len(b) = Len(t) - 1 /\ z \in 0..Len(b)
        /\ \A i \in 1..Len(t) - 1 : b[i] = t[i]
    BY <1>3, <1>5, <1>6, BodyByIndex
  <1>8. SubSeq(b, z + 1, Len(b)) = Body(q)
    <2> DEFINE u == SubSeq(b, z + 1, Len(b))
    <2>1. /\ u \in Number /\ Len(u) = Len(t) - 1 - z
          /\ \A i \in 1..Len(t) - 1 - z : u[i] = b[z + i]
      <3> HIDE DEF b
      <3> QED
        BY <1>3, <1>7 DEF Number
    <2>2. /\ Body(q) \in Number /\ Len(Body(q)) = Len(t) - 1 - z
          /\ \A i \in 1..Len(t) - 1 - z : Body(q)[i] = q[i]
      <3>1. Len(q) - 1 = Len(t) - 1 - z
        BY <1>3
      <3> QED
        BY <1>3, <1>5, <3>1, BodyByIndex
    <2>3. \A i \in 1..Len(t) - 1 - z : u[i] = Body(q)[i]
      <3> HIDE DEF u
      <3> SUFFICES ASSUME NEW i \in 1..Len(t) - 1 - z PROVE u[i] = Body(q)[i]
        OBVIOUS
      <3>1. z + i \in 1..Len(t) - 1 /\ i \in 1..Len(t) - z
        BY <1>3
      <3> QED
        BY <1>3, <1>7, <2>1, <2>2, <3>1
    <2> HIDE DEF u, b
    <2>4. u = Body(q)
      BY <2>1, <2>2, <2>3 DEF Number
    <2> QED
      BY <2>4 DEF u
  <1>9. \A i \in 1..z : b[i] = 0
    BY <1>2, <1>7 DEF ZerosLead
  <1> HIDE DEF b
  <1>10. Ids!refNumCalculateDigit(Body(q)) = Ids!refNumCalculateDigit(b)
    BY <1>7, <1>8, <1>9, ZerosDoNotCount
  <1> QED
    BY <1>5, <1>6, <1>10 DEF Matches, b

\* A number with its check digit has it no more when one digit is off.
LEMMA OneOffFails ==
    ASSUME NEW t \in Number, Matches(t), NEW other \in Ids!OneDigitOff(t)
    PROVE  other \in Number /\ ~Matches(other)
  <1> DEFINE n == Len(t)
  <1>1. n \in Nat /\ n > 0 /\ DOMAIN t = 1..n /\ \A i \in 1..n : t[i] \in 0..9
    BY DEF Number, Matches
  <1>2. PICK i \in 1..n, d \in 0..9 : other = [t EXCEPT ![i] = d] /\ other # t
    BY <1>1 DEF Ids!OneDigitOff
  <1>3. /\ other \in Number /\ Len(other) = n /\ other[i] = d
        /\ \A j \in 1..n : j # i => other[j] = t[j]
    BY <1>1, <1>2 DEF Number
  <1>4. d # t[i]
    <2> SUFFICES ASSUME d = t[i] PROVE FALSE
      OBVIOUS
    <2>1. other = t
      BY <1>1, <1>2 DEF Number
    <2> QED
      BY <1>2, <2>1
  <1>5. /\ Body(t) \in Number /\ Len(Body(t)) = n - 1 /\ \A j \in 1..n - 1 : Body(t)[j] = t[j]
        /\ Body(other) \in Number /\ Len(Body(other)) = n - 1 /\ \A j \in 1..n - 1 : Body(other)[j] = other[j]
    BY <1>1, <1>3, BodyByIndex
  <1>6. t[n] = Ids!refNumCalculateDigit(Body(t))
    BY DEF Matches
  <1> SUFFICES ASSUME Matches(other) PROVE FALSE
    BY <1>3
  <1>7. other[n] = Ids!refNumCalculateDigit(Body(other))
    BY <1>3 DEF Matches
  <1> HIDE DEF n
  <1>8. CASE i = n
    <2>1. \A j \in 1..n - 1 : Body(other)[j] = Body(t)[j]
      <3>1. \A j \in 1..n - 1 : j \in 1..n /\ j # i
        BY <1>1, <1>8
      <3> QED
        BY <1>3, <1>5, <3>1
    <2>2. Body(other) = Body(t)
      BY <1>1, <1>5, <2>1 DEF Number
    <2> QED
      BY <1>3, <1>4, <1>6, <1>7, <1>8, <2>2
  <1>9. CASE i # n
    <2>1. i \in 1..n - 1 /\ n \in 1..n
      BY <1>1, <1>9
    <2>2. Body(other)[i] # Body(t)[i]
      BY <1>3, <1>4, <1>5, <2>1
    <2>3. \A j \in 1..n - 1 : j # i => Body(other)[j] = Body(t)[j]
      <3>1. \A j \in 1..n - 1 : j \in 1..n
        BY <1>1
      <3> QED
        BY <1>3, <1>5, <3>1
    <2>4. Ids!refNumCalculateDigit(Body(other)) # Ids!refNumCalculateDigit(Body(t))
      BY <1>5, <2>1, <2>2, <2>3, CheckDigitsDiffer
    <2> QED
      BY <1>3, <1>6, <1>7, <1>9, <2>1, <2>4
  <1> QED
    BY <1>8, <1>9

\* What is made of digits is a number as it is made.
LEMMA CreatedIsMade ==
    ASSUME NEW text \in Number, Ids!refNumCreate(text) # Ids!Undefined
    PROVE  Ids!refNumCreate(text) \in Number /\ Made(Ids!refNumCreate(text))
  <1> DEFINE q == Ids!refNumLeaveOnlyDigits(text)
             c == Ids!refNumCalculateDigit(q)
             num == Append(q, c)
  <1>1. Len(q) \in 1..19 /\ Ids!refNumCreate(text) = num
    BY DEF Ids!refNumCreate
  <1> HIDE DEF q
  <1>2. PICK z : ZerosLead(text, z) /\ q = SubSeq(text, z + 1, Len(text))
    BY NumberIsDigits, LeadingZerosGo DEF q
  <1>3. /\ z \in 0..Len(text) /\ Len(text) \in Nat /\ q \in Number /\ Len(q) = Len(text) - z
        /\ \A i \in 1..Len(text) - z : q[i] = text[z + i]
    BY <1>2 DEF ZerosLead, Number
  <1>4. q[1] # 0
    <2>1. z < Len(text) /\ 1 \in 1..Len(text) - z
      BY <1>1, <1>3
    <2> QED
      BY <1>2, <1>3, <2>1 DEF ZerosLead
  <1>5. c \in 0..9
    BY <1>3, CheckDigitIsDigit
  <1>6. /\ num \in Number /\ Len(q) \in Nat /\ Len(num) = Len(q) + 1
        /\ \A i \in 1..Len(q) : num[i] = q[i]
        /\ num[Len(q) + 1] = c
    <2> HIDE DEF c
    <2> QED
      BY <1>3, <1>5, AppendByIndex DEF Number
  <1> HIDE DEF c
  <1>7. Body(num) = q
    <2> HIDE DEF num
    <2>1. /\ Body(num) \in Number /\ Len(Body(num)) = Len(q)
          /\ \A i \in 1..Len(q) : Body(num)[i] = num[i]
      <3>1. Len(num) > 0 /\ Len(num) - 1 = Len(q)
        BY <1>6
      <3> QED
        BY <1>6, <3>1, BodyByIndex
    <2> QED
      BY <1>3, <1>6, <2>1 DEF Number
  <1> HIDE DEF num
  <1>8. num[1] # 0
    <2> DEFINE m == Len(q)
    <2>1. m \in 1..19
      BY <1>1
    <2> HIDE DEF m
    <2>2. 1 \in 1..m
      BY <2>1
    <2> QED
      BY <1>4, <1>6, <2>2 DEF m
  <1>9. Len(num) \in 2..20 /\ Len(num) > 0
    <2> DEFINE m == Len(q)
    <2>1. m \in 1..19
      BY <1>1
    <2>2. Len(num) = m + 1
      BY <1>6
    <2> HIDE DEF m
    <2> QED
      BY <2>1, <2>2
  <1>10. Made(num)
    BY <1>6, <1>7, <1>8, <1>9 DEF Made, Matches, c
  <1> QED
    BY <1>1, <1>6, <1>10

\* A space in a number does not count.
LEMMA SpaceIsIgnored ==
    ASSUME NEW t \in Number, Made(t), NEW i \in 1..Len(t)
    PROVE  Ids!refNumParse(Ids!InsertAt(t, i, Ids!Space)) = t
  <1> DEFINE text == Ids!InsertAt(t, i, Ids!Space)
             a == SubSeq(t, 1, i - 1)
             b == SubSeq(t, i, Len(t))
  <1>1. text = a \o <<10>> \o b
    BY DEF Ids!InsertAt, Ids!Space
  <1>2. Len(t) \in Nat /\ t \in Seq(0..9)
    BY DEF Number
  <1>3. a \in Seq(0..9) /\ b \in Seq(0..9) /\ a \o b = t
    <2> DEFINE m == i - 1
    <2>1. m \in 0..Len(t) /\ m + 1 = i
      BY <1>2
    <2> HIDE DEF m
    <2>2. SubSeq(t, 1, m) \in Seq(0..9) /\ SubSeq(t, m + 1, Len(t)) \in Seq(0..9)
      BY <1>2, <2>1
    <2>3. /\ 1 \in 1..Len(t) + 1 /\ m \in (1 - 1)..Len(t) /\ Len(t) \in m..Len(t)
          /\ SubSeq(t, 1, Len(t)) = t
      BY <1>2, <2>1
    <2>4. SubSeq(t, 1, m) \o SubSeq(t, m + 1, Len(t)) = t
      BY <1>2, <2>3, ConcatAdjacentSubSeq
    <2> QED
      BY <2>1, <2>2, <2>4 DEF m
  <1> HIDE DEF text, a, b
  <1>4. Kept(a, 0..9) = a /\ Kept(b, 0..9) = b /\ Kept(<<10>>, 0..9) = <<>>
    <2>1. <<10>> \in Seq({10}) /\ \A j \in DOMAIN <<10>> : <<10>>[j] \notin 0..9
      OBVIOUS
    <2>2. Kept(<<10>>, 0..9) = <<>>
      BY <2>1, NoneKept
    <2> QED
      BY <1>3, <2>2, AllKept
  <1>5. a \in Seq(0..10) /\ b \in Seq(0..10) /\ <<10>> \in Seq(0..10) /\ a \o <<10>> \in Seq(0..10)
    <2>1. ASSUME NEW s \in Seq(0..9) PROVE s \in Seq(0..10)
      <3>1. Len(s) \in Nat /\ s \in [1..Len(s) -> 0..10]
        <4>1. Len(s) \in Nat /\ \A j \in 1..Len(s) : s[j] \in 0..9
          OBVIOUS
        <4> QED
          BY <4>1
      <3> QED
        BY <3>1, SequenceOfLength
    <2>2. a \in Seq(0..10) /\ b \in Seq(0..10)
      BY <1>3, <2>1
    <2>3. <<10>> \in Seq(0..10)
      OBVIOUS
    <2> QED
      BY <2>2, <2>3, ConcatProperties
  <1>6. Kept(text, 0..9) = t
    <2> DEFINE space == <<10>>
               head == a \o space
               kept == 0..9
    <2>4. space \in Seq(0..10) /\ head \in Seq(0..10) /\ a \in Seq(0..10) /\ b \in Seq(0..10)
      BY <1>5
    <2>5. text = head \o b
      BY <1>1
    <2> HIDE DEF space, kept
    <2>2. Kept(head, kept) = Kept(a, kept) \o Kept(space, kept)
      BY <2>4, KeptConcat
    <2> HIDE DEF head
    <2>6. Kept(head \o b, kept) = Kept(head, kept) \o Kept(b, kept)
      BY <2>4, KeptConcat
    <2>1. Kept(text, kept) = Kept(head, kept) \o Kept(b, kept)
      BY <2>5, <2>6
    <2>3. a \o <<>> = a
      BY <1>3, ConcatEmptySeq
    <2> QED
      BY <1>3, <1>4, <2>1, <2>2, <2>3 DEF kept, space
  <1>7. Ids!OnlyDigits(text) = t
    BY <1>6, SameIdOperators
  <1>8. PICK z : ZerosLead(t, z) /\ Ids!refNumLeaveOnlyDigits(text) = SubSeq(t, z + 1, Len(t))
    BY <1>7, LeadingZerosGo
  <1>9. z = 0
    BY <1>2, <1>8 DEF ZerosLead, Made
  <1>10. Ids!refNumLeaveOnlyDigits(text) = t
    BY <1>2, <1>8, <1>9
  <1>11. Ids!refNumCheck(t)
    BY MadeIsChecked
  <1> QED
    BY <1>10, <1>11 DEF Ids!refNumParse, text

\* Reference numbers that are made keep their promise.
LEMMA ReferencesAreSafe ==
    ASSUME digits \in Number
    PROVE  Ids!RefNumbersAreSafe
  <1> DEFINE num == Ids!refNumCreate(digits)
  <1> SUFFICES ASSUME num # Ids!Undefined
               PROVE  /\ Ids!refNumCheck(num)
                      /\ \A other \in Ids!OneDigitOff(num) :
                           ~Ids!refNumCheck(other) /\ Ids!refNumParse(other) = Ids!Undefined
                      /\ \A i \in 1..Len(num) : Ids!refNumParse(Ids!InsertAt(num, i, Ids!Space)) = num
    BY DEF Ids!RefNumbersAreSafe
  <1>1. num \in Number /\ Made(num)
    BY CreatedIsMade
  <1> HIDE DEF num
  <1>2. Ids!refNumCheck(num)
    BY <1>1, MadeIsChecked
  <1>3. ASSUME NEW other \in Ids!OneDigitOff(num)
        PROVE  ~Ids!refNumCheck(other) /\ Ids!refNumParse(other) = Ids!Undefined
    <2>1. other \in Number /\ ~Matches(other)
      BY <1>1, OneOffFails DEF Made
    <2> QED
      BY <2>1, CheckedMatches, ParsedMatches
  <1>4. ASSUME NEW i \in 1..Len(num)
        PROVE  Ids!refNumParse(Ids!InsertAt(num, i, Ids!Space)) = num
    BY <1>1, SpaceIsIgnored
  <1> QED
    BY <1>2, <1>3, <1>4

\* The sum of the digits of a business id, each with its weight.
WeightedSum(id) ==
    7 * id[1] + 9 * id[2] + 10 * id[3] + 5 * id[4] + 8 * id[5] + 4 * id[6] + 2 * id[7]

\* The check digit that it gives.
SumDigit(id) == IF WeightedSum(id) % 11 = 0 THEN 0 ELSE 11 - (WeightedSum(id) % 11)

\* The digits of a business id, its leading zero included.
BusinessNumber == {id \in Number : Len(id) = 7}

\* Their sum is a natural number.
LEMMA SevenDigits ==
    ASSUME NEW id \in BusinessNumber
    PROVE  /\ id[1] \in 0..9 /\ id[2] \in 0..9 /\ id[3] \in 0..9 /\ id[4] \in 0..9
           /\ id[5] \in 0..9 /\ id[6] \in 0..9 /\ id[7] \in 0..9
           /\ WeightedSum(id) \in Nat
  <1>1. /\ id[1] \in 0..9 /\ id[2] \in 0..9 /\ id[3] \in 0..9 /\ id[4] \in 0..9
        /\ id[5] \in 0..9 /\ id[6] \in 0..9 /\ id[7] \in 0..9
    <2>1. id \in Seq(0..9) /\ Len(id) = 7
      BY DEF BusinessNumber, Number
    <2>2. ASSUME NEW i \in 1..7
          PROVE  id[i] \in 0..9
      BY <2>1, ElementOfSeq
    <2> QED
      BY <2>2
  <1>2. WeightedSum(id) \in Nat
    <2>1. /\ 7 * id[1] \in Nat /\ 9 * id[2] \in Nat /\ 10 * id[3] \in Nat /\ 5 * id[4] \in Nat
          /\ 8 * id[5] \in Nat /\ 4 * id[6] \in Nat /\ 2 * id[7] \in Nat
      BY <1>1
    <2> QED
      BY <2>1 DEF WeightedSum
  <1> QED
    BY <1>1, <1>2

\* What yTunnusWithSum makes of seven digits.
LEMMA WithSumIs ==
    ASSUME NEW t, NEW id \in BusinessNumber,
           id = IF Len(t.id) = 6 THEN << 0 >> \o t.id ELSE t.id
    PROVE  Ids!yTunnusWithSum(t) =
             IF WeightedSum(id) % 11 = 1 \/ t.sum \notin {<<>>, <<SumDigit(id)>>}
             THEN Ids!Illegal
             ELSE [id |-> id, dash |-> TRUE, sum |-> <<SumDigit(id)>>]
  <1> DEFINE W == <<7, 9, 10, 5, 8, 4, 2>>
             Product(i) == W[i] * id[i]
             term == [i \in 1..7 |-> Product(i)]
             Rounds(f) == f = [i \in 0..7 |-> IF i = 0 THEN 0 ELSE f[i - 1] + Product(i)]
             weighted == CHOOSE f : Rounds(f)
             sum == weighted[7] % 11
             digit == IF sum = 0 THEN 0 ELSE 11 - sum
  <1>1. Len(id) = 7
    BY DEF BusinessNumber
  <1>2. Ids!yTunnusWithSum(t) =
          IF Len(id) # 7 \/ sum = 1 \/ t.sum \notin {<<>>, <<digit>>}
          THEN Ids!Illegal
          ELSE [id |-> id, dash |-> TRUE, sum |-> <<digit>>]
    BY DEF Ids!yTunnusWithSum
  <1>3. /\ term[1] = 7 * id[1] /\ term[2] = 9 * id[2] /\ term[3] = 10 * id[3] /\ term[4] = 5 * id[4]
        /\ term[5] = 8 * id[5] /\ term[6] = 4 * id[6] /\ term[7] = 2 * id[7]
    <2>1. /\ W[1] = 7 /\ W[2] = 9 /\ W[3] = 10 /\ W[4] = 5 /\ W[5] = 8 /\ W[6] = 4 /\ W[7] = 2
      OBVIOUS
    <2>2. \A i \in 1..7 : term[i] = Product(i)
      OBVIOUS
    <2>3. /\ Product(1) = 7 * id[1] /\ Product(2) = 9 * id[2] /\ Product(3) = 10 * id[3]
          /\ Product(4) = 5 * id[4] /\ Product(5) = 8 * id[5] /\ Product(6) = 4 * id[6]
          /\ Product(7) = 2 * id[7]
      BY <2>1
    <2> HIDE DEF term, W, Product
    <2>4. /\ term[1] = Product(1) /\ term[2] = Product(2) /\ term[3] = Product(3) /\ term[4] = Product(4)
          /\ term[5] = Product(5) /\ term[6] = Product(6) /\ term[7] = Product(7)
      BY <2>2
    <2> QED
      BY <2>3, <2>4
  <1>4. term \in [1..7 -> Nat] /\ \A i \in 1..7 : term[i] = Product(i)
    <2>1. ASSUME NEW i \in 1..7
          PROVE  Product(i) \in Nat
      <3> DEFINE w == W[i]
                 x == id[i]
      <3>1. w \in {7, 9, 10, 5, 8, 4, 2}
        OBVIOUS
      <3>2. x \in 0..9
        BY ElementOfSeq DEF BusinessNumber, Number
      <3> HIDE DEF w, x
      <3>3. w * x \in Nat
        BY <3>1, <3>2
      <3> QED
        BY <3>3 DEF w, x
    <2> HIDE DEF W, Product
    <2> QED
      BY <2>1
  <1> HIDE DEF term, W, Product
  <1>5. PICK f \in [0..7 -> Nat] : \A k \in 0..7 : f[k] = IF k = 0 THEN 0 ELSE f[k - 1] + term[k]
    <2>1. 0 \in Nat /\ 7 \in Nat
      OBVIOUS
    <2> QED
      BY <1>4, <2>1, SumsRun
  <1>6. Rounds(f)
    <2>1. ASSUME NEW k \in 0..7
          PROVE  f[k] = IF k = 0 THEN 0 ELSE f[k - 1] + Product(k)
      <3>1. CASE k = 0
        BY <1>5, <3>1
      <3>2. CASE k \in 1..7
        <4>1. term[k] = Product(k)
          BY <1>4, <3>2
        <4> QED
          BY <1>5, <3>2, <4>1
      <3> QED
        BY <3>1, <3>2
    <2> QED
      BY <1>5, <2>1
  <1>7. Rounds(weighted)
    BY <1>6
  <1> HIDE DEF weighted
  <1>8. ASSUME NEW k \in 0..7
        PROVE  weighted[k] = IF k = 0 THEN 0 ELSE weighted[k - 1] + term[k]
    <2>1. weighted[k] = IF k = 0 THEN 0 ELSE weighted[k - 1] + Product(k)
      BY <1>7
    <2>2. CASE k = 0
      BY <2>1, <2>2
    <2>3. CASE k \in 1..7
      <3>1. term[k] = Product(k)
        BY <1>4, <2>3
      <3> QED
        BY <2>1, <2>3, <3>1
    <2> QED
      BY <2>2, <2>3
  <1>9. /\ weighted[0] = 0 /\ weighted[1] = weighted[0] + term[1]
        /\ weighted[2] = weighted[1] + term[2] /\ weighted[3] = weighted[2] + term[3]
        /\ weighted[4] = weighted[3] + term[4] /\ weighted[5] = weighted[4] + term[5]
        /\ weighted[6] = weighted[5] + term[6] /\ weighted[7] = weighted[6] + term[7]
    BY <1>8
  <1>10. weighted[7] = WeightedSum(id)
    <2>1. \A i \in 1..7 : term[i] \in Nat
      BY <1>4
    <2>2. weighted[7] = term[1] + term[2] + term[3] + term[4] + term[5] + term[6] + term[7]
      BY <1>9, <2>1
    <2> QED
      BY <1>3, <2>2 DEF WeightedSum
  <1>11. sum = WeightedSum(id) % 11 /\ digit = SumDigit(id)
    BY <1>10 DEF SumDigit
  <1> HIDE DEF sum, digit
  <1> QED
    BY <1>1, <1>2, <1>11

\* Multiples of 11 have no divisor from 1 to 10.
LEMMA ElevenTells ==
    ASSUME NEW w \in 1..10, NEW a \in 0..9, NEW b \in 0..9, a # b,
           NEW s \in Nat, NEW t \in Nat, s + w * a = t + w * b
    PROVE  s % 11 # t % 11
  <1>1. CASE w = 1 BY <1>1
  <1>2. CASE w = 2 BY <1>2
  <1>3. CASE w = 3 BY <1>3
  <1>4. CASE w = 4 BY <1>4
  <1>5. CASE w = 5 BY <1>5
  <1>6. CASE w = 6 BY <1>6
  <1>7. CASE w = 7 BY <1>7
  <1>8. CASE w = 8 BY <1>8
  <1>9. CASE w = 9 BY <1>9
  <1>10. CASE w = 10 BY <1>10
  <1> QED
    BY <1>1, <1>2, <1>3, <1>4, <1>5, <1>6, <1>7, <1>8, <1>9, <1>10

\* One digit off, or two digits swapped, make another sum.
LEMMA BusinessSumsDiffer ==
    ASSUME NEW id \in BusinessNumber, NEW other \in Ids!OneDigitOff(id) \cup Ids!TwoSwapped(id)
    PROVE  other \in BusinessNumber /\ WeightedSum(other) % 11 # WeightedSum(id) % 11
  <1>1. id \in Seq(0..9) /\ Len(id) = 7 /\ DOMAIN id = 1..7 /\ other # id
    BY DEF BusinessNumber, Number, Ids!OneDigitOff, Ids!TwoSwapped
  <1> DEFINE s == WeightedSum(other)
             t == WeightedSum(id)
             x1 == id[1]
             x2 == id[2]
             x3 == id[3]
             x4 == id[4]
             x5 == id[5]
             x6 == id[6]
             x7 == id[7]
  <1>3. x1 \in 0..9 /\ x2 \in 0..9 /\ x3 \in 0..9 /\ x4 \in 0..9 /\ x5 \in 0..9 /\ x6 \in 0..9 /\ x7 \in 0..9
    BY SevenDigits
  <1>4. t = 7 * x1 + 9 * x2 + 10 * x3 + 5 * x4 + 8 * x5 + 4 * x6 + 2 * x7
    BY DEF WeightedSum
  <1> HIDE DEF s, t, x1, x2, x3, x4, x5, x6, x7
  <1>5. CASE other \in Ids!OneDigitOff(id)
    <2>1. PICK i \in 1..7, d \in 0..9 : other = [id EXCEPT ![i] = d]
      BY <1>1, <1>5 DEF Ids!OneDigitOff
    <2>2. /\ other \in BusinessNumber /\ other[i] = d
          /\ \A j \in 1..7 : j # i => other[j] = id[j]
      BY <1>1, <2>1 DEF BusinessNumber, Number
    <2>3. d # id[i]
      <3> SUFFICES ASSUME d = id[i] PROVE FALSE
        OBVIOUS
      <3>1. other = id
        BY <1>1, <2>1
      <3> QED
        BY <1>1, <3>1
    <2>4. \E w \in 1..10 : s + w * id[i] = t + w * d
      <3>1. \A j \in 1..7 : other[j] = IF j = i THEN d ELSE id[j]
        BY <2>2
      <3>3. CASE i = 1
        <4>1. other[1] = d /\ other[2] = x2 /\ other[3] = x3 /\ other[4] = x4 /\ other[5] = x5 /\ other[6] = x6 /\ other[7] = x7
          BY <3>1, <3>3 DEF x2, x3, x4, x5, x6, x7
        <4>2. s = 7 * d + 9 * x2 + 10 * x3 + 5 * x4 + 8 * x5 + 4 * x6 + 2 * x7
          BY <4>1 DEF WeightedSum, s
        <4>3. s + 7 * x1 = t + 7 * d
          BY <1>3, <1>4, <4>2
        <4> QED
          BY <3>3, <4>3 DEF x1
      <3>4. CASE i = 2
        <4>1. other[1] = x1 /\ other[2] = d /\ other[3] = x3 /\ other[4] = x4 /\ other[5] = x5 /\ other[6] = x6 /\ other[7] = x7
          BY <3>1, <3>4 DEF x1, x3, x4, x5, x6, x7
        <4>2. s = 7 * x1 + 9 * d + 10 * x3 + 5 * x4 + 8 * x5 + 4 * x6 + 2 * x7
          BY <4>1 DEF WeightedSum, s
        <4>3. s + 9 * x2 = t + 9 * d
          BY <1>3, <1>4, <4>2
        <4> QED
          BY <3>4, <4>3 DEF x2
      <3>5. CASE i = 3
        <4>1. other[1] = x1 /\ other[2] = x2 /\ other[3] = d /\ other[4] = x4 /\ other[5] = x5 /\ other[6] = x6 /\ other[7] = x7
          BY <3>1, <3>5 DEF x1, x2, x4, x5, x6, x7
        <4>2. s = 7 * x1 + 9 * x2 + 10 * d + 5 * x4 + 8 * x5 + 4 * x6 + 2 * x7
          BY <4>1 DEF WeightedSum, s
        <4>3. s + 10 * x3 = t + 10 * d
          BY <1>3, <1>4, <4>2
        <4> QED
          BY <3>5, <4>3 DEF x3
      <3>6. CASE i = 4
        <4>1. other[1] = x1 /\ other[2] = x2 /\ other[3] = x3 /\ other[4] = d /\ other[5] = x5 /\ other[6] = x6 /\ other[7] = x7
          BY <3>1, <3>6 DEF x1, x2, x3, x5, x6, x7
        <4>2. s = 7 * x1 + 9 * x2 + 10 * x3 + 5 * d + 8 * x5 + 4 * x6 + 2 * x7
          BY <4>1 DEF WeightedSum, s
        <4>3. s + 5 * x4 = t + 5 * d
          BY <1>3, <1>4, <4>2
        <4> QED
          BY <3>6, <4>3 DEF x4
      <3>7. CASE i = 5
        <4>1. other[1] = x1 /\ other[2] = x2 /\ other[3] = x3 /\ other[4] = x4 /\ other[5] = d /\ other[6] = x6 /\ other[7] = x7
          BY <3>1, <3>7 DEF x1, x2, x3, x4, x6, x7
        <4>2. s = 7 * x1 + 9 * x2 + 10 * x3 + 5 * x4 + 8 * d + 4 * x6 + 2 * x7
          BY <4>1 DEF WeightedSum, s
        <4>3. s + 8 * x5 = t + 8 * d
          BY <1>3, <1>4, <4>2
        <4> QED
          BY <3>7, <4>3 DEF x5
      <3>8. CASE i = 6
        <4>1. other[1] = x1 /\ other[2] = x2 /\ other[3] = x3 /\ other[4] = x4 /\ other[5] = x5 /\ other[6] = d /\ other[7] = x7
          BY <3>1, <3>8 DEF x1, x2, x3, x4, x5, x7
        <4>2. s = 7 * x1 + 9 * x2 + 10 * x3 + 5 * x4 + 8 * x5 + 4 * d + 2 * x7
          BY <4>1 DEF WeightedSum, s
        <4>3. s + 4 * x6 = t + 4 * d
          BY <1>3, <1>4, <4>2
        <4> QED
          BY <3>8, <4>3 DEF x6
      <3>9. CASE i = 7
        <4>1. other[1] = x1 /\ other[2] = x2 /\ other[3] = x3 /\ other[4] = x4 /\ other[5] = x5 /\ other[6] = x6 /\ other[7] = d
          BY <3>1, <3>9 DEF x1, x2, x3, x4, x5, x6
        <4>2. s = 7 * x1 + 9 * x2 + 10 * x3 + 5 * x4 + 8 * x5 + 4 * x6 + 2 * d
          BY <4>1 DEF WeightedSum, s
        <4>3. s + 2 * x7 = t + 2 * d
          BY <1>3, <1>4, <4>2
        <4> QED
          BY <3>9, <4>3 DEF x7
      <3> QED
        BY <3>3, <3>4, <3>5, <3>6, <3>7, <3>8, <3>9
    <2>5. s \in Nat /\ t \in Nat /\ id[i] \in 0..9
      <3>1. id[i] \in 0..9
        BY <1>1, ElementOfSeq
      <3> QED
        BY <2>2, <3>1, SevenDigits DEF s, t
    <2>6. s % 11 # t % 11
      BY <2>3, <2>4, <2>5, ElevenTells
    <2> QED
      BY <2>2, <2>6 DEF s, t
  <1>6. CASE other \in Ids!TwoSwapped(id)
    <2>1. PICK i \in 1..6 : other = [id EXCEPT ![i] = id[i + 1], ![i + 1] = id[i]]
      BY <1>1, <1>6 DEF Ids!TwoSwapped
    <2>2. /\ other \in BusinessNumber /\ other[i] = id[i + 1] /\ other[i + 1] = id[i]
          /\ \A j \in 1..7 : j # i /\ j # i + 1 => other[j] = id[j]
          /\ id[i] \in 0..9 /\ id[i + 1] \in 0..9
      BY <1>1, <2>1 DEF BusinessNumber, Number
    <2>3. id[i + 1] # id[i]
      <3> SUFFICES ASSUME id[i + 1] = id[i] PROVE FALSE
        OBVIOUS
      <3>1. other = id
        BY <1>1, <2>1
      <3> QED
        BY <1>1, <3>1
    <2>4. \E w \in 1..10 : \/ s + w * id[i] = t + w * id[i + 1]
                           \/ s + w * id[i + 1] = t + w * id[i]
      <3>1. CASE i = 1
        <4>1. other[1] = x2 /\ other[2] = x1 /\ other[3] = x3 /\ other[4] = x4 /\ other[5] = x5 /\ other[6] = x6 /\ other[7] = x7
          BY <2>2, <3>1 DEF x1, x2, x3, x4, x5, x6, x7
        <4>2. s = 7 * x2 + 9 * x1 + 10 * x3 + 5 * x4 + 8 * x5 + 4 * x6 + 2 * x7
          BY <4>1 DEF WeightedSum, s
        <4>3. s + 2 * x2 = t + 2 * x1
          BY <1>3, <1>4, <4>2
        <4> QED
          BY <3>1, <4>3 DEF x1, x2
      <3>2. CASE i = 2
        <4>1. other[1] = x1 /\ other[2] = x3 /\ other[3] = x2 /\ other[4] = x4 /\ other[5] = x5 /\ other[6] = x6 /\ other[7] = x7
          BY <2>2, <3>2 DEF x1, x2, x3, x4, x5, x6, x7
        <4>2. s = 7 * x1 + 9 * x3 + 10 * x2 + 5 * x4 + 8 * x5 + 4 * x6 + 2 * x7
          BY <4>1 DEF WeightedSum, s
        <4>3. s + 1 * x3 = t + 1 * x2
          BY <1>3, <1>4, <4>2
        <4> QED
          BY <3>2, <4>3 DEF x2, x3
      <3>3. CASE i = 3
        <4>1. other[1] = x1 /\ other[2] = x2 /\ other[3] = x4 /\ other[4] = x3 /\ other[5] = x5 /\ other[6] = x6 /\ other[7] = x7
          BY <2>2, <3>3 DEF x1, x2, x3, x4, x5, x6, x7
        <4>2. s = 7 * x1 + 9 * x2 + 10 * x4 + 5 * x3 + 8 * x5 + 4 * x6 + 2 * x7
          BY <4>1 DEF WeightedSum, s
        <4>3. s + 5 * x3 = t + 5 * x4
          BY <1>3, <1>4, <4>2
        <4> QED
          BY <3>3, <4>3 DEF x3, x4
      <3>4. CASE i = 4
        <4>1. other[1] = x1 /\ other[2] = x2 /\ other[3] = x3 /\ other[4] = x5 /\ other[5] = x4 /\ other[6] = x6 /\ other[7] = x7
          BY <2>2, <3>4 DEF x1, x2, x3, x4, x5, x6, x7
        <4>2. s = 7 * x1 + 9 * x2 + 10 * x3 + 5 * x5 + 8 * x4 + 4 * x6 + 2 * x7
          BY <4>1 DEF WeightedSum, s
        <4>3. s + 3 * x5 = t + 3 * x4
          BY <1>3, <1>4, <4>2
        <4> QED
          BY <3>4, <4>3 DEF x4, x5
      <3>5. CASE i = 5
        <4>1. other[1] = x1 /\ other[2] = x2 /\ other[3] = x3 /\ other[4] = x4 /\ other[5] = x6 /\ other[6] = x5 /\ other[7] = x7
          BY <2>2, <3>5 DEF x1, x2, x3, x4, x5, x6, x7
        <4>2. s = 7 * x1 + 9 * x2 + 10 * x3 + 5 * x4 + 8 * x6 + 4 * x5 + 2 * x7
          BY <4>1 DEF WeightedSum, s
        <4>3. s + 4 * x5 = t + 4 * x6
          BY <1>3, <1>4, <4>2
        <4> QED
          BY <3>5, <4>3 DEF x5, x6
      <3>6. CASE i = 6
        <4>1. other[1] = x1 /\ other[2] = x2 /\ other[3] = x3 /\ other[4] = x4 /\ other[5] = x5 /\ other[6] = x7 /\ other[7] = x6
          BY <2>2, <3>6 DEF x1, x2, x3, x4, x5, x6, x7
        <4>2. s = 7 * x1 + 9 * x2 + 10 * x3 + 5 * x4 + 8 * x5 + 4 * x7 + 2 * x6
          BY <4>1 DEF WeightedSum, s
        <4>3. s + 2 * x6 = t + 2 * x7
          BY <1>3, <1>4, <4>2
        <4> QED
          BY <3>6, <4>3 DEF x6, x7
      <3> QED
        BY <3>1, <3>2, <3>3, <3>4, <3>5, <3>6
    <2>5. s \in Nat /\ t \in Nat
      BY <2>2, SevenDigits DEF s, t
    <2>6. s % 11 # t % 11
      BY <2>2, <2>3, <2>4, <2>5, ElevenTells
    <2> QED
      BY <2>2, <2>6 DEF s, t
  <1> QED
    BY <1>5, <1>6

\* Different sums give different check digits, if they give one.
LEMMA SumDigitsDiffer ==
    ASSUME NEW id \in BusinessNumber, NEW other \in BusinessNumber,
           WeightedSum(other) % 11 # WeightedSum(id) % 11
    PROVE  SumDigit(other) # SumDigit(id)
  <1> DEFINE s == WeightedSum(other)
             t == WeightedSum(id)
  <1>1. s \in Nat /\ t \in Nat
    BY SevenDigits
  <1> HIDE DEF s, t
  <1> DEFINE a == s % 11
             b == t % 11
  <1>2. a \in 0..10 /\ b \in 0..10
    BY <1>1
  <1>3. a # b /\ SumDigit(other) = (IF a = 0 THEN 0 ELSE 11 - a) /\ SumDigit(id) = (IF b = 0 THEN 0 ELSE 11 - b)
    BY DEF SumDigit, s, t
  <1> HIDE DEF a, b
  <1> QED
    BY <1>2, <1>3

\* An id with a check digit.
WithDigit(id, d) == [id |-> id, dash |-> TRUE, sum |-> <<d>>]

\* It is accepted exactly if the digit is that of the sum.
LEMMA BusinessCheckMeans ==
    ASSUME NEW id \in BusinessNumber, NEW d
    PROVE  Ids!yTunnusCheck(WithDigit(id, d)) <=> WeightedSum(id) % 11 # 1 /\ d = SumDigit(id)
  <1> DEFINE t == WithDigit(id, d)
             c == SumDigit(id)
             legal == WeightedSum(id) % 11 # 1
  <1>1. t.id = id /\ t.dash = TRUE /\ t.sum = <<d>> /\ Len(id) = 7
    BY DEF WithDigit, BusinessNumber
  <1>2. <<d>> # <<>> /\ (<<d>> = <<c>> <=> d = c) /\ <<c>> \in {<<>>, <<c>>}
    BY SingletonByIndex
  <1>3. Ids!yTunnusWithSum(t) = IF legal /\ d = c THEN t ELSE Ids!Illegal
    <2>1. Ids!yTunnusWithSum(t) =
            IF ~legal \/ t.sum \notin {<<>>, <<c>>} THEN Ids!Illegal ELSE WithDigit(id, c)
      <3>1. id = IF Len(t.id) = 6 THEN <<0>> \o t.id ELSE t.id
        BY <1>1
      <3> HIDE DEF t
      <3> QED
        BY <3>1, WithSumIs DEF WithDigit
    <2> HIDE DEF legal, c, t
    <2> QED
      BY <1>1, <1>2, <2>1 DEF t
  <1>4. t # Ids!Illegal
    <2>1. Ids!Illegal.dash = FALSE
      BY DEF Ids!Illegal, Ids!WithoutSum
    <2> QED
      BY <1>1, <2>1
  <1> HIDE DEF legal, c, t
  <1> QED
    BY <1>1, <1>3, <1>4 DEF Ids!yTunnusCheck, Ids!yTunnusCompare, legal, c, t

\* An id whose digits, or whose check digit, are replaced.
LEMMA DigitsReplaced ==
    ASSUME NEW id, NEW other, NEW c, NEW d
    PROVE  /\ [WithDigit(id, c) EXCEPT !.id = other] = WithDigit(other, c)
           /\ [WithDigit(id, c) EXCEPT !.sum = <<d>>] = WithDigit(id, d)
  <1> DEFINE a == <<c>>
             b == <<d>>
             dash == TRUE
  <1> HIDE DEF a, b, dash
  <1>1. [[id |-> id, dash |-> dash, sum |-> a] EXCEPT !.id = other] = [id |-> other, dash |-> dash, sum |-> a]
    OBVIOUS
  <1>2. [[id |-> id, dash |-> dash, sum |-> a] EXCEPT !.sum = b] = [id |-> id, dash |-> dash, sum |-> b]
    OBVIOUS
  <1> QED
    BY <1>1, <1>2 DEF WithDigit, a, b, dash

\* Business ids that are made keep their promise.
LEMMA BusinessIdsStaySafe ==
    ASSUME digits \in Number
    PROVE  Ids!BusinessIdsAreSafe
  <1> DEFINE t == Ids!yTunnusWithSum(Ids!WithoutSum(digits))
             id == IF Len(digits) = 6 THEN <<0>> \o digits ELSE digits
             c == SumDigit(id)
  <1> SUFFICES ASSUME t # Ids!Illegal
               PROVE  /\ Ids!yTunnusCheck(t)
                      /\ \A other \in Ids!OneDigitOff(t.id) \cup Ids!TwoSwapped(t.id) :
                           ~Ids!yTunnusCheck([t EXCEPT !.id = other])
                      /\ \A d \in 0..9 : <<d>> # t.sum => ~Ids!yTunnusCheck([t EXCEPT !.sum = <<d>>])
                      /\ t.id[1] = 0 => Ids!yTunnusCompare(t, Ids!WithoutSum(Tail(t.id)))
    BY DEF Ids!BusinessIdsAreSafe
  <1>1. id \in BusinessNumber
    <2>1. id \in Number
      <3>1. <<0>> \in Seq(0..9)
        OBVIOUS
      <3> QED
        BY <3>1, ConcatProperties DEF Number
    <2>2. Len(id) = 7
      BY DEF Ids!yTunnusWithSum, Ids!WithoutSum
    <2> QED
      BY <2>1, <2>2 DEF BusinessNumber
  <1>2. /\ Ids!WithoutSum(digits).id = digits /\ Ids!WithoutSum(digits).sum = <<>>
    BY DEF Ids!WithoutSum
  <1>3. t = WithDigit(id, c) /\ WeightedSum(id) % 11 # 1
    <2>1. t = IF WeightedSum(id) % 11 = 1 \/ <<>> \notin {<<>>, <<c>>} THEN Ids!Illegal ELSE WithDigit(id, c)
      BY <1>1, <1>2, WithSumIs DEF WithDigit
    <2> HIDE DEF t, id, c
    <2> QED
      BY <2>1
  <1> HIDE DEF t, id, c
  <1>4. t.id = id /\ t.sum = <<c>> /\ t = [id |-> id, dash |-> TRUE, sum |-> <<c>>]
    BY <1>3 DEF WithDigit
  <1>5. Ids!yTunnusCheck(t)
    BY <1>1, <1>3, BusinessCheckMeans DEF c
  <1>6. ASSUME NEW other \in Ids!OneDigitOff(id) \cup Ids!TwoSwapped(id)
        PROVE  ~Ids!yTunnusCheck([t EXCEPT !.id = other])
    <2>1. other \in BusinessNumber /\ WeightedSum(other) % 11 # WeightedSum(id) % 11
      BY <1>1, BusinessSumsDiffer
    <2>2. SumDigit(other) # c
      BY <1>1, <2>1, SumDigitsDiffer DEF c
    <2>3. [t EXCEPT !.id = other] = WithDigit(other, c)
      BY <1>3, DigitsReplaced
    <2> QED
      BY <2>1, <2>2, <2>3, BusinessCheckMeans
  <1>7. ASSUME NEW d \in 0..9, <<d>> # t.sum
        PROVE  ~Ids!yTunnusCheck([t EXCEPT !.sum = <<d>>])
    <2>1. [t EXCEPT !.sum = <<d>>] = WithDigit(id, d)
      BY <1>3, DigitsReplaced
    <2>2. d # c
      BY <1>4, <1>7
    <2> QED
      BY <1>1, <2>1, <2>2, BusinessCheckMeans DEF c
  <1>8. ASSUME id[1] = 0
        PROVE  Ids!yTunnusCompare(t, Ids!WithoutSum(Tail(id)))
    <2> DEFINE short == Ids!WithoutSum(Tail(id))
    <2>1. short.id = Tail(id) /\ short.sum = <<>>
      BY DEF Ids!WithoutSum
    <2>2. /\ id \in Seq(0..9) /\ Len(id) = 7 /\ id # <<>>
      <3>1. id \in Seq(0..9) /\ Len(id) = 7
        BY <1>1 DEF BusinessNumber, Number
      <3>2. Len(<<>>) = 0
        OBVIOUS
      <3>3. id # <<>>
        <4> SUFFICES ASSUME id = <<>> PROVE FALSE
          OBVIOUS
        <4>1. Len(id) = 0
          BY <3>2
        <4> QED
          BY <3>1, <4>1
      <3> QED
        BY <3>1, <3>3
    <2>3. Tail(id) \in Seq(0..9) /\ Len(Tail(id)) = 6 /\ \A i \in 1..6 : Tail(id)[i] = id[i + 1]
      <3> DEFINE m == Len(id)
                 tail == Tail(id)
      <3>1. tail \in Seq(0..9) /\ Len(tail) = m - 1 /\ \A i \in 1..m - 1 : tail[i] = id[i + 1]
        BY <2>2, TailByIndex
      <3>2. m = 7
        BY <2>2
      <3> HIDE DEF m, tail
      <3>3. m - 1 = 6
        BY <3>2
      <3>4. tail \in Seq(0..9) /\ Len(tail) = 6 /\ \A i \in 1..6 : tail[i] = id[i + 1]
        BY <3>1, <3>3
      <3> QED
        BY <3>4 DEF tail
    <2>4. <<0>> \o Tail(id) = id
      <3> DEFINE tail == Tail(id)
                 zero == <<0>>
                 whole == zero \o tail
      <3>1. zero \in Seq(0..9) /\ Len(zero) = 1 /\ zero[1] = 0
        OBVIOUS
      <3>2. tail \in Seq(0..9) /\ Len(tail) = 6 /\ \A i \in 1..6 : tail[i] = id[i + 1]
        BY <2>3
      <3> HIDE DEF zero, tail
      <3>3. /\ whole \in Seq(0..9) /\ Len(whole) = 7 /\ whole[1] = zero[1]
            /\ \A i \in 1..6 : whole[1 + i] = tail[i]
        <4>1. /\ zero \o tail \in Seq(0..9)
              /\ Len(zero \o tail) = Len(zero) + Len(tail)
              /\ \A i \in 1..Len(zero) : (zero \o tail)[i] = zero[i]
              /\ \A i \in 1..Len(tail) : (zero \o tail)[Len(zero) + i] = tail[i]
          <5>1. zero \in Seq(0..9) /\ tail \in Seq(0..9)
            BY <3>1, <3>2
          <5> QED
            BY <5>1
        <4> HIDE DEF whole
        <4>2. /\ whole \in Seq(0..9) /\ Len(whole) = Len(zero) + Len(tail)
              /\ \A i \in 1..Len(zero) : whole[i] = zero[i]
              /\ \A i \in 1..Len(tail) : whole[Len(zero) + i] = tail[i]
          BY <4>1 DEF whole
        <4> DEFINE m == Len(zero)
                   n == Len(tail)
        <4>3. m = 1 /\ n = 6
          BY <3>1, <3>2
        <4> HIDE DEF m, n
        <4>4. 1 \in 1..m /\ m + n = 7
          BY <4>3
        <4>5. /\ whole \in Seq(0..9) /\ Len(whole) = m + n
              /\ \A i \in 1..m : whole[i] = zero[i]
              /\ \A i \in 1..n : whole[m + i] = tail[i]
          BY <4>2 DEF m, n
        <4> QED
          BY <4>3, <4>4, <4>5
      <3> HIDE DEF whole
      <3>4. \A i \in 1..7 : whole[i] = id[i]
        <4> SUFFICES ASSUME NEW i \in 1..7 PROVE whole[i] = id[i]
          OBVIOUS
        <4>1. CASE i = 1
          BY <1>8, <3>1, <3>3, <4>1
        <4>2. CASE i # 1
          <5>1. i - 1 \in 1..6 /\ 1 + (i - 1) = i /\ (i - 1) + 1 = i
            BY <4>2
          <5> QED
            BY <3>2, <3>3, <5>1
        <4> QED
          BY <4>1, <4>2
      <3>5. whole = id
        BY <2>2, <3>3, <3>4
      <3> QED
        BY <3>5 DEF whole, zero, tail
    <2>5. id = IF Len(short.id) = 6 THEN <<0>> \o short.id ELSE short.id
      BY <2>1, <2>3, <2>4
    <2> HIDE DEF short
    <2>6. Ids!yTunnusWithSum(short) = t
      <3>1. Ids!yTunnusWithSum(short) =
              IF WeightedSum(id) % 11 = 1 \/ short.sum \notin {<<>>, <<c>>} THEN Ids!Illegal ELSE WithDigit(id, c)
        BY <1>1, <2>5, WithSumIs DEF WithDigit, c
      <3> QED
        BY <1>3, <2>1, <3>1
    <2>7. Ids!yTunnusWithSum(t) = t
      <3>1. id = IF Len(t.id) = 6 THEN <<0>> \o t.id ELSE t.id
        BY <1>4, <2>2
      <3>2. Ids!yTunnusWithSum(t) =
              IF WeightedSum(id) % 11 = 1 \/ t.sum \notin {<<>>, <<c>>} THEN Ids!Illegal ELSE WithDigit(id, c)
        BY <1>1, <3>1, WithSumIs DEF WithDigit, c
      <3> QED
        BY <1>3, <1>4, <3>2
    <2> QED
      BY <2>6, <2>7 DEF Ids!yTunnusCompare, short
  <1> QED
    BY <1>4, <1>5, <1>6, <1>7, <1>8

\* Whatever number is typed: what is made of it is accepted, also with a space or
\* without a leading zero; with a digit off, or two digits of a business id swapped,
\* it is not.
THEOREM DigitErrorsAreAlwaysDetected == Ids!IdsSpec => []DigitErrorsAreDetected
  <1>1. Ids!Init => digits \in Number
    BY DEF Ids!Init, Number
  <1>2. digits \in Number /\ [Ids!Next]_digits => (digits \in Number)'
    BY DigitAssumption, AppendProperties DEF Ids!Next, Ids!Type, Number
  <1>3. digits \in Number => DigitErrorsAreDetected
    BY ReferencesAreSafe, BusinessIdsStaySafe DEF DigitErrorsAreDetected
  <1> QED
    BY <1>1, <1>2, <1>3, PTL DEF Ids!IdsSpec
==============================================================================
