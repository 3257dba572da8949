------------------------ MODULE IdentityStorageProofs ------------------------
(***************************************************************************)
(* Proofs about IdentityStorage, for any identities, gateways and values,    *)
(* any number of processes with any programs, and any number of restarts.    *)
(*                                                                         *)
(* IInv has three parts besides the types:                                   *)
(*  - OneUnderWay: as long as the network has duplicated nothing, a process   *)
(*    has at most one datagram under way, its current query or the answer to  *)
(*    it, and none unless it waits or has failed;                            *)
(*  - Progress: what is answered, and what the process has left behind, has   *)
(*    been handled;                                                         *)
(*  - StoreInv: how the stores and the file follow what was asked for.       *)
(***************************************************************************)
EXTENDS IdentityStorage, TLAPS

\* The handler of a request is at work on it.
atWork == server \in {"handling", "answering"}

requestOf(p) == [from |-> p, pos |-> pos[p], query |-> program[p][pos[p]],
                 granted |-> granted[p]]
answerTo(p) == [from |-> p, pos |-> pos[p]]

asked(p) == \E r \in requests : r.from = p
inHand(p) == atWork /\ current.from = p
answered(p) == \E a \in answers : a.from = p

OneUnderWay ==
    \A p \in Processes :
        /\ ~(asked(p) /\ inHand(p))
        /\ ~(asked(p) /\ answered(p))
        /\ ~(inHand(p) /\ answered(p))
        /\ pc[p] \notin {"wait", "error"} =>
                ~asked(p) /\ ~inHand(p) /\ ~answered(p)
        /\ \A r \in requests : r.from = p => r = requestOf(p)
        /\ inHand(p) => current = requestOf(p)
        /\ \A a \in answers : a.from = p => a = answerTo(p)

Progress ==
    /\ \A a \in answers : granted[a.from] => a \in applied
    /\ server = "answering" /\ granted[current.from] =>
            [from |-> current.from, pos |-> current.pos] \in applied
    /\ \A p \in Processes : granted[p] =>
            \A i \in 1..(pos[p] - 1) : [from |-> p, pos |-> i] \in applied

\* Where a process is in its program.
PosInv ==
    /\ pos \in [Processes -> Nat \ {0}]
    /\ \A p \in Processes :
            /\ pc[p] \in {"new", "send", "wait"} => pos[p] <= Len(program[p])
            /\ pc[p] = "ok" => pos[p] = Len(program[p]) + 1

\* A store holds what was asked for, but for some identities.
holds(contents, but) ==
    \A k \in Identities \ but : sameIdentity(contents[k], wanted[k])

StoreInv ==
    /\ server = "down" => unsaved = {}
    /\ store = "json" =>
        /\ server = "saving" => disk = Torn
        /\ server # "down" => holds(memory, lost)
        /\ server # "saving" => holds(load, lost \cup unsaved)

IInv ==
    /\ TypeOK
    /\ atWork => current \in Requests
    /\ PosInv
    /\ duplicates = 0 => OneUnderWay /\ Progress
    /\ StoreInv

----------------------------------------------------------------------------
(* Types                                                                    *)

\* The queries of a process.
LEMMA ProgramTyped ==
    ASSUME TypeOK, NEW p \in Processes
    PROVE  /\ Len(program[p]) \in Nat \ {0}
           /\ \A i \in 1..Len(program[p]) : program[p][i] \in Queries
<1>1. program[p] \in Programs
  BY DEF TypeOK
<1>2. program[p] \in Seq(Queries) /\ program[p] # <<>>
  BY <1>1, StorageAssumption
<1> QED
  BY <1>2

\* What a process asks.
LEMMA RequestTyped ==
    ASSUME TypeOK, PosInv, NEW p \in Processes, pc[p] \in {"new", "send", "wait"}
    PROVE  requestOf(p) \in Requests
<1>1. pos[p] \in 1..Len(program[p])
  BY ProgramTyped DEF PosInv
<1>2. program[p][pos[p]] \in Queries
  BY <1>1, ProgramTyped
<1>3. granted[p] \in BOOLEAN /\ pos[p] \in Nat \ {0}
  BY DEF TypeOK, PosInv
<1> QED
  BY <1>2, <1>3 DEF requestOf, Requests

\* A query that is carried out leaves the store a store.
LEMMA AssignedTyped ==
    ASSUME NEW contents \in Contents, NEW q \in Queries
    PROVE  assigned(contents, q) \in Contents
<1>1. q.key \in Keys /\ (q.op # "get" => q.value \in Values \cup {None})
  BY DEF Queries
<1> QED
  BY <1>1 DEF assigned, Contents

LEMMA StoresTyped ==
    ASSUME TypeOK
    PROVE  Empty \in Contents /\ load \in Contents /\ written \in Contents
<1>1. Empty \in Contents
  BY DEF Empty, Contents
<1>2. load \in Contents
  BY <1>1 DEF load, TypeOK
<1>3. written \in Contents
  <2>1. ASSUME NEW k \in Keys, k \notin Gateways, memory[k] # None
        PROVE  [memory[k] EXCEPT !.region = 0] \in Values
    BY <2>1, StorageAssumption DEF TypeOK, Contents
  <2> QED
    BY <2>1 DEF written, Contents
<1> QED
  BY <1>1, <1>2, <1>3

Typed ==
    /\ TypeOK
    /\ atWork => current \in Requests
    /\ PosInv

\* The steps of a process.
LEMMA ProcessTyped ==
    ASSUME Typed, NEW p \in Processes,
           start(p) \/ send(p) \/ fail(p) \/ receive(p)
    PROVE  Typed'
<1> USE DEF Typed, networkVars, storeVars, historyVars
<1>1. CASE start(p)
  <2>1. pc' = [pc EXCEPT ![p] = "send"] /\ pc[p] = "new"
    BY <1>1 DEF start, processGoes
  <2>2. TypeOK'
    BY <1>1, <2>1 DEF start, TypeOK
  <2> QED
    BY <1>1, <2>1, <2>2 DEF start, TypeOK, PosInv, atWork
<1>2. CASE send(p)
  <2>1. pc' = [pc EXCEPT ![p] = "wait"] /\ pc[p] = "send"
    BY <1>2 DEF send, processGoes
  <2>2. requests' \subseteq Requests
    BY <1>2, <2>1, RequestTyped DEF send, TypeOK, requestOf
  <2>3. TypeOK'
    BY <1>2, <2>1, <2>2 DEF send, TypeOK
  <2> QED
    BY <1>2, <2>1, <2>3 DEF send, TypeOK, PosInv, atWork
<1>3. CASE fail(p)
  <2>1. pc' = [pc EXCEPT ![p] = "error"]
    BY <1>3 DEF fail, processGoes
  <2>2. TypeOK'
    BY <1>3, <2>1 DEF fail, TypeOK
  <2> QED
    BY <1>3, <2>1, <2>2 DEF fail, TypeOK, PosInv, atWork
<1>4. CASE receive(p)
  <2> DEFINE next == IF pos[p] = Len(program[p]) THEN "ok" ELSE "send"
  <2>1. /\ pc' = [pc EXCEPT ![p] = next] /\ pc[p] = "wait"
        /\ pos' = [pos EXCEPT ![p] = @ + 1]
        /\ answers' \subseteq answers
        /\ duplicates' \in {duplicates, duplicates + 1}
        /\ duplicates' = duplicates \/ duplicates < MaxDuplicates
        /\ UNCHANGED <<program, granted, requests, server, current, storeVars,
                       starts, historyVars>>
    BY <1>4 DEF receive, processGoes, taken
  <2>2. duplicates' \in 0..MaxDuplicates
    BY <2>1, StorageAssumption DEF TypeOK
  <2>3. \A q \in Processes : Len(program[q]) \in Nat
    BY ProgramTyped
  <2>4. PosInv'
    BY <2>1, <2>3 DEF PosInv, TypeOK
  <2>5. \A q \in Processes : pos'[q] \in 1..(Len(program[q]) + 1)
    BY <2>1, <2>3 DEF PosInv, TypeOK
  <2>6. TypeOK'
    BY <2>1, <2>2, <2>5 DEF TypeOK
  <2> QED
    BY <2>1, <2>4, <2>6 DEF atWork
<1> QED
  BY <1>1, <1>2, <1>3, <1>4

\* The steps of the network and the service.
LEMMA ServiceTyped ==
    ASSUME Typed,
           lose \/ startServer \/ receiveRequest \/ handle \/ answer
                \/ interrupt \/ interruptChange \/ save \/ crash
    PROVE  Typed'
<1> USE DEF Typed, processVars, networkVars, storeVars, historyVars
<1>1. CASE lose
  <2>1. requests' \subseteq requests /\ answers' \subseteq answers
    BY <1>1 DEF lose
  <2> QED
    BY <1>1, <2>1 DEF lose, TypeOK, PosInv, atWork
<1>2. CASE startServer
  <2>1. memory' \in Contents
    BY <1>2, StoresTyped DEF startServer
  <2>2. starts' \in 0..MaxStarts
    BY <1>2, StorageAssumption DEF startServer, TypeOK
  <2> QED
    BY <1>2, <2>1, <2>2 DEF startServer, TypeOK, PosInv, atWork
<1>3. CASE receiveRequest
  <2>1. PICK r \in requests : /\ current' = r
                              /\ taken(requests, r)
                              /\ server' = "handling"
                              /\ UNCHANGED <<processVars, answers, storeVars,
                                             starts, historyVars>>
    BY <1>3 DEF receiveRequest
  <2>2. requests' \subseteq requests /\ current' \in Requests
    BY <2>1 DEF taken, TypeOK
  <2>3. duplicates' \in 0..MaxDuplicates
    BY <2>1, StorageAssumption DEF taken, TypeOK
  <2>4. TypeOK'
    BY <2>1, <2>2, <2>3 DEF TypeOK
  <2> QED
    BY <2>1, <2>2, <2>4 DEF PosInv, atWork
<1>4. CASE handle
  <2>1. current \in Requests /\ current.query \in Queries
    BY <1>4 DEF handle, atWork, Requests
  <2>2. memory' \in Contents /\ wanted' \in Contents
    BY <1>4, <2>1, AssignedTyped DEF handle, TypeOK
  <2>5. unsaved' \subseteq Identities /\ lost' \subseteq Identities
    BY <1>4 DEF handle, changes, TypeOK
  <2>3. applied' \subseteq Answers
    BY <1>4, <2>1 DEF handle, TypeOK, Requests, Answers
  <2>4. TypeOK'
    BY <1>4, <2>2, <2>3, <2>5 DEF handle, TypeOK
  <2> QED
    BY <1>4, <2>1, <2>4 DEF handle, PosInv, atWork
<1>5. CASE answer
  <2>1. current \in Requests
    BY <1>5 DEF answer, atWork
  <2>2. answers' \subseteq Answers
    BY <1>5, <2>1 DEF answer, TypeOK, Requests, Answers
  <2> QED
    BY <1>5, <2>2 DEF answer, TypeOK, PosInv, atWork
<1>6. CASE interrupt
  BY <1>6 DEF interrupt, TypeOK, PosInv, atWork
<1>7. CASE interruptChange
  <2>1. current \in Requests /\ current.query \in Queries
    BY <1>7 DEF interruptChange, atWork, Requests
  <2>2. PICK half \in Values \cup {None}, missed \in SUBSET Identities :
            memory' = [k \in Keys |-> IF k = current.query.key THEN half
                                     ELSE IF k \in missed THEN None
                                     ELSE memory[k]]
    BY <1>7 DEF interruptChange, changes
  <2>3. memory' \in Contents
    BY <2>2 DEF TypeOK, Contents
  <2>4. lost' \subseteq Identities
    BY <1>7 DEF interruptChange, changes, TypeOK
  <2>5. TypeOK'
    BY <1>7, <2>3, <2>4 DEF interruptChange, TypeOK
  <2> QED
    BY <1>7, <2>5 DEF interruptChange, PosInv, atWork
<1>8. CASE save
  <2>1. disk' \in Contents \cup {Torn}
    BY <1>8, StoresTyped DEF save, TypeOK
  <2>2. TypeOK'
    BY <1>8, <2>1 DEF save, TypeOK
  <2> QED
    BY <1>8, <2>2 DEF save, PosInv, atWork
<1>9. CASE crash
  BY <1>9 DEF crash, TypeOK, PosInv, atWork
<1> QED
  BY <1>1, <1>2, <1>3, <1>4, <1>5, <1>6, <1>7, <1>8, <1>9

----------------------------------------------------------------------------
(* Queries and answers                                                      *)

NetInv == duplicates = 0 => OneUnderWay /\ Progress

netVars == <<program, granted, pos, requests, answers, duplicates, applied>>

\* What is under way does not grow when the service stops, loses or saves.
LEMMA NetShrinks ==
    ASSUME NetInv, UNCHANGED <<pc, program, granted, pos, duplicates, applied>>,
           requests' \subseteq requests, answers' \subseteq answers,
           atWork' => server' = server /\ current' = current
    PROVE  NetInv'
<1> SUFFICES ASSUME OneUnderWay, Progress, duplicates' = 0
             PROVE  OneUnderWay' /\ Progress'
  BY DEF NetInv
<1>1. OneUnderWay'
  <2> SUFFICES ASSUME NEW p \in Processes
               PROVE  /\ ~(asked(p) /\ inHand(p))'
                      /\ ~(asked(p) /\ answered(p))'
                      /\ ~(inHand(p) /\ answered(p))'
                      /\ pc'[p] \notin {"wait", "error"} =>
                            ~asked(p)' /\ ~inHand(p)' /\ ~answered(p)'
                      /\ \A r \in requests' : r.from = p => r = requestOf(p)'
                      /\ inHand(p)' => current' = requestOf(p)'
                      /\ \A a \in answers' : a.from = p => a = answerTo(p)'
    BY DEF OneUnderWay
  <2>1. asked(p)' => asked(p)
    BY DEF asked
  <2>2. answered(p)' => answered(p)
    BY DEF answered
  <2>3. inHand(p)' => inHand(p) /\ current' = current
    BY DEF inHand, atWork
  <2>4. requestOf(p)' = requestOf(p) /\ answerTo(p)' = answerTo(p)
    BY DEF requestOf, answerTo
  <2> QED
    BY <2>1, <2>2, <2>3, <2>4 DEF OneUnderWay
<1>2. Progress'
  BY DEF Progress, atWork
<1> QED
  BY <1>1, <1>2

\* A process that starts, fails or asks.
LEMMA ProcessNet ==
    ASSUME Typed, NetInv, NEW p \in Processes,
           start(p) \/ send(p) \/ fail(p)
    PROVE  NetInv'
<1> USE DEF networkVars, storeVars, historyVars
<1> SUFFICES ASSUME OneUnderWay, Progress, duplicates' = 0
             PROVE  OneUnderWay' /\ Progress'
  BY DEF NetInv, start, send, fail
<1> DEFINE label == IF start(p) THEN "send" ELSE IF send(p) THEN "wait" ELSE "error"
           new == IF send(p) THEN {requestOf(p)} ELSE {}
<1>1. /\ pc' = [pc EXCEPT ![p] = label] /\ requests' = requests \cup new
      /\ UNCHANGED <<program, granted, pos, answers, duplicates, server, current,
                     applied>>
      /\ send(p) => pc[p] = "send" /\ label = "wait"
      /\ ~start(p) => label \in {"wait", "error"}
      /\ start(p) => pc[p] = "new" /\ ~send(p)
  BY DEF start, send, fail, processGoes, requestOf
<1>2. pc \in [Processes -> {"new", "send", "wait", "ok", "error"}]
  BY DEF Typed, TypeOK
<1>3. requestOf(p).from = p
  BY DEF requestOf
<1> HIDE DEF label, new
<1>4. \A q \in Processes : /\ requestOf(q)' = requestOf(q)
                           /\ answerTo(q)' = answerTo(q)
                           /\ inHand(q)' = inHand(q) /\ answered(q)' = answered(q)
  BY <1>1 DEF requestOf, answerTo, inHand, atWork, answered
<1>5. OneUnderWay'
  <2> SUFFICES ASSUME NEW q \in Processes
               PROVE  /\ ~(asked(q)' /\ inHand(q))
                      /\ ~(asked(q)' /\ answered(q))
                      /\ ~(inHand(q) /\ answered(q))
                      /\ pc'[q] \notin {"wait", "error"} =>
                            ~asked(q)' /\ ~inHand(q) /\ ~answered(q)
                      /\ \A r \in requests' : r.from = q => r = requestOf(q)
                      /\ inHand(q) => current = requestOf(q)
                      /\ \A a \in answers : a.from = q => a = answerTo(q)
    BY <1>1, <1>4 DEF OneUnderWay
  <2>1. CASE q # p
    <3>1. asked(q)' = asked(q) /\ pc'[q] = pc[q]
      BY <1>1, <1>2, <1>3, <2>1 DEF asked, new
    <3>2. \A r \in requests' : r.from = q => r \in requests
      BY <1>1, <1>3, <2>1 DEF new
    <3> QED
      BY <3>1, <3>2 DEF OneUnderWay
  <2>2. CASE q = p /\ send(p)
    <3>1. ~asked(p) /\ ~inHand(p) /\ ~answered(p)
      BY <1>1, <2>2 DEF OneUnderWay
    <3>2. requests' = requests \cup {requestOf(p)} /\ pc'[p] = "wait"
      BY <1>1, <1>2, <2>2 DEF new
    <3> QED
      BY <2>2, <3>1, <3>2 DEF OneUnderWay, asked
  <2>3. CASE q = p /\ ~send(p)
    <3>1. requests' = requests /\ asked(p)' = asked(p)
      BY <1>1, <2>3 DEF new, asked
    <3>2. pc'[p] \notin {"wait", "error"} => pc[p] = "new"
      BY <1>1, <1>2
    <3> QED
      BY <2>3, <3>1, <3>2 DEF OneUnderWay
  <2> QED
    BY <2>1, <2>2, <2>3
<1>6. Progress'
  BY <1>1 DEF Progress
<1> QED
  BY <1>5, <1>6

\* An answer is for the current query, so the next one may be sent.
LEMMA ReceiveNet ==
    ASSUME Typed, NetInv, NEW p \in Processes, receive(p)
    PROVE  NetInv'
<1> USE DEF storeVars, historyVars
<1> SUFFICES ASSUME duplicates' = 0
             PROVE  OneUnderWay' /\ Progress'
  BY DEF NetInv
<1> DEFINE next == IF pos[p] = Len(program[p]) THEN "ok" ELSE "send"
<1>1. PICK a \in answers : /\ a.from = p
                           /\ processGoes(p, "wait", next)
                           /\ pos' = [pos EXCEPT ![p] = @ + 1]
                           /\ taken(answers, a)
                           /\ UNCHANGED <<program, granted, requests, server,
                                          current, storeVars, starts, historyVars>>
  BY DEF receive
<1>2. pc[p] = "wait" /\ pc' = [pc EXCEPT ![p] = next]
  BY <1>1 DEF processGoes
<1>3. duplicates \in Nat
  BY StorageAssumption DEF Typed, TypeOK
<1>4. duplicates = 0 /\ answers' = answers \ {a}
  BY <1>1, <1>3 DEF taken
<1>5. OneUnderWay /\ Progress
  BY <1>4 DEF NetInv
<1>6. /\ pos \in [Processes -> Nat \ {0}]
      /\ pc \in [Processes -> {"new", "send", "wait", "ok", "error"}]
  BY DEF Typed, TypeOK, PosInv
<1>7. a = answerTo(p) /\ ~asked(p) /\ ~inHand(p) /\ answered(p)
  BY <1>1, <1>5 DEF OneUnderWay, answered
<1>8. ~asked(p)' /\ ~inHand(p)' /\ ~answered(p)'
  BY <1>1, <1>4, <1>5, <1>7 DEF OneUnderWay, asked, inHand, atWork, answered
<1>9. OneUnderWay'
  <2> SUFFICES ASSUME NEW q \in Processes
               PROVE  /\ ~(asked(q) /\ inHand(q))'
                      /\ ~(asked(q) /\ answered(q))'
                      /\ ~(inHand(q) /\ answered(q))'
                      /\ pc'[q] \notin {"wait", "error"} =>
                            ~asked(q)' /\ ~inHand(q)' /\ ~answered(q)'
                      /\ \A r \in requests' : r.from = q => r = requestOf(q)'
                      /\ inHand(q)' => current' = requestOf(q)'
                      /\ \A b \in answers' : b.from = q => b = answerTo(q)'
    BY DEF OneUnderWay
  <2>1. CASE q = p
    BY <1>8, <2>1 DEF asked, answered
  <2>2. CASE q # p
    <3>1. /\ asked(q)' = asked(q) /\ inHand(q)' = inHand(q)
          /\ requestOf(q)' = requestOf(q) /\ answerTo(q)' = answerTo(q)
          /\ pc'[q] = pc[q]
      BY <1>1, <1>2, <1>6, <2>2
         DEF asked, inHand, atWork, requestOf, answerTo
    <3>2. answered(q)' => answered(q)
      BY <1>4 DEF answered
    <3> QED
      BY <1>1, <1>4, <1>5, <3>1, <3>2 DEF OneUnderWay
  <2> QED
    BY <2>1, <2>2
<1>10. Progress'
  <2>1. granted[p] => [from |-> p, pos |-> pos[p]] \in applied
    BY <1>1, <1>5, <1>7 DEF Progress, answerTo
  <2>2. ASSUME NEW q \in Processes, granted[q], NEW i \in 1..(pos'[q] - 1)
        PROVE  [from |-> q, pos |-> i] \in applied
    <3>1. i \in 1..(pos[q] - 1) \/ (q = p /\ i = pos[p])
      BY <1>1, <1>6
    <3> QED
      BY <1>5, <2>1, <2>2, <3>1 DEF Progress
  <2> QED
    BY <1>1, <1>4, <1>5, <2>2 DEF Progress
<1> QED
  BY <1>9, <1>10

\* The service takes a request, handles it and answers it.
LEMMA ServiceNet ==
    ASSUME Typed, NetInv, receiveRequest \/ handle \/ answer
    PROVE  NetInv'
<1> USE DEF processVars, networkVars, storeVars, historyVars
<1>1. duplicates \in Nat
  BY StorageAssumption DEF Typed, TypeOK
<1>2. CASE receiveRequest
  <2> SUFFICES ASSUME duplicates' = 0
               PROVE  OneUnderWay' /\ Progress'
    BY DEF NetInv
  <2>1. PICK r \in requests : /\ server = "up" /\ server' = "handling"
                              /\ current' = r
                              /\ taken(requests, r)
                              /\ UNCHANGED <<processVars, answers, storeVars,
                                             starts, historyVars>>
    BY <1>2 DEF receiveRequest
  <2>2. duplicates = 0 /\ requests' = requests \ {r}
    BY <1>1, <2>1 DEF taken
  <2>3. OneUnderWay /\ Progress
    BY <2>2 DEF NetInv
  <2>4. OneUnderWay'
    <3> SUFFICES ASSUME NEW p \in Processes
                 PROVE  /\ ~(asked(p) /\ inHand(p))'
                        /\ ~(asked(p) /\ answered(p))'
                        /\ ~(inHand(p) /\ answered(p))'
                        /\ pc'[p] \notin {"wait", "error"} =>
                              ~asked(p)' /\ ~inHand(p)' /\ ~answered(p)'
                        /\ \A q \in requests' : q.from = p => q = requestOf(p)'
                        /\ inHand(p)' => current' = requestOf(p)'
                        /\ \A a \in answers' : a.from = p => a = answerTo(p)'
      BY DEF OneUnderWay
    <3>1. /\ requestOf(p)' = requestOf(p) /\ answerTo(p)' = answerTo(p)
          /\ answered(p)' = answered(p) /\ pc' = pc
      BY <2>1 DEF requestOf, answerTo, answered
    <3>2. asked(p)' => asked(p)
      BY <2>2 DEF asked
    <3>3. CASE r.from = p
      <4>1. asked(p) /\ r = requestOf(p)
        BY <2>3, <3>3 DEF OneUnderWay, asked
      <4>2. ~asked(p)'
        BY <2>2, <2>3, <4>1 DEF OneUnderWay, asked
      <4> QED
        BY <2>1, <2>2, <2>3, <3>1, <4>1, <4>2 DEF OneUnderWay
    <3>4. CASE r.from # p
      <4>1. ~inHand(p)'
        BY <2>1, <3>4 DEF inHand
      <4> QED
        BY <2>1, <2>2, <2>3, <3>1, <3>2, <4>1 DEF OneUnderWay
    <3> QED
      BY <3>3, <3>4
  <2>5. Progress'
    BY <2>1, <2>3 DEF Progress
  <2> QED
    BY <2>4, <2>5
<1>3. CASE handle
  <2> SUFFICES ASSUME duplicates' = 0
               PROVE  OneUnderWay' /\ Progress'
    BY DEF NetInv
  <2>1. OneUnderWay /\ Progress
    BY <1>3 DEF NetInv, handle
  <2>2. /\ server = "handling" /\ server' = "answering"
        /\ UNCHANGED <<processVars, networkVars, current>>
        /\ applied \subseteq applied'
        /\ current.granted =>
                [from |-> current.from, pos |-> current.pos] \in applied'
    BY <1>3 DEF handle
  <2>3. OneUnderWay'
    BY <2>1, <2>2
       DEF OneUnderWay, asked, inHand, atWork, answered, requestOf, answerTo
  <2>4. current.granted = granted[current.from]
    <3>1. current \in Requests
      BY <2>2 DEF Typed, atWork
    <3>2. current.from \in Processes
      BY <3>1 DEF Requests
    <3>3. inHand(current.from)
      BY <2>2 DEF inHand, atWork
    <3>4. current = requestOf(current.from)
      BY <2>1, <3>2, <3>3 DEF OneUnderWay
    <3> QED
      BY <3>4 DEF requestOf
  <2>5. Progress'
    BY <2>1, <2>2, <2>4 DEF Progress
  <2> QED
    BY <2>3, <2>5
<1>4. CASE answer
  <2> DEFINE new == [from |-> current.from, pos |-> current.pos]
  <2> SUFFICES ASSUME duplicates' = 0
               PROVE  OneUnderWay' /\ Progress'
    BY DEF NetInv
  <2>1. OneUnderWay /\ Progress
    BY <1>4 DEF NetInv, answer
  <2>2. /\ server = "answering" /\ server' = "up"
        /\ answers' = answers \cup {new}
        /\ UNCHANGED <<processVars, requests, duplicates, applied>>
    BY <1>4 DEF answer
  <2>3. new.from = current.from
    OBVIOUS
  <2> HIDE DEF new
  <2>4. OneUnderWay'
    <3> SUFFICES ASSUME NEW p \in Processes
                 PROVE  /\ ~(asked(p) /\ inHand(p))'
                        /\ ~(asked(p) /\ answered(p))'
                        /\ ~(inHand(p) /\ answered(p))'
                        /\ pc'[p] \notin {"wait", "error"} =>
                              ~asked(p)' /\ ~inHand(p)' /\ ~answered(p)'
                        /\ \A q \in requests' : q.from = p => q = requestOf(p)'
                        /\ inHand(p)' => current' = requestOf(p)'
                        /\ \A a \in answers' : a.from = p => a = answerTo(p)'
      BY DEF OneUnderWay
    <3>1. /\ requestOf(p)' = requestOf(p) /\ answerTo(p)' = answerTo(p)
          /\ asked(p)' = asked(p) /\ pc' = pc /\ ~inHand(p)'
      BY <2>2 DEF requestOf, answerTo, asked, inHand, atWork
    <3>2. CASE current.from = p
      <4>1. inHand(p)
        BY <2>2, <3>2 DEF inHand, atWork
      <4>2. new = answerTo(p)
        BY <2>1, <4>1 DEF OneUnderWay, requestOf, answerTo, new
      <4> QED
        BY <2>1, <2>2, <3>1, <4>1, <4>2 DEF OneUnderWay
    <3>3. CASE current.from # p
      <4>1. answered(p)' = answered(p)
        BY <2>2, <2>3, <3>3 DEF answered
      <4> QED
        BY <2>1, <2>2, <2>3, <3>1, <3>3, <4>1 DEF OneUnderWay
    <3> QED
      BY <3>2, <3>3
  <2>5. Progress'
    BY <2>1, <2>2, <2>3 DEF Progress, new
  <2> QED
    BY <2>4, <2>5
<1> QED
  BY <1>2, <1>3, <1>4

\* Losses, restarts, stops and crashes.
LEMMA FaultNet ==
    ASSUME Typed, NetInv,
           lose \/ startServer \/ interrupt \/ interruptChange \/ save \/ crash
    PROVE  NetInv'
<1>1. /\ requests' \subseteq requests /\ answers' \subseteq answers
      /\ UNCHANGED <<pc, program, granted, pos, duplicates, applied>>
      /\ atWork' => server' = server /\ current' = current
  BY DEF lose, startServer, interrupt, interruptChange, save, crash, processVars, networkVars,
         storeVars, historyVars, atWork
<1> QED
  BY <1>1, NetShrinks

----------------------------------------------------------------------------
(* The stores and the file                                                  *)

\* A query carried out on the store and on what is wanted: the identity it changes
\* is not lost any more.
LEMMA HandleHolds ==
    ASSUME NEW q \in Queries, memory \in Contents, wanted \in Contents,
           memory' = assigned(memory, q), wanted' = assigned(wanted, q),
           lost' = lost \ (IF changes(q) THEN {q.key} ELSE {}),
           holds(memory, lost)
    PROVE  holds(memory, lost)'
<1> SUFFICES ASSUME NEW k \in Identities \ lost'
             PROVE  sameIdentity(memory'[k], wanted'[k])
  BY DEF holds
<1>1. k \in Keys
  BY DEF Keys
<1>2. CASE changes(q) /\ k = q.key
  BY <1>1, <1>2 DEF changes, assigned, Contents, sameIdentity
<1>3. CASE ~(changes(q) /\ k = q.key)
  <2>1. k \notin lost
    BY <1>3
  <2>2. memory'[k] = memory[k] /\ wanted'[k] = wanted[k]
    BY <1>1, <1>3 DEF changes, assigned, Contents
  <2> QED
    BY <2>1, <2>2 DEF holds
<1> QED
  BY <1>2, <1>3

\* What was saved before still holds, but for the identity that was changed.
LEMMA HandleLoads ==
    ASSUME NEW q \in Queries, NEW contents, wanted \in Contents,
           wanted' = assigned(wanted, q) \/ UNCHANGED wanted,
           changes(q) /\ wanted' # wanted => q.key \in unsaved',
           lost \cup unsaved \subseteq lost' \cup unsaved',
           holds(contents, lost \cup unsaved)
    PROVE  \A k \in Identities \ (lost' \cup unsaved') :
                sameIdentity(contents[k], wanted'[k])
<1> SUFFICES ASSUME NEW k \in Identities \ (lost' \cup unsaved')
             PROVE  sameIdentity(contents[k], wanted'[k])
  OBVIOUS
<1>1. k \in Keys /\ sameIdentity(contents[k], wanted[k])
  BY DEF Keys, holds
<1>2. wanted'[k] = wanted[k]
  BY <1>1 DEF changes, assigned, Contents
<1> QED
  BY <1>1, <1>2

\* What is written holds what the memory held.
LEMMA WrittenHolds ==
    ASSUME TypeOK, holds(memory, lost)
    PROVE  holds(written, lost)
<1> SUFFICES ASSUME NEW k \in Identities \ lost
             PROVE  sameIdentity(written[k], wanted[k])
  BY DEF holds
<1>1. k \in Keys /\ k \notin Gateways
  BY StorageAssumption DEF Keys
<1>2. sameIdentity(memory[k], wanted[k])
  BY DEF holds
<1>3. CASE memory[k] = None
  BY <1>1, <1>2, <1>3 DEF written
<1>4. CASE memory[k] # None
  <2>1. memory[k] \in Values
    BY <1>1, <1>4 DEF TypeOK, Contents
  <2> DEFINE w == [memory[k] EXCEPT !.region = 0]
  <2>2. written[k] = w
    BY <1>1, <1>4 DEF written
  <2>3. w \in Values /\ w.id = memory[k].id
    BY <2>1, StorageAssumption
  <2>4. w # None
    BY <2>3, StorageAssumption
  <2> HIDE DEF w
  <2> QED
    BY <1>2, <1>4, <2>2, <2>3, <2>4 DEF sameIdentity
<1> QED
  BY <1>3, <1>4

LEMMA StoreStep ==
    ASSUME Typed, StoreInv, Next
    PROVE  StoreInv'
<1> USE DEF processVars, networkVars, storeVars, historyVars
<1>1. /\ memory \in Contents /\ wanted \in Contents /\ store \in {"json", "stub"}
      /\ lost \subseteq Identities /\ unsaved \subseteq Identities
  BY StorageAssumption DEF Typed, TypeOK
<1>2. ASSUME UNCHANGED <<store, memory, disk, wanted, unsaved, lost>>,
             (server' = "down" <=> server = "down"),
             (server' = "saving" <=> server = "saving")
      PROVE  StoreInv'
  <2>1. load' = load
    BY <1>2 DEF load, Empty
  <2> QED
    BY <1>2, <2>1 DEF StoreInv, holds
<1>3. ASSUME NEW p, start(p) \/ send(p) \/ fail(p) \/ receive(p)
      PROVE  StoreInv'
  BY <1>2, <1>3 DEF start, send, fail, receive
<1>4. CASE lose \/ receiveRequest \/ answer
  BY <1>2, <1>4 DEF lose, receiveRequest, answer
<1>5. CASE startServer
  <2>1. /\ server = "down" /\ server' = "up"
        /\ memory' = IF store = "json" THEN load ELSE Empty
        /\ UNCHANGED <<store, disk, wanted, unsaved, lost>>
    BY <1>5 DEF startServer
  <2>2. load' = load
    BY <2>1 DEF load, Empty
  <2> QED
    BY <2>1, <2>2 DEF StoreInv, holds
<1>6. CASE handle
  <2> DEFINE q == current.query
  <2>1. q \in Queries
    BY <1>6 DEF handle, Typed, atWork, Requests
  <2>2. /\ server = "handling" /\ server' = "answering"
        /\ UNCHANGED <<store, disk>>
    BY <1>6 DEF handle
  <2>3. load' = load
    BY <2>2 DEF load, Empty
  <2>4. CASE UNCHANGED <<memory, historyVars>>
    BY <1>2, <2>2, <2>4
  <2>5. CASE current.granted
    <3>1. /\ memory' = IF store = "stub" /\ q.key \in Identities THEN memory
                      ELSE assigned(memory, q)
          /\ wanted' = assigned(wanted, q)
          /\ unsaved' = unsaved \cup (IF changes(q) THEN {q.key} ELSE {})
          /\ lost' = lost \ (IF changes(q) THEN {q.key} ELSE {})
      BY <1>6, <2>5 DEF handle
    <3> HIDE DEF q
    <3>2. store = "json" => holds(memory, lost)'
      BY <1>1, <2>1, <2>2, <3>1, HandleHolds DEF StoreInv
    <3>3. store = "json" => holds(load, lost \cup unsaved)'
      <4>1. ASSUME store = "json" PROVE holds(load, lost \cup unsaved)
        BY <2>2, <4>1 DEF StoreInv
      <4>2. /\ changes(q) => q.key \in unsaved'
            /\ lost \cup unsaved \subseteq lost' \cup unsaved'
        BY <3>1
      <4> QED
        BY <1>1, <2>1, <2>3, <3>1, <4>1, <4>2, HandleLoads DEF holds
    <3> QED
      BY <2>2, <3>2, <3>3 DEF StoreInv, holds
  <2> QED
    BY <1>6, <2>4, <2>5 DEF handle
<1>7. CASE interrupt
  <2>1. /\ server \in {"up", "handling", "answering"} /\ server' = "saving"
        /\ disk' = IF store = "json" THEN Torn ELSE disk
        /\ UNCHANGED <<store, memory, wanted, unsaved, lost>>
    BY <1>7 DEF interrupt
  <2> QED
    BY <2>1 DEF StoreInv, holds
<1>8. CASE interruptChange
  <2> DEFINE q == current.query
             resized == (memory[q.key] = None) # (q.value = None)
             hit == IF resized THEN Identities ELSE {q.key}
  <2>1. PICK half \in Values \cup {None}, missed \in SUBSET (hit \ {q.key}) :
            memory' = [k \in Keys |-> IF k = q.key THEN half
                                     ELSE IF k \in missed THEN None
                                     ELSE memory[k]]
    BY <1>8 DEF interruptChange
  <2>2. /\ server = "handling" /\ server' = "saving" /\ disk' = Torn
        /\ q.key \in Identities /\ lost' = lost \cup hit
        /\ UNCHANGED <<store, wanted, unsaved>>
    BY <1>8 DEF interruptChange, changes
  <2>3. q.key \in hit
    BY <2>2
  <2> HIDE DEF q, hit
  <2>4. ASSUME NEW k \in Identities \ lost' PROVE k \notin lost /\ memory'[k] = memory[k]
    BY <2>1, <2>2, <2>3 DEF Keys
  <2>5. store = "json" => holds(memory, lost)'
    BY <2>2, <2>4 DEF StoreInv, holds
  <2> QED
    BY <2>2, <2>5 DEF StoreInv, holds
<1>9. CASE save
  <2>1. /\ server = "saving" /\ server' = "down"
        /\ disk' = IF store = "stub" THEN disk
                   ELSE IF unprintable THEN Torn ELSE written
        /\ lost' = IF unprintable THEN Identities ELSE lost
        /\ unsaved' = {}
        /\ UNCHANGED <<store, memory, wanted>>
    BY <1>9 DEF save
  <2>2. ASSUME store = "json", ~unprintable PROVE holds(load, lost \cup unsaved)'
    <3>1. holds(written, lost)
      BY <2>1, <2>2, WrittenHolds DEF Typed, StoreInv
    <3>2. load' = written
      <4>1. written # Torn
        BY StoresTyped, StorageAssumption DEF Typed
      <4> QED
        BY <2>1, <2>2, <4>1 DEF load
    <3>3. lost' \cup unsaved' = lost /\ wanted' = wanted
      BY <2>1, <2>2
    <3> QED
      BY <3>1, <3>2, <3>3 DEF holds
  <2>3. ASSUME unprintable PROVE holds(load, lost \cup unsaved)'
    BY <2>1, <2>3 DEF holds
  <2> QED
    BY <2>1, <2>2, <2>3 DEF StoreInv, holds
<1>10. CASE crash
  <2>1. /\ server # "down" /\ server' = "down"
        /\ lost' = IF server = "saving" THEN Identities ELSE lost \cup unsaved
        /\ unsaved' = {}
        /\ UNCHANGED <<store, memory, disk, wanted>>
    BY <1>10 DEF crash
  <2>2. load' = load
    BY <2>1 DEF load, Empty
  <2>3. ASSUME store = "json", server # "saving"
        PROVE  holds(load, lost \cup unsaved) /\ lost' \cup unsaved' = lost \cup unsaved
    BY <2>1, <2>3 DEF StoreInv
  <2> QED
    BY <2>1, <2>2, <2>3 DEF StoreInv, holds
<1> QED
  BY <1>3, <1>4, <1>5, <1>6, <1>7, <1>8, <1>9, <1>10 DEF Next

----------------------------------------------------------------------------

LEMMA IInvIs == IInv <=> Typed /\ NetInv /\ StoreInv
BY DEF IInv, Typed, NetInv

\* Initially nobody has asked anything and nothing is stored.
LEMMA InitIInv == Init => IInv
<1> SUFFICES ASSUME Init PROVE IInv
  OBVIOUS
<1>1. \A p \in Processes : Len(program[p]) \in Nat \ {0}
  <2>1. \A p \in Processes : program[p] \in Seq(Queries) /\ program[p] # <<>>
    BY StorageAssumption DEF Init
  <2> QED
    BY <2>1
<1>2. Empty \in Contents
  BY DEF Empty, Contents
<1>3. TypeOK
  <2>1. \A p \in Processes : pos[p] \in 1..(Len(program[p]) + 1)
    BY <1>1 DEF Init
  <2>2. duplicates \in 0..MaxDuplicates /\ starts \in 0..MaxStarts
    BY StorageAssumption DEF Init
  <2> QED
    BY <1>2, <2>1, <2>2 DEF Init, TypeOK
<1>4. PosInv
  BY <1>1 DEF Init, PosInv
<1>5. OneUnderWay /\ Progress
  BY DEF Init, OneUnderWay, Progress, asked, inHand, answered, atWork
<1>6. StoreInv
  BY StorageAssumption DEF Init, StoreInv, load, Empty, Keys, holds, sameIdentity
<1> QED
  BY <1>3, <1>4, <1>5, <1>6 DEF IInv, Init, atWork

\* Every step keeps the invariant.
LEMMA NextIInv == IInv /\ [Next]_vars => IInv'
<1>1. ASSUME IInv, UNCHANGED vars PROVE IInv'
  <2> USE <1>1 DEF vars, processVars, networkVars, storeVars, historyVars
  <2>1. TypeOK' /\ PosInv' /\ (atWork' => current' \in Requests)
    BY DEF IInv, TypeOK, PosInv, atWork
  <2>2. NetInv'
    BY IInvIs, NetShrinks
  <2>3. StoreInv'
    BY DEF IInv, StoreInv, load, Empty, holds
  <2> QED
    BY <2>1, <2>2, <2>3 DEF IInv, NetInv
<1>2. ASSUME IInv, Next PROVE IInv'
  <2>1. Typed /\ NetInv /\ StoreInv
    BY <1>2, IInvIs
  <2>2. Typed'
    BY <1>2, <2>1, ProcessTyped, ServiceTyped DEF Next
  <2>3. NetInv'
    BY <1>2, <2>1, ProcessNet, ReceiveNet, ServiceNet, FaultNet DEF Next
  <2>4. StoreInv'
    BY <1>2, <2>1, StoreStep
  <2> QED
    BY <2>2, <2>3, <2>4 DEF IInv, Typed, NetInv
<1> QED
  BY <1>1, <1>2

LEMMA Invariant == Spec => []IInv
BY InitIInv, NextIInv, PTL DEF Spec

\* Every variable keeps its type, for any programs of the query tool.
THEOREM TypeCorrect == Spec => []TypeOK
<1>1. IInv => TypeOK
  BY DEF IInv
<1> QED
  BY <1>1, Invariant, PTL

\* "ok" can be relied on, for any number of processes with programs of any
\* length: however requests overtake each other, are lost, or meet a restart of
\* the service, each query of a process that ends without an error has been
\* handled, as long as nothing was duplicated (UDPClient::onError, the callbacks
\* of cli-query-main.cpp).
THEOREM OkAlwaysApplied == Spec => []OkMeansApplied
<1>1. ASSUME IInv, NEW p \in Processes, pc[p] = "ok", granted[p], duplicates = 0,
             NEW i \in DOMAIN program[p]
      PROVE  [from |-> p, pos |-> i] \in applied
  <2>1. pos[p] = Len(program[p]) + 1 /\ pos[p] \in Nat
    BY <1>1 DEF IInv, PosInv
  <2>2. program[p] \in Seq(Queries)
    BY <1>1, StorageAssumption DEF IInv, TypeOK
  <2>3. i \in 1..(pos[p] - 1)
    BY <2>1, <2>2
  <2> QED
    BY <1>1, <2>3 DEF IInv, Progress
<1>2. IInv => OkMeansApplied
  BY <1>1 DEF OkMeansApplied
<1> QED
  BY <1>2, Invariant, PTL

\* The store follows what was asked for over every stop, restart, crash and
\* SIGINT in the middle of a change, but for the named losses, for any
\* identities, gateways and values (JsonIdentityService::load, store, put, done()).
THEOREM StoreAlwaysTrue == Spec => []StoreIsTrue
<1>1. IInv => StoreIsTrue
  BY DEF IInv, StoreInv, StoreIsTrue, holds
<1> QED
  BY <1>1, Invariant, PTL
=============================================================================
