-------------------------- MODULE IdentityStorage --------------------------
(***************************************************************************)
(* The storage service of identities and gateways (storage/cli-main.cpp with *)
(* UDPListener and the JSON stores), and the query tool that talks to it     *)
(* (storage/cli-query-main.cpp with UDPClient) over datagrams that the       *)
(* network may lose, delay, reorder or duplicate.                           *)
(*                                                                         *)
(* A process is one run of the query tool: it sends its queries one after    *)
(* another, each when the answer to the one before has come, and gives up at *)
(* the first time-out.  An answer does not say which query it answers.  The   *)
(* service writes its identities to a file only when SIGINT ends it.         *)
(***************************************************************************)
EXTENDS Integers, Sequences, FiniteSets

CONSTANTS
    Identities,     \* addresses of devices
    Gateways,       \* identifiers of gateways
    Values,         \* what a query may assign: [id, region, printable]
    Programs,       \* what a process may be told to do: sequences of queries
    Processes,      \* bound: runs of the query tool
    Stores,         \* "json": --id-json was given; "stub": it was not
    MaxDuplicates,  \* bound: duplicated datagrams
    MaxStarts,      \* bound: starts of the service
    None, Torn, Nobody

Keys == Identities \cup Gateways
Queries == [op : {"assign", "rm"}, key : Keys, value : Values \cup {None}]
             \cup [op : {"get"}, key : Keys, value : {None}]
Requests == [from : Processes, pos : Nat \ {0}, query : Queries, granted : BOOLEAN]
Answers == [from : Processes, pos : Nat \ {0}]

Empty == [k \in Keys |-> None]
Contents == [Keys -> Values \cup {None}]

ASSUME StorageAssumption ==
    /\ Identities \cap Gateways = {}
    /\ Values \subseteq [id : STRING, region : Nat, printable : BOOLEAN]
    /\ None \notin Values /\ Torn \notin Contents
    /\ \A v \in Values : [v EXCEPT !.region = 0] \in Values
    /\ \A s \in Programs : s \in Seq(Queries) /\ s # <<>>
    /\ Stores \subseteq {"json", "stub"}
    /\ MaxDuplicates \in Nat /\ MaxStarts \in Nat

VARIABLES
    pc, program, granted, pos,  \* of each process; granted: its codes are right
    requests, answers,          \* datagrams on the way
    duplicates,                 \* datagrams duplicated so far
    server, current,            \* where the service is, the request it handles
    store,                      \* chosen once: the kind of identity store
    memory,                     \* its two stores
    disk,                       \* the identities' file
    starts,
    applied,    \* history: requests that have been handled
    wanted,     \* history: what the handled queries have asked for, since ever
    unsaved,    \* history: identities changed since the service started
    lost        \* history: identities that what happened since their last change
                \* has lost

processVars == <<pc, program, granted, pos>>
networkVars == <<requests, answers, duplicates>>
storeVars == <<store, memory, disk>>
historyVars == <<applied, wanted, unsaved, lost>>
vars == <<processVars, networkVars, server, current, storeVars, starts,
          historyVars>>

TypeOK ==
    /\ pc \in [Processes -> {"new", "send", "wait", "ok", "error"}]
    /\ program \in [Processes -> Programs]
    /\ granted \in [Processes -> BOOLEAN]
    /\ \A p \in Processes : pos[p] \in 1..(Len(program[p]) + 1)
    /\ requests \subseteq Requests /\ answers \subseteq Answers
    /\ duplicates \in 0..MaxDuplicates
    /\ server \in {"down", "up", "handling", "answering", "saving"}
    /\ current \in Requests \cup {Nobody}
    /\ store \in Stores
    /\ memory \in Contents /\ disk \in Contents \cup {Torn}
    /\ starts \in 0..MaxStarts
    /\ applied \subseteq Answers
    /\ wanted \in Contents
    /\ unsaved \subseteq Identities /\ lost \subseteq Identities

Init ==
    /\ pc = [p \in Processes |-> "new"]
    /\ program \in [Processes -> Programs]
    /\ granted \in [Processes -> BOOLEAN]
    /\ pos = [p \in Processes |-> 1]
    /\ requests = {} /\ answers = {} /\ duplicates = 0
    /\ server = "down" /\ current = Nobody
    /\ store \in Stores
    /\ memory = Empty /\ disk = Empty
    /\ starts = 0
    /\ applied = {} /\ wanted = Empty /\ unsaved = {} /\ lost = {}

----------------------------------------------------------------------------
(* The query tool                                                           *)

processGoes(p, from, to) == pc[p] = from /\ pc' = [pc EXCEPT ![p] = to]

start(p) ==
    /\ processGoes(p, "new", "send")
    /\ UNCHANGED <<program, granted, pos, networkVars, server, current,
                   storeVars, starts, historyVars>>

send(p) ==
    /\ processGoes(p, "send", "wait")
    /\ requests' = requests \cup {[from |-> p, pos |-> pos[p],
                                   query |-> program[p][pos[p]],
                                   granted |-> granted[p]]}
    /\ UNCHANGED <<program, granted, pos, answers, duplicates, server, current,
                   storeVars, starts, historyVars>>

\* A client that goes on with the next query after a time-out.
fail_goesOn(p) ==
    /\ processGoes(p, "wait", IF pos[p] = Len(program[p]) THEN "ok" ELSE "send")
    /\ pos' = [pos EXCEPT ![p] = @ + 1]
    /\ UNCHANGED <<program, granted, networkVars, server, current, storeVars,
                   starts, historyVars>>

\* sendto() fails, or nothing came for DEF_READ_TIMEOUT_SECONDS: onError() stops
\* the client, the other queries are not sent.
fail(p) ==
    /\ \E from \in {"send", "wait"} : processGoes(p, from, "error")
    /\ UNCHANGED <<program, granted, pos, networkVars, server, current,
                   storeVars, starts, historyVars>>

\* A duplicate stays on the way.
taken(datagrams, d) ==
    \/ datagrams' = datagrams \ {d} /\ UNCHANGED duplicates
    \/ /\ duplicates < MaxDuplicates /\ duplicates' = duplicates + 1
       /\ UNCHANGED datagrams

\* Any answer moves the tool on to its next query: a refusal, too, which says
\* "list" and is printed as an empty one.
receive(p) ==
    \E a \in answers :
        /\ a.from = p
        /\ processGoes(p, "wait",
                       IF pos[p] = Len(program[p]) THEN "ok" ELSE "send")
        /\ pos' = [pos EXCEPT ![p] = @ + 1]
        /\ taken(answers, a)
        /\ UNCHANGED <<program, granted, requests, server, current, storeVars,
                       starts, historyVars>>

lose ==
    /\ \/ \E r \in requests : requests' = requests \ {r} /\ UNCHANGED answers
       \/ \E a \in answers : answers' = answers \ {a} /\ UNCHANGED requests
    /\ UNCHANGED <<processVars, duplicates, server, current, storeVars, starts,
                   historyVars>>

----------------------------------------------------------------------------
(* The service                                                              *)

\* A load that does not look at what was parsed.
load_unchecked == disk

\* JsonIdentityService::load(): a file that does not parse leaves the store
\* empty, and nobody looks at the result of init().
load == IF disk = Torn THEN Empty ELSE disk

\* run(); the gateways' file is never written.
startServer ==
    /\ server = "down" /\ server' = "up"
    /\ starts < MaxStarts /\ starts' = starts + 1
    /\ memory' = IF store = "json" THEN load ELSE Empty
    /\ UNCHANGED <<processVars, networkVars, current, store, disk, historyVars>>

receiveRequest ==
    \E r \in requests :
        /\ server = "up" /\ server' = "handling"
        /\ current' = r
        /\ taken(requests, r)
        /\ UNCHANGED <<processVars, answers, storeVars, starts, historyVars>>

assigned(contents, q) ==
    IF q.op = "get" THEN contents ELSE [contents EXCEPT ![q.key] = q.value]

\* Whether a query changes the identities' store.
changes(q) == q.op # "get" /\ q.key \in Identities

\* IdentityBinarySerialization::query() and the one for gateways.  Without a
\* store of identities a stub says yes to everything.
handle ==
    LET q == current.query
        changed == IF changes(q) THEN {q.key} ELSE {}
    IN  /\ server = "handling" /\ server' = "answering"
        /\ IF current.granted
           THEN /\ memory' = IF store = "stub" /\ q.key \in Identities THEN memory
                             ELSE assigned(memory, q)
                /\ wanted' = assigned(wanted, q)
                /\ unsaved' = unsaved \cup changed /\ lost' = lost \ changed
                /\ applied' = applied \cup
                        {[from |-> current.from, pos |-> current.pos]}
           ELSE UNCHANGED <<memory, historyVars>>
        /\ UNCHANGED <<processVars, networkVars, current, store, disk, starts>>

answer ==
    /\ server = "answering" /\ server' = "up"
    /\ answers' = answers \cup {[from |-> current.from, pos |-> current.pos]}
    /\ current' = Nobody
    /\ UNCHANGED <<processVars, requests, duplicates, storeVars, starts,
                   historyVars>>

\* SIGINT: done() runs in the handler, on top of whatever the service does, and
\* store() truncates the file.
interrupt ==
    /\ server \in {"up", "handling", "answering"} /\ server' = "saving"
    /\ disk' = IF store = "json" THEN Torn ELSE disk
    /\ UNCHANGED <<processVars, networkVars, current, store, memory, starts,
                   historyVars>>

\* SIGINT in the middle of `storage[devAddr] = id' or of rm(): done() saves what it
\* finds, and the change is never finished.  The identity may be half assigned,
\* which any value stands for; while the tree of the map is changed, others may
\* not be found.
interruptChange ==
    LET q == current.query
        resized == (memory[q.key] = None) # (q.value = None)
        hit == IF resized THEN Identities ELSE {q.key}
    IN  /\ server = "handling" /\ server' = "saving"
        /\ store = "json" /\ current.granted /\ changes(q)
        /\ q.op = "rm" => memory[q.key] # None
        /\ \E half \in Values \cup {None}, missed \in SUBSET (hit \ {q.key}) :
              memory' = [k \in Keys |-> IF k = q.key THEN half
                                       ELSE IF k \in missed THEN None
                                       ELSE memory[k]]
        /\ disk' = Torn
        /\ lost' = lost \cup hit
        /\ UNCHANGED <<processVars, networkVars, current, store, starts, applied,
                       wanted, unsaved>>

\* toJsonString() writes the region, which load() does not read; a name that
\* would have to be quoted spoils the file.
written == [k \in Keys |->
                IF k \in Gateways \/ memory[k] = None THEN None
                ELSE [memory[k] EXCEPT !.region = 0]]

unprintable == \E k \in Identities : memory[k] # None /\ ~memory[k].printable

\* A save of what was changed since the start only, over the truncated file.
save_changesOnly ==
    /\ server = "saving" /\ server' = "down"
    /\ disk' = IF store = "stub" THEN disk ELSE IF unprintable THEN Torn
               ELSE [k \in Keys |-> IF k \in unsaved THEN written[k] ELSE None]
    /\ lost' = IF unprintable THEN Identities ELSE lost
    /\ unsaved' = {}
    /\ current' = Nobody
    /\ UNCHANGED <<processVars, networkVars, store, memory, starts, applied, wanted>>

\* The file is written and the process exits.
save ==
    /\ server = "saving" /\ server' = "down"
    /\ disk' = IF store = "stub" THEN disk ELSE IF unprintable THEN Torn ELSE written
    /\ lost' = IF unprintable THEN Identities ELSE lost
    /\ unsaved' = {}
    /\ current' = Nobody
    /\ UNCHANGED <<processVars, networkVars, store, memory, starts, applied, wanted>>

\* Any other end, in the middle of a save, too: what remains is the last save, or
\* a torn file.
crash ==
    /\ server # "down" /\ server' = "down"
    /\ lost' = IF server = "saving" THEN Identities ELSE lost \cup unsaved
    /\ unsaved' = {}
    /\ current' = Nobody
    /\ UNCHANGED <<processVars, networkVars, storeVars, starts, applied, wanted>>

----------------------------------------------------------------------------

Next ==
    \/ \E p \in Processes : start(p) \/ send(p) \/ fail(p) \/ receive(p)
    \/ lose
    \/ startServer \/ receiveRequest \/ handle \/ answer
    \/ interrupt \/ interruptChange \/ save \/ crash

Spec == Init /\ [][Next]_vars

----------------------------------------------------------------------------
(* Properties                                                               *)

\* A query tool that ends without an error has had all its queries handled,
\* although an answer does not name its query, requests overtake each other and
\* the service restarts: as long as its codes are right and the network
\* duplicates nothing.
OkMeansApplied ==
    \A p \in Processes :
        /\ pc[p] = "ok" /\ granted[p] /\ duplicates = 0
        => \A i \in DOMAIN program[p] : [from |-> p, pos |-> i] \in applied

sameIdentity(v, w) == IF None \in {v, w} THEN v = w ELSE v.id = w.id

\* The JSON store holds what was ever asked for, over every stop and restart: but
\* for the region, which load() does not read.  Lost until it is asked for again
\* is only: what was changed since the start, when the process is killed; all of
\* it, when it is killed in a save or the save meets a name that JSON cannot
\* quote; and what a SIGINT hits in the middle of its change.
StoreIsTrue ==
    store = "json" /\ server \in {"up", "handling", "answering"} =>
        \A k \in Identities \ lost : sameIdentity(memory[k], wanted[k])
=============================================================================
