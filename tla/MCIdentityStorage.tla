------------------------- MODULE MCIdentityStorage -------------------------
(* Two processes, two identities and a gateway. *)
EXTENDS IdentityStorage, TLC

a == [id |-> "a", region |-> 1, printable |-> TRUE]
b == [id |-> "b", region |-> 0, printable |-> FALSE]

\* An identity comes back from the file without its region.
MCValues == {a, b, [a EXCEPT !.region = 0]}

assign(k, v) == [op |-> "assign", key |-> k, value |-> v]
rm(k) == [op |-> "rm", key |-> k, value |-> None]
get(k) == [op |-> "get", key |-> k, value |-> None]

\* A run of the tool repeats one command.
MCPrograms == {<<assign("d1", a), assign("d2", a)>>, <<rm("d1")>>,
               <<assign("d1", b)>>, <<assign("g1", a)>>, <<get("d2"), get("d1")>>}

\* The runs of the tool may be told to do the same things.
Symmetry == Permutations(Processes)
=============================================================================
