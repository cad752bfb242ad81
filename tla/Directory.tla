------------------------------- MODULE Directory -------------------------------
(***************************************************************************)
(* The machine directory of a client: the operators by which machines.json *)
(* (go/internal/client/store.go) is changed and merged with the relay's    *)
(* registry (go/internal/client/registry.go).                              *)
(*                                                                         *)
(* A machine is a record [id, name, ts, shared]: the name is what people   *)
(* use and may be carried by two machines, ts is when it was given, shared *)
(* says that the machine belongs to somebody else.  Keys and addresses are *)
(* left out.  A list is a sequence, in the order it is shown.              *)
(***************************************************************************)
EXTENDS Integers, FiniteSets, SequencesExt, Lists

\* Positions of the machines of a list with an id, and with a name.
At(list, id) == {i \in DOMAIN list : list[i].id = id}
Named(list, name) == {i \in DOMAIN list : list[i].name = name}

Least(S) == CHOOSE i \in S : \A j \in S : i <= j
Greatest(S) == CHOOSE i \in S : \A j \in S : i >= j

\* The ids of a list in the order of their first occurrence.
IdsInOrder(list) ==
    LET firsts == {i \in DOMAIN list : \A j \in 1 .. (i - 1) : list[j].id # list[i].id}
        entries == Sublist(list, firsts)
    IN [k \in DOMAIN entries |-> entries[k].id]

\* The name a directory shows for a machine that is stored and listed: the one
\* given last, the listed one when they were given in the same second.
NewerName(stored, listed) ==
    IF listed.ts >= stored.ts
    THEN [stored EXCEPT !.name = listed.name, !.ts = listed.ts]
    ELSE stored

\* Stored machines first, then the ones that are only listed; of two stored
\* entries with one id, the last.
MergeMachines(local, discovered) ==
    LET order == IdsInOrder(local \o discovered)
        stored(id) == local[Greatest(At(local, id))]
        listed(id) == discovered[Greatest(At(discovered, id))]
        merged(id) == IF At(local, id) = {} THEN listed(id)
                      ELSE IF At(discovered, id) = {} THEN stored(id)
                      ELSE NewerName(stored(id), listed(id))
    IN [i \in DOMAIN order |-> merged(order[i])]

FilterRevoked(list, revoked) == Sublist(list, {i \in DOMAIN list : list[i].id \notin revoked})

\* The machine a command means by a name: the first one, if any.
ResolveMachine(local, discovered, name) ==
    LET merged == MergeMachines(local, discovered)
        hits == Named(merged, name)
    IN IF hits = {} THEN {} ELSE {merged[Least(hits)]}

\* A machine is stored by name: an entry of that name is replaced, id and all.
AddMachine(list, m) ==
    LET hits == Named(list, m.name)
    IN IF hits = {} THEN Append(list, m) ELSE [list EXCEPT ![Least(hits)] = m]

RemoveMachine(list, id) == Sublist(list, {i \in DOMAIN list : list[i].id # id})

\* A rename goes by id; a machine that was only listed is stored.
RenameLocalMachine(list, m, name, ts) ==
    LET hits == At(list, m.id)
        named(e) == [e EXCEPT !.name = name, !.ts = ts]
    IN IF hits = {} THEN Append(list, named(m))
       ELSE [list EXCEPT ![Least(hits)] = named(@)]

\* What a bare attach means: the machine used last, else the only one.
PickDefaultMachine(lastUsed, list) ==
    LET hits == Named(list, lastUsed)
    IN IF hits # {} THEN {list[Least(hits)]}
       ELSE IF Len(list) = 1 THEN {list[1]}
       ELSE {}
=============================================================================
