---------------------------- MODULE MCCrudStore ----------------------------
(***************************************************************************)
(* Instances of CrudStore for TLC.                                         *)
(***************************************************************************)
EXTENDS CrudStore, TLC

Object(id, field) == [object |-> TRUE, id |-> id, field |-> field]
Null == [object |-> FALSE, id |-> NoId, field |-> NoField]

\* Name(0) is the last segment of the rule's own path; Pad(1) is "01".
MCKeys == {Dec(n) : n \in 0 .. Width - 1} \cup {Name(0), Name(1), Pad(1)}
MCUuids == {Name(1)}

\* Ids that are numbers or names; one list repeats an id, one has an item
\* without an id and a value that is no object, one writes a number as text
\* beside "01", and one has the largest number there is.
MCSeeds ==
  {<<>>,
   <<Object(Number(1), "a"), Object(Text(Name(0)), "a"), Object(Number(1), "a")>>,
   <<Object(NoId, "a"), Null, Object(Number(0), "a")>>,
   <<Object(Text(Dec(1)), "a"), Object(Text(Pad(1)), "a")>>,
   <<Object(Number(Width - 1), "a")>>}

\* An id in a body is ignored by POST and PUT, and not by PATCH.
MCBodies == {Object(Number(1), "a"), Null}
MCPatches == {Object(NoId, "a"), Object(Number(0), "a"), Null}

\* Data lists in which every id is a number.
NumberedSeeds == {<<Object(Number(0), "a"), Object(Number(1), "a")>>}
=============================================================================
