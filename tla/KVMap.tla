------------------------------- MODULE KVMap -------------------------------
(***************************************************************************)
(* What a GodBee storage engine promises its clients, whatever the data    *)
(* structure behind it: a map from keys to values.  SET binds a key, DEL   *)
(* unbinds it and reports whether it was bound; GET and EXIST read the map *)
(* and are the state function kv itself.  The operations are those of the  *)
(* IStorage interface in pkg/repository.                                   *)
(***************************************************************************)
CONSTANTS Key,     \* the keys a client may use
          Value,   \* the values a client may store
          NotFound \* what GET answers for an unbound key

VARIABLES kv,   \* the map
          last  \* the last update and its reply

\* A store may be opened on existing files: any map is a legal start.
Init == /\ kv \in [Key -> Value \cup {NotFound}]
        /\ last = [op |-> "none"]

Set(k, v) == /\ last' = [op |-> "set", key |-> k, value |-> v]
             /\ kv' = [kv EXCEPT ![k] = v]

Remove(k) == /\ last' = [op |-> "remove", key |-> k,
                         found |-> kv[k] # NotFound]
             /\ kv' = [kv EXCEPT ![k] = NotFound]

Next == \E k \in Key : Remove(k) \/ \E v \in Value : Set(k, v)

Spec == Init /\ [][Next]_<<kv, last>>
=============================================================================
