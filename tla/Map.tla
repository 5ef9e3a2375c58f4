--------------------------------- MODULE Map ---------------------------------
(***************************************************************************)
(* What a hash table promises: a partial map from keys to values.          *)
(***************************************************************************)
CONSTANTS
  Keys,
  Values,
  NULL        \* no value

VARIABLE contents     \* what hashtable_get returns for each key

MapInit == contents = [k \in Keys |-> NULL]

Put(k, v) == contents' = [contents EXCEPT ![k] = v]

Delete(k) == contents' = [contents EXCEPT ![k] = NULL]

MapNext == \E k \in Keys : Delete(k) \/ \E v \in Values : Put(k, v)

MapSpec == MapInit /\ [][MapNext]_contents
=============================================================================
