-------------------------------- MODULE Maps --------------------------------
(***************************************************************************)
(* Dictionaries as functions whose domain grows and shrinks: the Python    *)
(* dict of the job registry and the database table keyed by its primary    *)
(* key.                                                                    *)
(***************************************************************************)

EmptyMap == [k \in {} |-> k]

\* m with key k bound to v, whether or not k was bound before.
Put(m, k, v) == [x \in DOMAIN m \cup {k} |-> IF x = k THEN v ELSE m[x]]

\* m without key k; m itself when k is not bound.
Drop(m, k) == [x \in DOMAIN m \ {k} |-> m[x]]

\* m is a function from some of the keys K to values in V.
IsMap(m, K, V) ==
  /\ m = [x \in DOMAIN m |-> m[x]]
  /\ DOMAIN m \subseteq K
  /\ \A x \in DOMAIN m : m[x] \in V

=============================================================================
