------------------------------- MODULE TableSpec -------------------------------
(***************************************************************************)
(* A hash table whose calls are each one step, with the outcomes HashTable *)
(* gives them and Containers makes its steps of: granted, or refused and   *)
(* then nothing has changed.                                               *)
(***************************************************************************)
EXTENDS HashTable

VARIABLE t

TableInit == t = Storage(0)

TableNew ==
  /\ t = Storage(0)
  /\ \E r \in hash_table_init_storage(MinCapacity) : t' = r.c

TableInsert(e) ==
  /\ t # Storage(0)
  /\ \E r \in hash_table_insert(t, e) : t' = r.c

TableRemove(k) ==
  /\ t # Storage(0)
  /\ \E r \in hash_table_remove(t, k) : t' = r.c

TableClear == t' = Storage(Room(t))

TableDrop == t' = Storage(0)

\* The clone is kept and the original dropped.
TableClone == t' = Rehashed(t, Storage(Grown(0, Room(t))))

TableNext ==
  \/ TableNew \/ TableClear \/ TableDrop \/ TableClone
  \/ \E e \in Elements : TableInsert(e)
  \/ \E k \in DOMAIN Hash : TableRemove(k)

Table == TableInit /\ [][TableNext]_t
===============================================================================
