---------------------------------- MODULE Vec ----------------------------------
(***************************************************************************)
(* lib/04data_structure/vec.  An outcome is [ok, c, gone]: gone is the set *)
(* of objects that left the vector, moved to the caller or dropped.        *)
(***************************************************************************)
EXTENDS RawBuf

vec_new == [buf |-> raw_buf_new, size |-> 0]

VecContents(v) == [i \in 1..v.size |-> v.buf[i - 1]]

vec_reserve(v, n) ==
  {[ok |-> r.ok, c |-> [v EXCEPT !.buf = r.buf], gone |-> {}] :
     r \in Reserved(v.buf, v.size + n)}

vec_insert(v, i, e) ==
  {IF r.ok
   THEN [r EXCEPT !.c.buf = [Shifted(@, i + 1, i, v.size - i) EXCEPT ![i] = e],
                  !.c.size = @ + 1]
   ELSE r : r \in vec_reserve(v, 1)}

vec_set(v, i, e) ==
  {[ok |-> TRUE, c |-> [v EXCEPT !.buf[i] = e], gone |-> {v.buf[i]}]}

vec_pop(v) ==
  {[ok |-> TRUE, gone |-> {v.buf[v.size - 1]},
    c |-> [buf |-> Vacated(v.buf, v.size - 1), size |-> v.size - 1]]}

\* The last slot keeps the bytes of the element that moved down from it.
vec_remove(v, i) ==
  {[ok |-> TRUE, gone |-> {v.buf[i]},
    c |-> [buf |-> Shifted(Vacated(v.buf, i), i, i + 1, v.size - i - 1),
           size |-> v.size - 1]]}

vec_swap_remove(v, i) ==
  {[ok |-> TRUE, gone |-> {v.buf[i]},
    c |-> [buf |-> IF i = v.size - 1 THEN Vacated(v.buf, i)
                   ELSE [v.buf EXCEPT ![i] = v.buf[v.size - 1]],
           size |-> v.size - 1]]}
===============================================================================
