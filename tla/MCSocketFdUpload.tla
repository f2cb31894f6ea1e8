--------------------------- MODULE MCSocketFdUpload ---------------------------
(* A small instance of SocketFdUpload.  Forms of a field and a file, in    *)
(* both orders, and of one part: a file and a field that need the buffer   *)
(* more than once, and a file without a name.                              *)
(***************************************************************************)
EXTENDS SocketFdUpload

CONSTANT c1

OneCanceller == {c1}

\* The offset of part k's boundary.
RECURSIVE StartOf(_, _)
StartOf(sizes, k) ==
    IF k = 1 THEN 0
    ELSE StartOf(sizes, k - 1) + BoundaryLength + HeadLength + sizes[k - 1] + 2

Form(kinds, sizes) ==
    [n |-> Len(kinds), kind |-> kinds, size |-> sizes,
     start |-> [k \in 1..(Len(kinds) + 1) |-> StartOf(sizes, k)]]

MCForms == {Form(<<"field", "file">>, <<0, 1>>), Form(<<"file", "field">>, <<1, 0>>),
            Form(<<"file">>, <<4>>), Form(<<"field">>, <<6>>), Form(<<"unnamed">>, <<0>>)}
===============================================================================
