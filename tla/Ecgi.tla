--------------------------------- MODULE Ecgi ---------------------------------
(***************************************************************************)
(* The multipart parser ECGI of ECGI.cpp: a form that arrives in reads of  *)
(* any size is cut into fields and files, through a buffer that is refilled *)
(* only while a field or a file is being read in pieces.                   *)
(*                                                                         *)
(* A form is a record of its number of parts, their kinds and sizes, and   *)
(* the offset of each boundary; cur and got are offsets into it, and       *)
(* got - cur is buf_fill.  Every part is                                   *)
(*     boundary, header lines up to the empty one, data, CR LF             *)
(* and the last boundary is followed by "--" CR LF.  The data hold no      *)
(* boundary.  An "unnamed" part is a file part whose file name is empty.   *)
(*                                                                         *)
(* There are bytes that the code takes for something else, or drops: the   *)
(* rest of a header that the end of the buffer cuts, what follows a field  *)
(* that was read in pieces, what a negative max_read leaves behind.  The   *)
(* model goes on as the code does; spoilt is the record of the parts that  *)
(* this hits, and of the others everything is claimed.                     *)
(***************************************************************************)
EXTENDS Integers

CONSTANTS Forms,           \* the forms to look at
          BoundaryLength,  \* length of a boundary
          HeadLength,      \* length of a part's header lines
          BufMax,          \* bound: size of the buffer (131072 in the code)
          Margin           \* BOUNDARY_MARGIN (128)

Extent(f, k) == BoundaryLength + HeadLength + f.size[k] + 2

ASSUME EcgiAssumption ==
    /\ BoundaryLength \in Nat \ {0, 1}
    /\ HeadLength \in Nat \ {0, 1}
    /\ Margin \in Nat /\ Margin >= BoundaryLength + 4
    /\ BufMax \in Nat /\ BufMax > Margin
    /\ \A f \in Forms :
        /\ f.n \in Nat \ {0}
        /\ f.kind \in [1..f.n -> {"field", "file", "unnamed"}]
        /\ f.size \in [1..f.n -> Nat]
        /\ f.start \in [1..(f.n + 1) -> Nat]
        /\ f.start[1] = 0
        /\ \A k \in 1..f.n : f.start[k + 1] = f.start[k] + Extent(f, k)
        /\ \A k \in 1..f.n, b \in 1..(f.n + 1) : k < b => f.start[k] + Extent(f, k) <= f.start[b]

VARIABLES form,    \* the form that arrives
          parse,   \* where parse() is
          state,   \* ECGI::state
          cur,     \* offset of cur_read
          got,     \* offset up to which the form has been read: content_read
          part,    \* the part whose boundary was found last; ECGI::part counts them
          result,  \* ECGI::last_result
          maxread, \* ECGI::max_read
          tp,      \* the part a do-while of processMultiPart is for, or 0
          took,    \* what the code took each part for
          kept,    \* what var and the temporary files hold of each part
          temp,    \* the temporary files: made, and listed in ECGI::filenames
          cancel,  \* ECGI::cancel
          spoilt   \* history: the parts that were misread

data == <<took, kept, temp, spoilt>>
pos == <<state, cur, got, part, result, maxread>>
vars == <<form, parse, pos, tp, data, cancel>>

FormParts == 1..form.n
Final == form.n + 1
Length == form.start[Final] + BoundaryLength + 4
Data(k) == form.start[k] + BoundaryLength + HeadLength
DataEnd(k) == Data(k) + form.size[k]

AtMost(a, b) == IF a < b THEN a ELSE b
AtLeast(a, b) == IF a > b THEN a ELSE b
Bufsize == AtMost(Length, BufMax)

Nothing == [from |-> 0, to |-> 0, count |-> 0]

\* The parts of S are misread, and so are those whose boundary cur has passed.
Spoil(S) == spoilt' = spoilt \cup S \cup {j \in FormParts : j > part' /\ form.start[j] < cur'}

Init == /\ form \in Forms
        /\ parse = "chunk"
        /\ state = "EMPTY"
        /\ cur = 0 /\ got = 0
        /\ part = 0
        /\ result = "ERROR"
        /\ maxread = 0
        /\ tp = 0
        /\ took = [k \in FormParts |-> "nothing"]
        /\ kept = [k \in FormParts |-> Nothing]
        /\ temp = [k \in FormParts |-> "none"]
        /\ cancel = FALSE
        /\ spoilt = {}

-------------------------------------------------------------------------------
(* readPostPart.                                                             *)

\* What is kept of the buffer: nothing when buf_fill is negative, or when a
\* negative max_read has moved cur_read to before readbuf.  The other sanity
\* checks find nothing more.
Fill == IF cur > got \/ (state = "INFIELD" /\ maxread < 0) THEN 0 ELSE got - cur

NumToRead == AtMost(Bufsize - Fill, Length - got)
Lengths == IF NumToRead > 0 THEN 1..NumToRead ELSE {0}

\* readPostPart that does not move the rest of the buffer to its front.
ReadPostPartAfresh ==
    /\ cur' = got
    /\ \E len \in Lengths : got' = got + len

ReadPostPart ==
    /\ cur' = got - Fill
    /\ \E len \in Lengths : got' = got + len

\* The stream ends early or fails: "Read stream failed".
ReadFails ==
    /\ parse = "chunk"
    /\ state \in {"EMPTY", "INFIELD"}
    /\ NumToRead > 0
    /\ parse' = "threw"
    /\ UNCHANGED <<form, pos, tp, data, cancel>>

-------------------------------------------------------------------------------
(* processChunk.                                                             *)

\* findBoundary from offset c: the parts whose boundary the buffer holds.
Bounds(c) == {b \in 1..Final : c <= form.start[b] /\ form.start[b] + BoundaryLength <= got}

ReadFirst ==
    /\ parse = "chunk"
    /\ state = "EMPTY"
    /\ ReadPostPart
    /\ state' = "STARTOFFIELD"
    /\ UNCHANGED <<form, parse, part, result, maxread, tp, data, cancel>>

BoundaryNotFound ==
    /\ parse = "chunk"
    /\ state = "STARTOFFIELD"
    /\ Bounds(cur) = {}
    /\ parse' = "threw"
    /\ UNCHANGED <<form, pos, tp, data, cancel>>

\* The first boundary in the buffer is that of part b.
Boundary(b) ==
    /\ parse = "chunk"
    /\ state = "STARTOFFIELD"
    /\ b \in Bounds(cur)
    /\ \A c \in Bounds(cur) : b <= c
    /\ part' = b
    /\ UNCHANGED <<form, got, tp, kept, temp, cancel>>

FinalBoundary ==
    /\ Boundary(Final)
    /\ got >= Length
    /\ cur' = form.start[Final] + BoundaryLength
    /\ result' = "DONE"
    /\ state' = "END"
    /\ parse' = "stat"
    /\ UNCHANGED <<maxread, took, spoilt>>

\* "Out of sync when parsing post", and the like: what is in the buffer of a
\* header, or of the end of the form, is not enough to go on.
HeaderThrows(b) ==
    /\ Boundary(b)
    /\ got < IF b = Final THEN Length ELSE Data(b)
    /\ parse' = "threw"
    /\ UNCHANGED <<state, cur, result, maxread, took, spoilt>>

\* There is no test whether the header is in the buffer.  What is there of it
\* may be enough for a name, of a file or not, and buf_fill is then 0 or less:
\* the rest of the header is taken for data.
HeaderCut(b) ==
    /\ b # Final
    /\ Boundary(b)
    /\ got < Data(b)
    /\ cur' = got
    /\ \E t \in {"field", form.kind[b]} \cup {u \in {"unnamed"} : form.kind[b] = "file"} :
        /\ took' = [took EXCEPT ![b] = t]
        /\ result' = IF t = "field" THEN "PARTIALFIELD" ELSE "PARTIALFILE"
    /\ maxread' = 0
    /\ state' = "INFIELD"
    /\ parse' = "stat"
    /\ Spoil({b})

\* What can be taken of a part now: up to its end, or all but the margin.
Whole(b) == /\ b + 1 \in Bounds(Data(b))
            /\ result' = IF form.kind[b] = "field" THEN "FULLFIELD" ELSE "FULLFILE"
            /\ maxread' = DataEnd(b) - Data(b)
            /\ state' = "STARTOFFIELD"

Partial(b) == /\ b + 1 \notin Bounds(Data(b))
              /\ result' = IF form.kind[b] = "field" THEN "PARTIALFIELD" ELSE "PARTIALFILE"
              /\ maxread' = AtLeast(got - Data(b) - Margin, 0)
              /\ state' = "INFIELD"

StartOfField(b) ==
    /\ b # Final
    /\ Boundary(b)
    /\ got >= Data(b)
    /\ cur' = Data(b)
    /\ took' = [took EXCEPT ![b] = form.kind[b]]
    /\ Whole(b) \/ Partial(b)
    /\ parse' = "stat"
    /\ UNCHANGED spoilt

\* Filling up the buffer in the middle of a part.
ReadMore ==
    /\ parse = "chunk"
    /\ state = "INFIELD"
    /\ ReadPostPart
    /\ parse' = "search"
    /\ UNCHANGED <<form, state, part, result, maxread, tp, took, kept, temp, cancel>>
    /\ Spoil({})

\* max_read is negative here when there is less than the margin in the buffer,
\* or when the boundary comes at once.
Search ==
    /\ parse = "search"
    /\ \/ \E b \in Bounds(cur) :
            /\ \A c \in Bounds(cur) : b <= c
            /\ result' = IF result = "PARTIALFIELD" THEN "FULLFIELD" ELSE "FULLFILE"
            /\ maxread' = form.start[b] - cur - 2
            /\ state' = "STARTOFFIELD"
       \/ /\ Bounds(cur) = {}
          /\ maxread' = got - cur - Margin
          /\ UNCHANGED <<result, state>>
    /\ parse' = "stat"
    /\ UNCHANGED <<form, cur, got, part, tp, data, cancel>>

-------------------------------------------------------------------------------
(* processMultiPart, after a processChunk.                                   *)

Piece == [from |-> cur, to |-> cur + maxread, count |-> maxread]
AddPiece(v) == IF v = Nothing THEN Piece
               ELSE [from |-> v.from, to |-> cur + maxread, count |-> v.count + maxread]

\* mkstemp; a file without a name is not listed.
MakeTemp == temp' = [temp EXCEPT ![part] = IF took[part] = "file" THEN "listed" ELSE "made"]

FullField ==
    /\ parse = "stat" /\ ~cancel /\ tp = 0
    /\ result = "FULLFIELD"
    /\ kept' = [kept EXCEPT ![part] = Piece]
    /\ cur' = cur + maxread + 2
    /\ parse' = "added"
    /\ UNCHANGED <<form, state, got, part, result, maxread, tp, took, temp, cancel>>
    /\ Spoil({})

FullFile ==
    /\ parse = "stat" /\ ~cancel /\ tp = 0
    /\ result = "FULLFILE"
    /\ MakeTemp
    /\ kept' = [kept EXCEPT ![part] = Piece]
    /\ cur' = cur + maxread + 2
    /\ parse' = "chunk"
    /\ UNCHANGED <<form, state, got, part, result, maxread, tp, took, cancel>>
    /\ Spoil({})

\* A turn of the do-while of PARTIALFIELD or PARTIALFILE begins.
Turn == /\ parse = "stat" /\ ~cancel
        /\ tp = part \/ (tp = 0 /\ result \in {"PARTIALFIELD", "PARTIALFILE"})

\* "No full write. Disk full?": the temporary file is there all the same.
WriteFails ==
    /\ Turn \/ (parse = "stat" /\ ~cancel /\ tp = 0 /\ result = "FULLFILE")
    /\ took[part] # "field"
    /\ MakeTemp
    /\ parse' = "threw"
    /\ UNCHANGED <<form, pos, tp, took, kept, cancel, spoilt>>

TakePiece ==
    /\ Turn
    /\ maxread >= 0
    /\ tp' = part
    /\ kept' = [kept EXCEPT ![part] = AddPiece(@)]
    /\ IF took[part] = "field" THEN UNCHANGED temp ELSE MakeTemp
    /\ cur' = cur + maxread
    /\ parse' = "chunk"
    /\ UNCHANGED <<form, state, got, part, result, maxread, took, cancel>>
    /\ Spoil({})

\* A string of negative length is an exception that nothing catches; a write
\* of a negative length fails with -1, which is no full write unless it was -1
\* bytes that were to be written.
TakeLess ==
    /\ Turn
    /\ maxread < 0
    /\ UNCHANGED <<form, state, got, part, result, maxread, tp, took, kept, temp, cancel>>
    /\ IF took[part] # "field" /\ maxread = -1
       THEN cur' = cur + maxread /\ parse' = "chunk" /\ Spoil({part})
       ELSE /\ parse' = IF took[part] = "field" THEN "uncaught" ELSE "threw"
            /\ UNCHANGED <<cur, spoilt>>

\* The do-while ends with the next boundary, or with a cancel.
LoopEnds == parse = "stat" /\ tp # 0 /\ (tp # part \/ cancel)

\* cur_fieldname is the next part's by now: the field's value goes to that
\* name, and two bytes of that part are skipped.  That is right for the last
\* part only.
EndOfField ==
    /\ LoopEnds
    /\ took[tp] = "field"
    /\ cur' = cur + 2
    /\ parse' = "added"
    /\ UNCHANGED <<form, state, got, part, result, maxread, tp, took, temp, cancel>>
    /\ IF part \in {tp, Final}
       THEN UNCHANGED kept /\ Spoil({})
       ELSE kept' = [kept EXCEPT ![tp] = Nothing] /\ Spoil({tp, part})

\* Looking up the name in filenames lists the file, be the name empty.
EndOfFile ==
    /\ LoopEnds
    /\ took[tp] # "field"
    /\ temp' = [temp EXCEPT ![tp] = "listed"]
    /\ tp' = 0
    /\ UNCHANGED <<form, parse, pos, took, kept, cancel, spoilt>>

\* The field's handlers have been called.  Whoever composes this with them
\* says what becomes of cancel.
FieldAdded ==
    /\ parse = "added"
    /\ parse' = IF tp = 0 THEN "chunk" ELSE "stat"
    /\ tp' = 0
    /\ UNCHANGED <<form, pos, data>>

StopOnCancel ==
    /\ parse = "stat" /\ cancel /\ tp = 0
    /\ result # "DONE"
    /\ parse' = "cancelled"
    /\ UNCHANGED <<form, pos, tp, data, cancel>>

Done ==
    /\ parse = "stat" /\ tp = 0
    /\ result = "DONE"
    /\ parse' = "done"
    /\ UNCHANGED <<form, pos, tp, data, cancel>>

CancelUpload == cancel' = TRUE /\ UNCHANGED <<form, parse, pos, tp, data>>

-------------------------------------------------------------------------------
Reading == ReadFirst \/ ReadMore \/ ReadFails
Chunk == \/ BoundaryNotFound \/ FinalBoundary \/ Search
         \/ \E b \in 1..Final : HeaderThrows(b) \/ HeaderCut(b) \/ StartOfField(b)
Taking == \/ FullField \/ FullFile \/ TakePiece \/ TakeLess \/ WriteFails
          \/ EndOfField \/ EndOfFile \/ Done \/ StopOnCancel

\* parse() without its calls of the handlers of FieldAdded.
ParseStep == Reading \/ Chunk \/ Taking

Next == ParseStep \/ (FieldAdded /\ cancel' \in {cancel, TRUE}) \/ CancelUpload

Spec == Init /\ [][Next]_vars

-------------------------------------------------------------------------------
EcgiTypeOK ==
    /\ form \in Forms
    /\ parse \in {"chunk", "search", "stat", "added",
                  "done", "threw", "uncaught", "astray", "cancelled"}
    /\ state \in {"EMPTY", "STARTOFFIELD", "INFIELD", "END"}
    /\ cur \in Nat /\ got \in 0..Length
    /\ part \in 0..Final
    /\ result \in {"ERROR", "DONE", "FULLFIELD", "PARTIALFIELD", "FULLFILE", "PARTIALFILE"}
    /\ maxread \in Int
    /\ tp \in 0..form.n
    /\ took \in [FormParts -> {"nothing", "field", "file", "unnamed"}]
    /\ kept \in [FormParts -> [from : Nat, to : Nat, count : Nat]]
    /\ temp \in [FormParts -> {"none", "made", "listed"}]
    /\ cancel \in BOOLEAN
    /\ spoilt \subseteq FormParts

Exact(k) == kept[k] = [from |-> Data(k), to |-> DataEnd(k), count |-> form.size[k]]

(* A parse that ends well has each field and each file byte for byte, however *)
(* the form was cut into reads and wherever the end of the buffer fell: save  *)
(* the parts that spoilt names, whose header was cut by the end of the buffer *)
(* (ECGI.cpp:342-407), which follow a field that was read in pieces, or are   *)
(* that field (241-244), or which a negative max_read hit (459, 470).  What   *)
(* goes wrong in those does not spread to any other part.                     *)
PartsAreExact == parse = "done" => \A k \in FormParts \ spoilt : Exact(k)
===============================================================================
