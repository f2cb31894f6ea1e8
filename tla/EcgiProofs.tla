------------------------------ MODULE EcgiProofs ------------------------------
(***************************************************************************)
(* Proofs about the parser Ecgi, for forms with any parts, any buffer and  *)
(* any reads: what it keeps of each part that was not misread is exact.    *)
(* The invariant says for each place of parse how far the current part has *)
(* been taken; and, which is what keeps one misread part from harming      *)
(* another, that whatever cur has passed without its boundary being found  *)
(* is spoilt, and that cur never falls back behind the current boundary.   *)
(***************************************************************************)
EXTENDS Ecgi, TLAPS

Going == parse \in {"chunk", "search", "stat", "added"}

\* The current part is one, and it has not been misread.
Clean == part \in FormParts /\ part \notin spoilt

\* Who calls what, and in which state.
Flow ==
    /\ parse = "chunk" =>
          /\ part \in 0..form.n /\ tp \in {0, part}
          /\ state \in {"EMPTY", "STARTOFFIELD", "INFIELD"}
          /\ state = "EMPTY" => part = 0 /\ cur = 0 /\ got = 0
          /\ state = "INFIELD" => part # 0 /\ tp = part
    /\ parse = "search" => part \in FormParts /\ tp = part /\ state = "INFIELD"
    /\ parse = "stat" => /\ part # 0 /\ tp <= part
                         /\ tp = part => state \in {"STARTOFFIELD", "INFIELD"}
    /\ parse = "added" => /\ part # 0 /\ tp <= part
                          /\ tp = 0 => part \in FormParts /\ state = "STARTOFFIELD"
                          /\ tp = part => cancel
    /\ Going => (part = Final <=> result = "DONE")
    /\ parse = "done" => part = Final

\* The current boundary has been read and is behind cur, with one byte to spare
\* for the step back of TakeLess.
Past == Going /\ part # 0 =>
            /\ form.start[part] + BoundaryLength <= got
            /\ form.start[part] + BoundaryLength
                   <= IF parse = "chunk" /\ maxread < 0 THEN cur + 1 ELSE cur

\* Nothing is kept of the parts to come; a part cur has passed is spoilt.
Unread == Going => \A j \in FormParts : j > part =>
                      /\ kept[j] = Nothing /\ temp[j] = "none"
                      /\ form.start[j] < cur => j \in spoilt

\* The parts that were gone through.
Behind == Going \/ parse = "done" =>
              \A j \in FormParts \ spoilt : j < part => Exact(j)

\* A part whose header has just been read, an earlier one's loop may have to end.
JustFound == /\ parse = "stat" \/ (parse = "added" /\ tp # 0)
             /\ tp # part /\ part \in FormParts /\ ~cancel

New == JustFound =>
           /\ maxread >= 0
           /\ state \in {"STARTOFFIELD", "INFIELD"}
           /\ result \in {"FULLFIELD", "FULLFILE"} <=> state = "STARTOFFIELD"
           /\ result \in {"FULLFIELD", "PARTIALFIELD"} <=> took[part] = "field"
           /\ took[part] # "nothing"

Safe == /\ maxread >= 0 => cur + maxread <= got /\ cur + maxread <= DataEnd(part)
        /\ state = "STARTOFFIELD" => maxread >= 0 /\ cur + maxread = DataEnd(part)

AtNew == JustFound /\ Clean => cur = Data(part) /\ kept[part] = Nothing /\ Safe

AtMiddle == parse \in {"chunk", "search", "stat"} /\ tp = part /\ Clean =>
                /\ kept[part] = [from |-> Data(part), to |-> cur, count |-> cur - Data(part)]
                /\ Data(part) <= cur /\ cur <= DataEnd(part) /\ cur <= got
                /\ parse = "stat" => Safe
                /\ parse = "chunk" /\ state = "STARTOFFIELD" => cur = DataEnd(part)
                /\ parse = "chunk" /\ state = "INFIELD" => maxread >= 0

AtTaken == parse \in {"chunk", "added"} /\ tp = 0 /\ Clean => Exact(part)

\* Only a file without a name has a temporary file that is not listed.
Made == /\ \A k \in FormParts : temp[k] = "made" => took[k] = "unnamed"
        /\ Going /\ tp # 0 /\ tp = part => took[part] # "nothing"

IInv == /\ EcgiTypeOK /\ Flow /\ Past /\ Unread /\ Behind
        /\ New /\ AtNew /\ AtMiddle /\ AtTaken /\ Made

-------------------------------------------------------------------------------
(* Where the parts of a form are, and what the constants are.                *)
Facts == /\ form \in Forms
         /\ form.n \in Nat /\ form.n >= 1 /\ Final = form.n + 1
         /\ BoundaryLength \in Nat /\ BoundaryLength > 1
         /\ HeadLength \in Nat /\ HeadLength > 1
         /\ Margin \in Nat /\ Margin >= BoundaryLength + 4
         /\ BufMax \in Nat
         /\ \A k \in 1..Final : form.start[k] \in Nat
         /\ \A k \in FormParts :
               /\ k \in Nat /\ k \in 1..Final /\ k + 1 \in 1..Final /\ k # Final
               /\ form.size[k] \in Nat /\ form.kind[k] \in {"field", "file", "unnamed"}
               /\ Data(k) \in Nat /\ DataEnd(k) \in Nat
               /\ Data(k) = form.start[k] + BoundaryLength + HeadLength
               /\ DataEnd(k) = Data(k) + form.size[k]
               /\ form.start[k + 1] = DataEnd(k) + 2
               /\ \A b \in 1..Final : k < b => DataEnd(k) + 2 <= form.start[b]
         /\ Length \in Nat /\ Bufsize \in Nat

LEMMA FactsHold == ASSUME EcgiTypeOK PROVE Facts
  <1>0. form \in Forms
    BY DEF EcgiTypeOK
  <1>1. /\ form.n \in Nat /\ form.n >= 1
        /\ form.start \in [1..(form.n + 1) -> Nat]
        /\ form.size \in [1..form.n -> Nat]
        /\ form.kind \in [1..form.n -> {"field", "file", "unnamed"}]
    BY <1>0, EcgiAssumption
  <1>2. /\ \A k \in 1..form.n : form.start[k + 1] = form.start[k] + Extent(form, k)
        /\ \A k \in 1..form.n, b \in 1..(form.n + 1) :
              k < b => form.start[k] + Extent(form, k) <= form.start[b]
    BY <1>0, EcgiAssumption
  <1>3. /\ BoundaryLength \in Nat /\ BoundaryLength > 1
        /\ HeadLength \in Nat /\ HeadLength > 1
        /\ Margin \in Nat /\ Margin >= BoundaryLength + 4
        /\ BufMax \in Nat
    BY EcgiAssumption
  <1>4. ASSUME NEW k \in FormParts
        PROVE  /\ k \in Nat /\ k \in 1..Final /\ k + 1 \in 1..Final /\ k # Final
               /\ form.size[k] \in Nat /\ form.kind[k] \in {"field", "file", "unnamed"}
               /\ Data(k) \in Nat /\ DataEnd(k) \in Nat
               /\ Data(k) = form.start[k] + BoundaryLength + HeadLength
               /\ DataEnd(k) = Data(k) + form.size[k]
               /\ form.start[k + 1] = DataEnd(k) + 2
               /\ \A b \in 1..Final : k < b => DataEnd(k) + 2 <= form.start[b]
    <2>1. k \in 1..form.n /\ k \in 1..(form.n + 1) /\ k + 1 \in 1..(form.n + 1)
          /\ Final = form.n + 1
      BY <1>1, <1>4 DEF FormParts, Final
    <2>2. form.size[k] \in Nat /\ form.kind[k] \in {"field", "file", "unnamed"}
          /\ form.start[k] \in Nat
      BY <1>1, <2>1
    <2>3. Extent(form, k) = BoundaryLength + HeadLength + form.size[k] + 2
      BY DEF Extent
    <2>4. form.start[k + 1] = form.start[k] + Extent(form, k)
          /\ \A b \in 1..Final : k < b => form.start[k] + Extent(form, k) <= form.start[b]
      BY <1>2, <2>1
    <2>5. DataEnd(k) + 2 = form.start[k] + Extent(form, k) /\ Data(k) \in Nat
          /\ DataEnd(k) \in Nat
      BY <1>3, <2>2, <2>3 DEF Data, DataEnd
    <2>6. k \in Nat /\ k # Final
      BY <1>1, <2>1
    <2> QED  BY <2>1, <2>2, <2>4, <2>5, <2>6 DEF Data, DataEnd
  <1>5. \A k \in 1..Final : form.start[k] \in Nat
    BY <1>1 DEF Final
  <1>6. Final = form.n + 1 /\ Length \in Nat /\ Bufsize \in Nat
    <2>1. Final = form.n + 1 /\ form.start[Final] \in Nat
      BY <1>1, <1>5 DEF Final
    <2> QED  BY <1>3, <2>1 DEF Length, Bufsize, AtMost
  <1> QED  BY <1>0, <1>1, <1>3, <1>4, <1>5, <1>6 DEF Facts

LEMMA Initially == Init => IInv
  <1> SUFFICES ASSUME Init PROVE IInv
    OBVIOUS
  <1>0. form \in Forms /\ form.n \in Nat
    BY EcgiAssumption DEF Init
  <1>1. EcgiTypeOK
    <2>1. got \in 0..Length /\ part \in 0..Final /\ tp \in 0..form.n
      <3>1. form.start \in [1..(form.n + 1) -> Nat] /\ BoundaryLength \in Nat
        BY <1>0, EcgiAssumption
      <3>2. Final \in Nat /\ Length \in Nat
        BY <1>0, <3>1 DEF Final, Length
      <3> QED  BY <1>0, <3>2 DEF Init
    <2>2. /\ kept \in [FormParts -> [from : Nat, to : Nat, count : Nat]]
          /\ took \in [FormParts -> {"nothing", "field", "file", "unnamed"}]
          /\ temp \in [FormParts -> {"none", "made", "listed"}]
          /\ spoilt \subseteq FormParts
      BY DEF Init, Nothing
    <2>3. /\ parse \in {"chunk", "search", "stat", "added",
                        "done", "threw", "uncaught", "astray", "cancelled"}
          /\ state \in {"EMPTY", "STARTOFFIELD", "INFIELD", "END"}
          /\ cur \in Nat /\ maxread \in Int
          /\ result \in {"ERROR", "DONE", "FULLFIELD", "PARTIALFIELD", "FULLFILE", "PARTIALFILE"}
      BY DEF Init
    <2>4. cancel \in BOOLEAN
      BY DEF Init
    <2> QED  BY <1>0, <2>1, <2>2, <2>3, <2>4 DEF EcgiTypeOK
  <1>2. Facts
    BY <1>1, FactsHold
  <1>3. Flow /\ Past /\ Unread /\ Behind
    BY <1>2 DEF Init, Flow, Going, Past, Unread, Behind, FormParts, Facts
  <1>4. New /\ AtNew /\ AtMiddle /\ AtTaken /\ Made
    BY <1>2 DEF Init, New, AtNew, AtMiddle, AtTaken, Made, JustFound, Clean, FormParts
  <1> QED  BY <1>1, <1>3, <1>4 DEF IInv

-------------------------------------------------------------------------------
(* What no step of the parser touches stays as it is.                        *)
LEMMA Stutter ==
    ASSUME IInv, UNCHANGED <<form, parse, pos, tp, data>>,
           cancel' \in BOOLEAN, cancel => cancel'
    PROVE  IInv'
  <1> USE DEF IInv, pos, data, FormParts, Final, Going, Data, DataEnd, Exact
  <1>1. EcgiTypeOK'
    BY DEF EcgiTypeOK, Length
  <1>2. Flow' /\ Past'
    BY DEF Flow, Past
  <1>3. Unread' /\ Behind'
    BY DEF Unread, Behind
  <1>4. New'
    BY DEF New, JustFound
  <1>5. AtNew'
    BY DEF AtNew, JustFound, Clean, Safe
  <1>6. AtMiddle'
    BY DEF AtMiddle, Clean, Safe
  <1>7. AtTaken' /\ Made'
    BY DEF AtTaken, Clean, Made
  <1> QED  BY <1>1, <1>2, <1>3, <1>4, <1>5, <1>6, <1>7

(* Once parse has ended without the end of the form nothing more is claimed   *)
(* than what the temporary files are.                                         *)
LEMMA Ended ==
    ASSUME EcgiTypeOK', parse' \in {"threw", "uncaught", "astray", "cancelled"},
           \A k \in FormParts' : temp'[k] = "made" => took'[k] = "unnamed"
    PROVE  IInv'
  BY DEF IInv, Flow, Going, Past, Unread, Behind, New, JustFound, AtNew, AtMiddle,
       AtTaken, Made

(* A step that only ends parse.                                              *)
LEMMA Ends ==
    ASSUME IInv, UNCHANGED <<form, pos, tp, data, cancel>>,
           parse' \in {"threw", "uncaught", "astray", "cancelled"}
    PROVE  IInv'
  <1>1. EcgiTypeOK'
    BY DEF IInv, EcgiTypeOK, pos, data, FormParts, Final, Length
  <1>2. \A k \in FormParts' : temp'[k] = "made" => took'[k] = "unnamed"
    BY DEF IInv, Made, data, FormParts
  <1> QED  BY <1>1, <1>2, Ended

(* What reading may do.                                                       *)
LEMMA Reads ==
    ASSUME IInv, Facts, ReadPostPart, form' = form
    PROVE  got' \in got..Length /\ cur' \in Nat /\ cur' = got - Fill
  <1>1. got \in 0..Length /\ cur \in Nat /\ Length \in Nat
    BY DEF IInv, EcgiTypeOK, Facts
  <1>2. Fill \in Int /\ got - Fill \in Nat
    BY <1>1 DEF Fill
  <1>3. NumToRead \in Int /\ NumToRead <= Length - got
    BY <1>1, <1>2 DEF NumToRead, AtMost, Facts
  <1>4. PICK len \in Lengths : got' = got + len
    BY DEF ReadPostPart
  <1>5. len \in Nat /\ len <= Length - got
    BY <1>1, <1>3, <1>4 DEF Lengths
  <1> QED  BY <1>1, <1>2, <1>4, <1>5 DEF ReadPostPart

LEMMA ReadFirstStep == ASSUME IInv, Facts, ReadFirst PROVE IInv'
  <1>1. /\ UNCHANGED <<form, parse, part, result, maxread, tp, data, cancel>>
        /\ parse = "chunk" /\ state = "EMPTY" /\ state' = "STARTOFFIELD"
    BY DEF ReadFirst
  <1>2. part = 0 /\ cur = 0 /\ got = 0
    BY <1>1 DEF IInv, Flow
  <1>3. cur' = 0 /\ got' \in 0..Length
    <2>1. ReadPostPart
      BY DEF ReadFirst
    <2>2. Fill = 0
      BY <1>1, <1>2 DEF Fill
    <2> QED  BY <1>1, <1>2, <2>1, <2>2, Reads
  <1>4. EcgiTypeOK'
    BY <1>1, <1>3 DEF IInv, EcgiTypeOK, data, FormParts, Final, Length
  <1>5. Flow' /\ Past'
    BY <1>1, <1>2, <1>3 DEF IInv, Flow, Past, Going, Final, FormParts
  <1>6. Unread'
    BY <1>1, <1>2, <1>3 DEF IInv, Unread, Going, data, FormParts
  <1>7. Behind' /\ New' /\ AtNew' /\ AtMiddle' /\ AtTaken' /\ Made'
    BY <1>1, <1>2 DEF IInv, EcgiTypeOK, Behind, New, JustFound, AtNew, AtMiddle,
         AtTaken, Clean, Made, Going, data, FormParts, Facts
  <1> QED  BY <1>4, <1>5, <1>6, <1>7 DEF IInv

-------------------------------------------------------------------------------
(* Recording what was misread only adds to the record.                       *)
LEMMA Spoils ==
    ASSUME IInv, NEW S \in SUBSET FormParts, Spoil(S)
    PROVE  /\ spoilt \subseteq spoilt' /\ spoilt' \subseteq FormParts /\ S \subseteq spoilt'
           /\ \A j \in FormParts : j > part' /\ form.start[j] < cur' => j \in spoilt'
  BY DEF Spoil, IInv, EcgiTypeOK

(* The boundary processChunk finds is that of a later part, and whatever it   *)
(* leaves behind has been taken as it was, or is spoilt.                      *)
LEMMA AtBoundary ==
    ASSUME IInv, Facts, NEW b \in 1..Final, Boundary(b)
    PROVE  /\ parse = "chunk" /\ state = "STARTOFFIELD"
           /\ UNCHANGED <<form, got, tp, kept, temp, cancel>>
           /\ b \in Nat /\ part \in 0..form.n /\ part < b /\ part' = b
           /\ form.start[b] \in Nat /\ form.start[b] + BoundaryLength <= got
           /\ cur \in Nat /\ got \in 0..Length
           /\ tp \in 0..form.n /\ tp < b
           /\ \A j \in FormParts \ spoilt : j < b => Exact(j)
  <1>1. /\ parse = "chunk" /\ state = "STARTOFFIELD" /\ b \in Bounds(cur) /\ part' = b
        /\ \A c \in Bounds(cur) : b <= c
        /\ UNCHANGED <<form, got, tp, kept, temp, cancel>>
    BY DEF Boundary
  <1>2. /\ cur \in Nat /\ got \in 0..Length /\ got \in Nat /\ tp \in 0..form.n
        /\ b \in Nat /\ form.start[b] \in Nat
    BY DEF IInv, EcgiTypeOK, Facts
  <1>3. cur <= form.start[b] /\ form.start[b] + BoundaryLength <= got
    BY <1>1 DEF Bounds
  <1>4. part \in 0..form.n /\ part \in Nat /\ tp \in {0, part}
        /\ (part # 0 => part \in FormParts)
    BY <1>1 DEF IInv, Flow, FormParts, Facts
  <1>5. ASSUME part # 0  PROVE form.start[part] < cur /\ form.start[part] \in Nat
    <2>1. part \in FormParts /\ form.start[part] \in Nat
      BY <1>4, <1>5 DEF Facts
    <2>2. form.start[part] + BoundaryLength <= cur + 1
      BY <1>1, <1>2, <1>5, <2>1 DEF IInv, Past, Going, Facts
    <2> QED  BY <1>2, <2>1, <2>2 DEF Facts
  <1>6. part < b
    <2> SUFFICES ASSUME b <= part PROVE FALSE
      BY <1>2, <1>4
    <2>1. part # 0 /\ part \in FormParts /\ part \in 1..Final /\ b \in FormParts
      BY <1>2, <1>4 DEF FormParts, Facts
    <2>2. b < part => form.start[b] < form.start[part]
      <3>1. b < part => DataEnd(b) + 2 <= form.start[part]
        BY <2>1 DEF Facts
      <3>2. form.start[b] <= DataEnd(b) /\ DataEnd(b) \in Nat
        BY <1>2, <2>1 DEF Facts
      <3> QED  BY <1>2, <1>5, <2>1, <3>1, <3>2
    <2> QED  BY <1>2, <1>3, <1>4, <1>5, <2>1, <2>2
  <1>7. ASSUME NEW j \in FormParts, j \notin spoilt, j < b  PROVE Exact(j)
    <2>0. j \in Nat /\ j \in 1..Final /\ form.start[j] \in Nat
      BY DEF Facts
    <2>1. CASE j < part
      BY <1>1, <1>7, <2>1 DEF IInv, Behind, Going
    <2>2. CASE j = part
      <3>1. Clean
        BY <1>7, <2>2 DEF Clean
      <3>2. CASE tp = 0
        BY <1>1, <2>2, <3>1, <3>2 DEF IInv, AtTaken
      <3>3. CASE tp = part
        <4>1. /\ kept[part] = [from |-> Data(part), to |-> cur, count |-> cur - Data(part)]
              /\ cur = DataEnd(part)
          BY <1>1, <3>1, <3>3 DEF IInv, AtMiddle
        <4>2. DataEnd(part) - Data(part) = form.size[part]
          BY <1>7, <2>2 DEF Facts
        <4> QED  BY <2>2, <4>1, <4>2 DEF Exact
      <3> QED  BY <1>4, <3>2, <3>3
    <2>3. CASE part < j
      <3>1. cur <= form.start[j]
        BY <1>1, <1>2, <1>7, <2>0, <2>3 DEF IInv, Unread, Going
      <3>2. form.start[j] <= form.start[b]
        <4>1. DataEnd(j) + 2 <= form.start[b] /\ form.start[j] <= DataEnd(j) /\ DataEnd(j) \in Nat
          BY <1>7, <2>0 DEF Facts
        <4> QED  BY <1>2, <2>0, <4>1
      <3>3. j \in Bounds(cur)
        BY <1>2, <1>3, <2>0, <3>1, <3>2 DEF Bounds, Facts
      <3> QED  BY <1>1, <1>2, <1>7, <2>0, <3>3
    <2> QED  BY <1>4, <2>0, <2>1, <2>2, <2>3
  <1> QED  BY <1>1, <1>2, <1>3, <1>4, <1>6, <1>7, EcgiAssumption DEF Facts

(* The end of the form.                                                      *)
LEMMA FinalBoundaryStep == ASSUME IInv, Facts, FinalBoundary PROVE IInv'
  <1>1. /\ cur' = form.start[Final] + BoundaryLength
        /\ result' = "DONE" /\ state' = "END" /\ parse' = "stat"
        /\ UNCHANGED <<maxread, took, spoilt>> /\ got >= Length
        /\ Boundary(Final) /\ Final \in 1..Final
    BY DEF FinalBoundary, Facts
  <1>2. /\ UNCHANGED <<form, got, tp, kept, temp, cancel>> /\ part' = Final
        /\ form.start[Final] \in Nat /\ form.start[Final] + BoundaryLength <= got
        /\ tp \in 0..form.n /\ tp < Final
        /\ \A j \in FormParts \ spoilt : j < Final => Exact(j)
    BY <1>1, AtBoundary
  <1>3. Final' = Final /\ FormParts' = FormParts /\ Length' = Length /\ Final \in Nat
        /\ Final \notin FormParts /\ Final # 0
    BY <1>2 DEF Final, FormParts, Length, Facts
  <1>4. EcgiTypeOK'
    BY <1>1, <1>2, <1>3 DEF IInv, EcgiTypeOK, Facts
  <1>5. Flow' /\ Past'
    BY <1>1, <1>2, <1>3 DEF Flow, Past, Going, Facts
  <1>6. Unread' /\ New' /\ AtNew' /\ AtMiddle' /\ AtTaken' /\ Made'
    BY <1>1, <1>2, <1>3 DEF Unread, New, AtNew, AtMiddle, AtTaken, Made, JustFound,
         Clean, IInv, FormParts, Facts
  <1>7. Behind'
    BY <1>1, <1>2, <1>3 DEF Behind, Exact, Data, DataEnd
  <1> QED  BY <1>4, <1>5, <1>6, <1>7 DEF IInv

(* A new part, after its header or what the buffer has of it.                 *)
LEMMA NewPart ==
    ASSUME IInv, Facts, NEW b \in FormParts, Boundary(b), EcgiTypeOK', Unread', New', AtNew',
           \A k \in FormParts : k # b => took'[k] = took[k],
           parse' = "stat", cur' >= form.start[b] + BoundaryLength,
           spoilt \subseteq spoilt', result' # "DONE"
    PROVE  IInv'
  <1>1. /\ UNCHANGED <<form, got, tp, kept, temp, cancel>> /\ part' = b /\ part < b
        /\ part \in 0..form.n /\ parse = "chunk"
        /\ form.start[b] \in Nat /\ form.start[b] + BoundaryLength <= got
        /\ tp \in 0..form.n /\ tp < b /\ b \in Nat /\ b # Final
        /\ \A j \in FormParts \ spoilt : j < b => Exact(j)
    BY AtBoundary DEF Facts
  <1>2. Final' = Final /\ FormParts' = FormParts
    BY <1>1 DEF Final, FormParts
  <1>3. Flow' /\ Past'
    BY <1>1, <1>2 DEF Flow, Past, Going, FormParts, Facts
  <1>4. Behind'
    BY <1>1, <1>2 DEF Behind, Exact, Data, DataEnd
  <1>5. AtMiddle' /\ AtTaken'
    BY <1>1 DEF AtMiddle, AtTaken
  <1>6. Made'
    <2>1. temp[b] = "none"
      BY <1>1 DEF IInv, Unread, Going
    <2> QED  BY <1>1, <1>2, <2>1 DEF IInv, Made
  <1> QED  BY <1>3, <1>4, <1>5, <1>6 DEF IInv

LEMMA StartOfFieldStep ==
    ASSUME IInv, Facts, NEW b \in 1..Final, StartOfField(b)
    PROVE  IInv'
  <1>1. /\ b # Final /\ got >= Data(b) /\ cur' = Data(b) /\ parse' = "stat" /\ Boundary(b)
        /\ took' = [took EXCEPT ![b] = form.kind[b]] /\ spoilt' = spoilt
    BY DEF StartOfField
  <1>2. /\ parse = "chunk"
        /\ UNCHANGED <<form, got, tp, kept, temp, cancel>> /\ part' = b /\ part < b
        /\ part \in 0..form.n /\ form.start[b] \in Nat /\ got \in 0..Length /\ b \in Nat
        /\ tp \in 0..form.n /\ tp < b
    BY <1>1, AtBoundary
  <1>3. b \in FormParts
    BY <1>1 DEF FormParts, Facts
  <1>4. /\ Data(b) \in Nat /\ DataEnd(b) \in Nat /\ Data(b) <= DataEnd(b)
        /\ b + 1 \in 1..Final /\ form.start[b + 1] = DataEnd(b) + 2
        /\ Data(b) = form.start[b] + BoundaryLength + HeadLength
        /\ form.kind[b] \in {"field", "file", "unnamed"}
        /\ \A j \in 1..Final : b < j => DataEnd(b) + 2 <= form.start[j]
    BY <1>3 DEF Facts
  <1>5. b + 1 \in Bounds(Data(b)) <=> form.start[b + 1] + BoundaryLength <= got
    BY <1>4 DEF Bounds
  <1>6. /\ maxread' \in Nat /\ Data(b) + maxread' <= got /\ Data(b) + maxread' <= DataEnd(b)
        /\ \/ /\ state' = "STARTOFFIELD" /\ maxread' = DataEnd(b) - Data(b)
              /\ result' = IF form.kind[b] = "field" THEN "FULLFIELD" ELSE "FULLFILE"
           \/ /\ state' = "INFIELD"
              /\ result' = IF form.kind[b] = "field" THEN "PARTIALFIELD" ELSE "PARTIALFILE"
    <2>1. CASE Whole(b)
      BY <2>1, <1>2, <1>4, <1>5 DEF Whole, Facts
    <2>2. CASE Partial(b)
      BY <2>2, <1>1, <1>2, <1>4, <1>5 DEF Partial, AtLeast, Facts
    <2> QED  BY <2>1, <2>2 DEF StartOfField
  <1>7. FormParts' = FormParts /\ Final' = Final /\ Length' = Length
        /\ Data(b)' = Data(b) /\ DataEnd(b)' = DataEnd(b)
    BY <1>2 DEF FormParts, Final, Length, Data, DataEnd
  <1>8. took' \in [FormParts -> {"nothing", "field", "file", "unnamed"}] /\ took'[b] = form.kind[b]
    BY <1>1, <1>3, <1>4 DEF IInv, EcgiTypeOK
  <1>9. EcgiTypeOK'
    BY <1>1, <1>2, <1>4, <1>6, <1>7, <1>8 DEF IInv, EcgiTypeOK, Facts
  <1>10. Unread'
    <2>1. ASSUME NEW j \in FormParts, j > b
          PROVE  kept[j] = Nothing /\ temp[j] = "none" /\ ~(form.start[j] < Data(b))
      <3>1. j > part /\ j \in 1..Final /\ form.start[j] \in Nat
        BY <1>2, <2>1 DEF Facts
      <3> QED  BY <1>2, <1>4, <2>1, <3>1 DEF IInv, Unread, Going
    <2> QED  BY <1>1, <1>2, <1>7, <2>1 DEF Unread
  <1>11. New'
    BY <1>2, <1>4, <1>6, <1>8 DEF New
  <1>12. AtNew'
    <2>1. kept[b] = Nothing
      BY <1>2, <1>3 DEF IInv, Unread, Going
    <2> QED  BY <1>1, <1>2, <1>4, <1>6, <1>7, <2>1 DEF AtNew, Safe
  <1>13. \A k \in FormParts : k # b => took'[k] = took[k]
    BY <1>1 DEF IInv, EcgiTypeOK
  <1>14. cur' >= form.start[b] + BoundaryLength /\ result' # "DONE"
    BY <1>1, <1>2, <1>4, <1>6 DEF Facts
  <1> QED  BY <1>1, <1>3, <1>9, <1>10, <1>11, <1>12, <1>13, <1>14, NewPart

LEMMA HeaderCutStep ==
    ASSUME IInv, Facts, NEW b \in 1..Final, HeaderCut(b)
    PROVE  IInv'
  <1>1. /\ b # Final /\ cur' = got /\ parse' = "stat" /\ Boundary(b)
        /\ maxread' = 0 /\ state' = "INFIELD"
    BY DEF HeaderCut
  <1>2. /\ parse = "chunk"
        /\ UNCHANGED <<form, got, tp, kept, temp, cancel>> /\ part' = b /\ part < b
        /\ part \in 0..form.n /\ form.start[b] \in Nat /\ got \in 0..Length /\ b \in Nat
        /\ tp \in 0..form.n /\ tp < b /\ form.start[b] + BoundaryLength <= got
    BY <1>1, AtBoundary
  <1>3. b \in FormParts /\ form.kind[b] \in {"field", "file", "unnamed"}
    BY <1>1 DEF FormParts, Facts
  <1>4. PICK t \in {"field", "file", "unnamed"} :
            /\ took' = [took EXCEPT ![b] = t]
            /\ result' = IF t = "field" THEN "PARTIALFIELD" ELSE "PARTIALFILE"
    BY <1>3 DEF HeaderCut
  <1>5. /\ spoilt \subseteq spoilt' /\ spoilt' \subseteq FormParts /\ b \in spoilt'
        /\ \A j \in FormParts : j > part' /\ form.start[j] < cur' => j \in spoilt'
    <2>1. {b} \in SUBSET FormParts /\ Spoil({b})
      BY <1>3 DEF HeaderCut
    <2> QED  BY <2>1, Spoils
  <1>6. FormParts' = FormParts /\ Final' = Final /\ Length' = Length
    BY <1>2 DEF FormParts, Final, Length
  <1>7. took' \in [FormParts -> {"nothing", "field", "file", "unnamed"}] /\ took'[b] = t
        /\ \A k \in FormParts : k # b => took'[k] = took[k]
    BY <1>3, <1>4 DEF IInv, EcgiTypeOK
  <1>8. EcgiTypeOK'
    BY <1>1, <1>2, <1>4, <1>5, <1>6, <1>7 DEF IInv, EcgiTypeOK, Facts
  <1>9. Unread'
    <2>1. ASSUME NEW j \in FormParts, j > b
          PROVE  kept[j] = Nothing /\ temp[j] = "none"
      <3>1. j > part
        BY <1>2, <2>1 DEF Facts
      <3> QED  BY <1>2, <3>1 DEF IInv, Unread, Going
    <2> QED  BY <1>2, <1>5, <1>6, <2>1 DEF Unread
  <1>10. New' /\ AtNew'
    BY <1>1, <1>2, <1>4, <1>5, <1>7 DEF New, AtNew, Clean
  <1>11. cur' >= form.start[b] + BoundaryLength /\ result' # "DONE"
    BY <1>1, <1>2, <1>4 DEF Facts
  <1> QED  BY <1>1, <1>3, <1>5, <1>7, <1>8, <1>9, <1>10, <1>11, NewPart

LEMMA HeaderThrowsStep ==
    ASSUME IInv, Facts, NEW b \in 1..Final, HeaderThrows(b)
    PROVE  IInv'
  <1>1. /\ Boundary(b) /\ parse' = "threw"
        /\ UNCHANGED <<state, cur, result, maxread, took, spoilt>>
    BY DEF HeaderThrows
  <1>2. /\ UNCHANGED <<form, got, tp, kept, temp, cancel>> /\ part' = b
    BY <1>1, AtBoundary
  <1>3. EcgiTypeOK'
    <2>1. FormParts' = FormParts /\ Final' = Final /\ Length' = Length
      BY <1>2 DEF FormParts, Final, Length
    <2>2. part' \in 0..Final
      BY <1>2 DEF Facts
    <2> QED  BY <1>1, <1>2, <2>1, <2>2 DEF IInv, EcgiTypeOK
  <1>4. \A k \in FormParts' : temp'[k] = "made" => took'[k] = "unnamed"
    BY <1>1, <1>2 DEF IInv, Made, FormParts
  <1> QED  BY <1>1, <1>3, <1>4, Ended

-------------------------------------------------------------------------------
(* In the middle of a part.                                                  *)
LEMMA ReadMoreStep == ASSUME IInv, Facts, ReadMore PROVE IInv'
  <1>1. /\ UNCHANGED <<form, state, part, result, maxread, tp, took, kept, temp, cancel>>
        /\ parse = "chunk" /\ state = "INFIELD" /\ parse' = "search" /\ ReadPostPart
    BY DEF ReadMore
  <1>2. got' \in got..Length /\ cur' \in Nat /\ cur' = got - Fill /\ got \in 0..Length
        /\ cur \in Nat /\ maxread \in Int
    BY <1>1, Reads DEF IInv, EcgiTypeOK
  <1>3. /\ spoilt \subseteq spoilt' /\ spoilt' \subseteq FormParts
        /\ \A j \in FormParts : j > part' /\ form.start[j] < cur' => j \in spoilt'
    <2>1. {} \in SUBSET FormParts /\ Spoil({})
      BY DEF ReadMore
    <2> QED  BY <2>1, Spoils
  <1>4. FormParts' = FormParts /\ Final' = Final /\ Length' = Length
    BY <1>1 DEF FormParts, Final, Length
  <1>5. part # 0 /\ part \in FormParts /\ tp = part /\ part # Final /\ tp # 0
    BY <1>1 DEF IInv, Flow, FormParts, Facts
  <1>6. EcgiTypeOK'
    BY <1>1, <1>2, <1>3, <1>4 DEF IInv, EcgiTypeOK, Facts
  <1>7. Past'
    <2>1. /\ form.start[part] + BoundaryLength <= got /\ form.start[part] \in Nat
          /\ maxread >= 0 => form.start[part] + BoundaryLength <= cur
      BY <1>1, <1>2, <1>5 DEF IInv, Past, Going, Facts
    <2>2. cur' = got \/ (cur' = cur /\ maxread >= 0)
      BY <1>1, <1>2 DEF Fill
    <2> QED  BY <1>1, <1>2, <2>1, <2>2 DEF Past, Facts
  <1>8. Flow' /\ Unread' /\ Behind'
    BY <1>1, <1>3, <1>4, <1>5 DEF IInv, Flow, Unread, Behind, Going, Exact, Data,
         DataEnd
  <1>9. New' /\ AtNew' /\ AtTaken' /\ Made'
    BY <1>1, <1>4 DEF IInv, New, AtNew, AtTaken, JustFound, Made, Going
  <1>10. AtMiddle'
    <2> SUFFICES ASSUME Clean' PROVE AtMiddle'
      BY DEF AtMiddle
    <2>1. Clean
      BY <1>1, <1>3, <1>4 DEF Clean
    <2>2. cur <= got /\ maxread >= 0
      BY <1>1, <1>5, <2>1 DEF IInv, AtMiddle
    <2>3. cur' = cur
      BY <1>1, <1>2, <2>2 DEF Fill
    <2> QED  BY <1>1, <1>2, <1>5, <2>1, <2>2, <2>3 DEF IInv, AtMiddle, Data, DataEnd
  <1> QED  BY <1>6, <1>7, <1>8, <1>9, <1>10 DEF IInv

LEMMA SearchStep == ASSUME IInv, Facts, Search PROVE IInv'
  <1>1. /\ UNCHANGED <<form, cur, got, part, tp, data, cancel>>
        /\ parse = "search" /\ parse' = "stat"
    BY DEF Search
  <1>2. /\ part \in FormParts /\ tp = part /\ state = "INFIELD" /\ result # "DONE" /\ part # Final
        /\ cur \in Nat /\ got \in 0..Length /\ maxread \in Int /\ part # 0
    BY <1>1 DEF IInv, Flow, EcgiTypeOK, Going, Facts
  <1>3. /\ maxread' \in Int /\ state' \in {"STARTOFFIELD", "INFIELD"}
        /\ result' \in {"FULLFIELD", "PARTIALFIELD", "FULLFILE", "PARTIALFILE", "ERROR"}
    <2>1. result \in {"FULLFIELD", "PARTIALFIELD", "FULLFILE", "PARTIALFILE", "ERROR"}
      BY <1>2 DEF IInv, EcgiTypeOK
    <2>2. ASSUME NEW b \in Bounds(cur) PROVE form.start[b] - cur - 2 \in Int
      BY <1>2 DEF Bounds, Facts
    <2>3. got - cur - Margin \in Int
      BY <1>2 DEF Facts
    <2> QED  BY <1>2, <2>1, <2>2, <2>3 DEF Search
  <1>4. FormParts' = FormParts /\ Final' = Final /\ Length' = Length
    BY <1>1 DEF FormParts, Final, Length
  <1>5. EcgiTypeOK'
    BY <1>1, <1>3, <1>4 DEF IInv, EcgiTypeOK, data
  <1>6. Flow' /\ Past' /\ Unread' /\ Behind'
    BY <1>1, <1>2, <1>3, <1>4
       DEF IInv, Flow, Past, Unread, Behind, Going, Exact, Data, DataEnd, data, FormParts, Facts
  <1>7. New' /\ AtNew' /\ AtTaken' /\ Made'
    BY <1>1, <1>2, <1>4 DEF IInv, New, AtNew, AtTaken, JustFound, Made, Going, data
  <1>8. AtMiddle'
    <2> SUFFICES ASSUME Clean' PROVE AtMiddle'
      BY DEF AtMiddle
    <2>1. Clean
      BY <1>1, <1>4 DEF Clean, data
    <2>2. /\ kept[part] = [from |-> Data(part), to |-> cur, count |-> cur - Data(part)]
          /\ Data(part) <= cur /\ cur <= DataEnd(part) /\ cur <= got
      BY <1>1, <1>2, <2>1 DEF IInv, AtMiddle
    <2>3. /\ part \in Nat /\ part + 1 \in 1..Final /\ Data(part) \in Nat /\ DataEnd(part) \in Nat
          /\ form.start[part] < Data(part) /\ form.start[part + 1] = DataEnd(part) + 2
          /\ form.start[part] \in Nat
          /\ \A b \in 1..Final : part < b => DataEnd(part) + 2 <= form.start[b]
      BY <1>2 DEF Facts
    <2>4. form.start[part + 1] + BoundaryLength <= got => part + 1 \in Bounds(cur)
      BY <1>2, <2>2, <2>3 DEF Bounds
    <2>5. CASE Bounds(cur) = {}
      <3>1. maxread' = got - cur - Margin /\ state' = "INFIELD"
        BY <1>2, <2>5 DEF Search
      <3>2. got < DataEnd(part) + 2 + BoundaryLength
        BY <1>2, <2>3, <2>4, <2>5 DEF Facts
      <3>3. cur + maxread' <= got /\ cur + maxread' <= DataEnd(part)
        BY <1>2, <2>3, <3>1, <3>2 DEF Facts
      <3> QED  BY <1>1, <1>2, <2>2, <3>1, <3>3 DEF AtMiddle, Safe, Data, DataEnd, data
    <2>6. ASSUME NEW b \in Bounds(cur), \A c \in Bounds(cur) : b <= c,
                 maxread' = form.start[b] - cur - 2, state' = "STARTOFFIELD"
          PROVE  AtMiddle'
      <3>1. b \in 1..Final /\ b \in Nat /\ cur <= form.start[b] /\ form.start[b] \in Nat
            /\ form.start[b] + BoundaryLength <= got
        BY DEF Bounds, Facts
      <3>2. b > part
        <4> SUFFICES ASSUME b <= part PROVE FALSE
          BY <2>3, <3>1
        <4>1. b \in FormParts
          BY <1>2, <2>3, <3>1 DEF FormParts, Facts
        <4>2. b < part => DataEnd(b) + 2 <= form.start[part] /\ form.start[b] <= DataEnd(b)
                          /\ DataEnd(b) \in Nat
          BY <1>2, <4>1 DEF Facts
        <4> QED  BY <1>2, <2>2, <2>3, <3>1, <4>2
      <3>3. form.start[part + 1] <= form.start[b]
        BY <2>3, <3>1, <3>2
      <3>4. b = part + 1
        <4>1. part + 1 \in Bounds(cur)
          BY <1>2, <2>3, <2>4, <3>1, <3>3 DEF Facts
        <4> QED  BY <2>3, <2>6, <3>1, <3>2, <4>1
      <3>5. maxread' >= 0 /\ cur + maxread' = DataEnd(part) /\ cur + maxread' <= got
        BY <1>2, <2>2, <2>3, <2>6, <3>1, <3>4 DEF Facts
      <3> QED  BY <1>1, <1>2, <2>2, <2>3, <2>6, <3>5 DEF AtMiddle, Safe, Data, DataEnd, data
    <2> QED  BY <2>5, <2>6 DEF Search
  <1> QED  BY <1>5, <1>6, <1>7, <1>8 DEF IInv

-------------------------------------------------------------------------------
(* processMultiPart: a part that is in the buffer as a whole.                 *)
LEMMA WholeTaken ==
    ASSUME IInv, Facts, FullField \/ FullFile
    PROVE  IInv'
  <1>1. /\ parse = "stat" /\ cancel = FALSE /\ tp = 0 /\ result \in {"FULLFIELD", "FULLFILE"}
        /\ kept' = [kept EXCEPT ![part] = Piece] /\ cur' = cur + maxread + 2
        /\ UNCHANGED <<form, state, got, part, result, maxread, tp, took, cancel>>
        /\ \/ result = "FULLFIELD" /\ parse' = "added" /\ UNCHANGED temp
           \/ result = "FULLFILE" /\ parse' = "chunk" /\ MakeTemp
    BY DEF FullField, FullFile, IInv, EcgiTypeOK
  <1>2. /\ cur \in Nat /\ got \in 0..Length /\ maxread \in Int /\ part \in 0..Final
        /\ part # 0 /\ part # Final
    BY <1>1 DEF IInv, EcgiTypeOK, Flow, Going
  <1>3. part \in FormParts /\ part \in 0..form.n
    BY <1>2 DEF FormParts, Facts
  <1>4. /\ maxread >= 0 /\ state = "STARTOFFIELD" /\ took[part] # "nothing"
        /\ result = "FULLFIELD" <=> took[part] = "field"
    BY <1>1, <1>2, <1>3 DEF IInv, New, JustFound
  <1>5. /\ spoilt \subseteq spoilt' /\ spoilt' \subseteq FormParts
        /\ \A j \in FormParts : j > part' /\ form.start[j] < cur' => j \in spoilt'
    <2>1. {} \in SUBSET FormParts /\ Spoil({})
      BY DEF FullField, FullFile
    <2> QED  BY <2>1, Spoils
  <1>6. FormParts' = FormParts /\ Final' = Final /\ Length' = Length
    BY <1>1 DEF FormParts, Final, Length
  <1>7. /\ temp' \in [FormParts -> {"none", "made", "listed"}]
        /\ \A k \in FormParts : k # part => temp'[k] = temp[k]
        /\ temp'[part] = "made" => took[part] = "unnamed"
    <2>1. temp \in [FormParts -> {"none", "made", "listed"}]
          /\ took[part] \in {"nothing", "field", "file", "unnamed"}
      BY <1>3 DEF IInv, EcgiTypeOK
    <2>2. CASE UNCHANGED temp
      BY <1>3, <2>1, <2>2 DEF IInv, Made
    <2>3. CASE MakeTemp /\ result = "FULLFILE"
      BY <1>3, <1>4, <2>1, <2>3 DEF MakeTemp
    <2> QED  BY <1>1, <2>2, <2>3
  <1>8. EcgiTypeOK'
    <2>1. Piece \in [from : Nat, to : Nat, count : Nat] /\ cur' \in Nat
      BY <1>1, <1>2, <1>4 DEF Piece
    <2> QED  BY <1>1, <1>5, <1>6, <1>7, <2>1 DEF IInv, EcgiTypeOK
  <1>9. Flow' /\ Past'
    BY <1>1, <1>2, <1>3, <1>4, <1>6 DEF IInv, Flow, Past, Going, Facts
  <1>10. Unread' /\ Behind'
    <2>1. \A j \in FormParts : j # part => kept'[j] = kept[j]
      BY <1>1 DEF IInv, EcgiTypeOK
    <2>2. part \in Nat /\ \A j \in FormParts : j \in Nat
      BY <1>3 DEF Facts
    <2> QED
      BY <1>1, <1>2, <1>5, <1>6, <1>7, <2>1, <2>2
         DEF IInv, Unread, Behind, Going, Exact, Data, DataEnd
  <1>11. New' /\ AtNew' /\ AtMiddle' /\ Made'
    BY <1>1, <1>2, <1>6, <1>7 DEF IInv, New, AtNew, AtMiddle, JustFound, Made
  <1>12. AtTaken'
    <2> SUFFICES ASSUME Clean' PROVE Exact(part)'
      BY <1>1 DEF AtTaken
    <2>1. Clean
      BY <1>1, <1>5, <1>6 DEF Clean
    <2>2. cur = Data(part) /\ cur + maxread = DataEnd(part)
      BY <1>1, <1>2, <1>3, <1>4, <2>1 DEF IInv, AtNew, JustFound, Safe
    <2>3. maxread = form.size[part]
      BY <1>2, <1>3, <2>2 DEF Facts
    <2>4. kept'[part] = Piece
      BY <1>1, <1>3 DEF IInv, EcgiTypeOK
    <2> QED  BY <1>1, <2>2, <2>3, <2>4 DEF Exact, Piece, Data, DataEnd
  <1> QED  BY <1>8, <1>9, <1>10, <1>11, <1>12 DEF IInv

(* What a turn of a do-while finds.                                          *)
LEMMA AtTurn ==
    ASSUME IInv, Facts, Turn
    PROVE  /\ parse = "stat" /\ cancel = FALSE /\ part \in FormParts /\ part # Final /\ part # 0
           /\ part \in 0..form.n /\ tp \in {0, part}
           /\ tp = 0 => maxread >= 0 /\ state = "INFIELD"
           /\ state \in {"STARTOFFIELD", "INFIELD"}
           /\ took[part] \in {"field", "file", "unnamed"}
           /\ cur \in Nat /\ got \in 0..Length /\ maxread \in Int
           /\ form.start[part] + BoundaryLength <= cur /\ form.start[part] \in Nat
  <1>1. /\ parse = "stat" /\ cancel = FALSE
        /\ tp = part \/ (tp = 0 /\ result \in {"PARTIALFIELD", "PARTIALFILE"})
    BY DEF Turn, IInv, EcgiTypeOK
  <1>2. /\ cur \in Nat /\ got \in 0..Length /\ maxread \in Int /\ part \in 0..Final
        /\ part # 0 /\ tp \in 0..form.n
    BY <1>1 DEF IInv, EcgiTypeOK, Flow
  <1>3. part # Final /\ part \in FormParts /\ part \in 0..form.n
    BY <1>1, <1>2 DEF IInv, Flow, Going, FormParts, Facts
  <1>4. took[part] \in {"nothing", "field", "file", "unnamed"}
    BY <1>3 DEF IInv, EcgiTypeOK
  <1>5. CASE tp = part
    BY <1>1, <1>2, <1>3, <1>4, <1>5 DEF IInv, Flow, Past, Going, Made, Facts
  <1>6. CASE tp # part
    BY <1>1, <1>2, <1>3, <1>4, <1>6 DEF IInv, New, JustFound, Past, Going, Facts
  <1> QED  BY <1>5, <1>6

(* The temporary file a turn makes, or has made already.                      *)
LEMMA TempMade ==
    ASSUME IInv, Facts, part \in FormParts, took[part] \in {"file", "unnamed"}, MakeTemp
    PROVE  /\ temp' \in [FormParts -> {"none", "made", "listed"}]
           /\ \A k \in FormParts : k # part => temp'[k] = temp[k]
           /\ temp'[part] = "made" => took[part] = "unnamed"
  BY DEF IInv, EcgiTypeOK, MakeTemp

LEMMA TakePieceStep == ASSUME IInv, Facts, TakePiece PROVE IInv'
  <1>1. /\ maxread >= 0 /\ tp' = part /\ cur' = cur + maxread /\ parse' = "chunk"
        /\ kept' = [kept EXCEPT ![part] = AddPiece(@)] /\ Turn
        /\ UNCHANGED <<form, state, got, part, result, maxread, took, cancel>>
    BY DEF TakePiece
  <1>2. /\ parse = "stat" /\ cancel = FALSE /\ part \in FormParts /\ part # Final /\ part # 0
        /\ part \in 0..form.n /\ tp \in {0, part}
        /\ tp = 0 => maxread >= 0 /\ state = "INFIELD"
        /\ state \in {"STARTOFFIELD", "INFIELD"}
        /\ took[part] \in {"field", "file", "unnamed"}
        /\ cur \in Nat /\ got \in 0..Length /\ maxread \in Int
        /\ form.start[part] + BoundaryLength <= cur /\ form.start[part] \in Nat
    BY <1>1, AtTurn
  <1>3. /\ spoilt \subseteq spoilt' /\ spoilt' \subseteq FormParts
        /\ \A j \in FormParts : j > part' /\ form.start[j] < cur' => j \in spoilt'
    <2>1. {} \in SUBSET FormParts /\ Spoil({})
      BY DEF TakePiece
    <2> QED  BY <2>1, Spoils
  <1>4. FormParts' = FormParts /\ Final' = Final /\ Length' = Length
    BY <1>1 DEF FormParts, Final, Length
  <1>5. /\ temp' \in [FormParts -> {"none", "made", "listed"}]
        /\ \A k \in FormParts : k # part => temp'[k] = temp[k]
        /\ temp'[part] = "made" => took[part] = "unnamed"
    <2>1. CASE took[part] = "field"
      BY <1>2, <2>1 DEF TakePiece, IInv, Made, EcgiTypeOK
    <2>2. CASE took[part] # "field"
      BY <1>2, <2>2, TempMade DEF TakePiece
    <2> QED  BY <2>1, <2>2
  <1>6. kept[part] \in [from : Nat, to : Nat, count : Nat] /\ kept'[part] = AddPiece(kept[part])
        /\ \A k \in FormParts : k # part => kept'[k] = kept[k]
    BY <1>1, <1>2 DEF IInv, EcgiTypeOK
  <1>7. AddPiece(kept[part]) \in [from : Nat, to : Nat, count : Nat]
    BY <1>1, <1>2, <1>6 DEF AddPiece, Piece
  <1>8. EcgiTypeOK'
    <2>1. cur' \in Nat /\ tp' \in 0..form.n
      BY <1>1, <1>2
    <2>2. kept' \in [FormParts -> [from : Nat, to : Nat, count : Nat]]
      BY <1>1, <1>2, <1>7 DEF IInv, EcgiTypeOK
    <2> QED  BY <1>1, <1>2, <1>3, <1>4, <1>5, <2>1, <2>2 DEF IInv, EcgiTypeOK
  <1>9. Flow' /\ Past'
    BY <1>1, <1>2, <1>4 DEF IInv, Flow, Past, Going, Facts
  <1>10. Unread' /\ Behind'
    <2>1. part \in Nat /\ \A j \in FormParts : j \in Nat
      BY <1>2 DEF Facts
    <2> QED
      BY <1>1, <1>2, <1>3, <1>4, <1>5, <1>6, <2>1
         DEF IInv, Unread, Behind, Going, Exact, Data, DataEnd
  <1>11. New' /\ AtNew' /\ AtTaken' /\ Made'
    BY <1>1, <1>2, <1>4, <1>5 DEF IInv, New, AtNew, AtTaken, JustFound, Made
  <1>12. AtMiddle'
    <2> SUFFICES ASSUME Clean' PROVE AtMiddle'
      BY DEF AtMiddle
    <2>1. Clean
      BY <1>1, <1>3, <1>4 DEF Clean
    <2>2. Data(part) \in Nat /\ DataEnd(part) \in Nat /\ Data(part) > 0
      BY <1>2 DEF Facts
    <2>3. CASE tp = part
      <3>1. /\ kept[part] = [from |-> Data(part), to |-> cur, count |-> cur - Data(part)]
            /\ Data(part) <= cur /\ cur <= DataEnd(part) /\ cur <= got /\ Safe
        BY <1>2, <2>1, <2>3 DEF IInv, AtMiddle
      <3>2. kept[part] # Nothing
        BY <2>2, <3>1 DEF Nothing
      <3>3. kept'[part] = [from |-> Data(part), to |-> cur + maxread,
                           count |-> cur - Data(part) + maxread]
        BY <1>6, <3>1, <3>2 DEF AddPiece
      <3> QED
        BY <1>1, <1>2, <2>2, <3>1, <3>3 DEF AtMiddle, Safe, Data, DataEnd
    <2>4. CASE tp # part
      <3>1. cur = Data(part) /\ kept[part] = Nothing /\ Safe
        BY <1>2, <2>1, <2>4 DEF IInv, AtNew, JustFound
      <3>2. kept'[part] = [from |-> cur, to |-> cur + maxread, count |-> maxread]
        BY <1>6, <3>1 DEF AddPiece, Piece
      <3>3. state = "INFIELD"
        BY <1>2, <2>4
      <3> QED
        BY <1>1, <1>2, <2>2, <3>1, <3>2, <3>3 DEF AtMiddle, Safe, Data, DataEnd
    <2> QED  BY <2>3, <2>4
  <1> QED  BY <1>8, <1>9, <1>10, <1>11, <1>12 DEF IInv

LEMMA TakeLessStep == ASSUME IInv, Facts, TakeLess PROVE IInv'
  <1>1. /\ maxread < 0 /\ Turn
        /\ UNCHANGED <<form, state, got, part, result, maxread, tp, took, kept, temp, cancel>>
    BY DEF TakeLess
  <1>2. /\ parse = "stat" /\ cancel = FALSE /\ part \in FormParts /\ part # Final /\ part # 0
        /\ part \in 0..form.n /\ tp \in {0, part}
        /\ tp = 0 => maxread >= 0 /\ state = "INFIELD"
        /\ state \in {"STARTOFFIELD", "INFIELD"}
        /\ cur \in Nat /\ got \in 0..Length /\ maxread \in Int
        /\ form.start[part] + BoundaryLength <= cur /\ form.start[part] \in Nat
    BY <1>1, AtTurn
  <1>3. tp = part
    BY <1>1, <1>2
  <1>4. CASE parse' \in {"uncaught", "threw"} /\ UNCHANGED <<cur, spoilt>>
    BY <1>1, <1>4, Ends DEF pos, data
  <1>5. CASE maxread = -1 /\ cur' = cur + maxread /\ parse' = "chunk" /\ Spoil({part})
    <2>1. /\ spoilt \subseteq spoilt' /\ spoilt' \subseteq FormParts /\ part \in spoilt'
          /\ \A j \in FormParts : j > part' /\ form.start[j] < cur' => j \in spoilt'
      <3>1. {part} \in SUBSET FormParts
        BY <1>2
      <3> QED  BY <1>5, <3>1, Spoils
    <2>2. FormParts' = FormParts /\ Final' = Final /\ Length' = Length
      BY <1>1 DEF FormParts, Final, Length
    <2>3. cur' \in Nat
      BY <1>2, <1>5 DEF Facts
    <2>4. EcgiTypeOK'
      BY <1>1, <1>5, <2>1, <2>2, <2>3 DEF IInv, EcgiTypeOK
    <2>5. Flow' /\ Past'
      BY <1>1, <1>2, <1>3, <1>5, <2>2 DEF IInv, Flow, Past, Going, Facts
    <2>6. Unread' /\ Behind'
      BY <1>1, <1>2, <2>1, <2>2 DEF IInv, Unread, Behind, Going, Exact, Data, DataEnd
    <2>7. New' /\ AtNew' /\ AtTaken' /\ AtMiddle' /\ Made'
      BY <1>1, <1>2, <1>3, <1>5, <2>1, <2>2
         DEF IInv, New, AtNew, AtTaken, AtMiddle, JustFound, Clean, Made, Going
    <2> QED  BY <2>4, <2>5, <2>6, <2>7 DEF IInv
  <1> QED  BY <1>4, <1>5 DEF TakeLess

LEMMA WriteFailsStep == ASSUME IInv, Facts, WriteFails PROVE IInv'
  <1>1. /\ parse' = "threw" /\ MakeTemp /\ took[part] # "field"
        /\ UNCHANGED <<form, pos, tp, took, kept, cancel, spoilt>>
    BY DEF WriteFails
  <1>2. part \in FormParts /\ took[part] \in {"file", "unnamed"}
    <2>1. CASE Turn
      BY <1>1, <2>1, AtTurn
    <2>2. CASE parse = "stat" /\ ~cancel /\ tp = 0 /\ result = "FULLFILE"
      <3>1. part \in 0..Final /\ part # 0 /\ part # Final
        BY <2>2 DEF IInv, EcgiTypeOK, Flow, Going
      <3>2. part \in FormParts /\ JustFound
        BY <2>2, <3>1 DEF FormParts, Facts, JustFound
      <3>3. took[part] \in {"nothing", "field", "file", "unnamed"} /\ took[part] # "nothing"
        BY <3>2 DEF IInv, EcgiTypeOK, New
      <3> QED  BY <1>1, <3>2, <3>3
    <2> QED  BY <2>1, <2>2 DEF WriteFails
  <1>3. /\ temp' \in [FormParts -> {"none", "made", "listed"}]
        /\ \A k \in FormParts : k # part => temp'[k] = temp[k]
        /\ temp'[part] = "made" => took[part] = "unnamed"
    BY <1>1, <1>2, TempMade
  <1>4. EcgiTypeOK'
    BY <1>1, <1>3 DEF IInv, EcgiTypeOK, pos, FormParts, Final, Length
  <1>5. \A k \in FormParts' : temp'[k] = "made" => took'[k] = "unnamed"
    BY <1>1, <1>3 DEF IInv, Made, FormParts
  <1> QED  BY <1>1, <1>4, <1>5, Ended

(* The ends of the do-whiles, by the next boundary or by a cancel.            *)
LEMMA EndOfFieldStep == ASSUME IInv, Facts, EndOfField PROVE IInv'
  <1>1. /\ UNCHANGED <<form, state, got, part, result, maxread, tp, took, temp, cancel>>
        /\ parse = "stat" /\ tp # 0 /\ (tp # part \/ cancel = TRUE)
        /\ cur' = cur + 2 /\ parse' = "added"
    BY DEF EndOfField, LoopEnds, IInv, EcgiTypeOK
  <1>2. /\ cur \in Nat /\ part \in 0..Final /\ tp \in 0..form.n /\ tp <= part /\ part # 0
        /\ tp \in FormParts /\ got \in 0..Length
    BY <1>1 DEF IInv, EcgiTypeOK, Flow, FormParts, Facts
  <1>3. FormParts' = FormParts /\ Final' = Final /\ Length' = Length
    BY <1>1 DEF FormParts, Final, Length
  <1>4. /\ spoilt \subseteq spoilt' /\ spoilt' \subseteq FormParts
        /\ \A j \in FormParts : j > part' /\ form.start[j] < cur' => j \in spoilt'
        /\ kept' \in [FormParts -> [from : Nat, to : Nat, count : Nat]]
        /\ \A j \in FormParts : kept'[j] = kept[j] \/ (j = tp /\ j \in spoilt')
        /\ part \in {tp, Final} \/ part \in spoilt'
    <2>0. kept \in [FormParts -> [from : Nat, to : Nat, count : Nat]]
      BY DEF IInv, EcgiTypeOK
    <2>1. CASE part \in {tp, Final} /\ UNCHANGED kept /\ Spoil({})
      <3>1. {} \in SUBSET FormParts
        OBVIOUS
      <3> QED  BY <2>0, <2>1, <3>1, Spoils
    <2>2. CASE part \notin {tp, Final} /\ kept' = [kept EXCEPT ![tp] = Nothing] /\ Spoil({tp, part})
      <3>1. {tp, part} \in SUBSET FormParts
        BY <1>2, <2>2 DEF FormParts, Facts
      <3>2. /\ spoilt \subseteq spoilt' /\ spoilt' \subseteq FormParts /\ {tp, part} \subseteq spoilt'
            /\ \A j \in FormParts : j > part' /\ form.start[j] < cur' => j \in spoilt'
        BY <2>2, <3>1, Spoils
      <3> QED  BY <1>2, <2>0, <2>2, <3>2 DEF Nothing
    <2> QED  BY <2>1, <2>2 DEF EndOfField
  <1>5. EcgiTypeOK'
    BY <1>1, <1>2, <1>3, <1>4 DEF IInv, EcgiTypeOK
  <1>6. Flow' /\ Past'
    BY <1>1, <1>2, <1>3, <1>4 DEF IInv, Flow, Past, Going, Facts
  <1>7. Unread'
    <2>1. \A j \in FormParts : j > part => j # tp
      BY <1>2 DEF Facts
    <2> QED  BY <1>1, <1>3, <1>4, <2>1 DEF IInv, Unread, Going
  <1>8. Behind'
    BY <1>1, <1>3, <1>4 DEF IInv, Behind, Going, Exact, Data, DataEnd
  <1>9. New' /\ Made'
    BY <1>1, <1>3 DEF IInv, New, JustFound, Made, Going
  <1>10. AtNew' /\ AtMiddle' /\ AtTaken'
    BY <1>1, <1>2, <1>3, <1>4 DEF AtNew, AtMiddle, AtTaken, JustFound, Clean,
         FormParts, Facts
  <1> QED  BY <1>5, <1>6, <1>7, <1>8, <1>9, <1>10 DEF IInv

LEMMA EndOfFileStep == ASSUME IInv, Facts, EndOfFile PROVE IInv'
  <1>1. /\ UNCHANGED <<form, parse, pos, took, kept, cancel, spoilt>>
        /\ temp' = [temp EXCEPT ![tp] = "listed"] /\ tp' = 0
        /\ parse = "stat" /\ tp # 0 /\ (tp # part \/ cancel = TRUE)
    BY DEF EndOfFile, LoopEnds, IInv, EcgiTypeOK
  <1>2. /\ tp \in FormParts /\ part # 0 /\ tp <= part /\ part \in Nat
        /\ \A j \in FormParts : j \in Nat
    BY <1>1 DEF IInv, EcgiTypeOK, Flow, FormParts, Facts
  <1>3. FormParts' = FormParts /\ Final' = Final /\ Length' = Length
    BY <1>1 DEF FormParts, Final, Length
  <1>4. /\ temp' \in [FormParts -> {"none", "made", "listed"}] /\ temp'[tp] = "listed"
        /\ \A k \in FormParts : k # tp => temp'[k] = temp[k]
    BY <1>1, <1>2 DEF IInv, EcgiTypeOK
  <1>5. EcgiTypeOK'
    BY <1>1, <1>3, <1>4 DEF IInv, EcgiTypeOK, pos, Facts
  <1>6. Flow' /\ Past'
    BY <1>1, <1>2, <1>3 DEF IInv, Flow, Past, Going, pos
  <1>7. Unread' /\ Behind'
    BY <1>1, <1>2, <1>3, <1>4 DEF IInv, Unread, Behind, Going, Exact, Data, DataEnd, pos
  <1>8. New'
    BY <1>1, <1>3 DEF IInv, New, JustFound, pos
  <1>9. AtNew'
    BY <1>1, <1>3 DEF IInv, AtNew, JustFound, Clean, Safe, Data, DataEnd, pos
  <1>10. AtMiddle' /\ AtTaken' /\ Made'
    BY <1>1, <1>2, <1>3, <1>4 DEF IInv, AtMiddle, AtTaken, Made, Going, Clean, pos
  <1> QED  BY <1>5, <1>6, <1>7, <1>8, <1>9, <1>10 DEF IInv

(* Whatever the handlers do, a cancel is not taken back.                      *)
LEMMA FieldAddedStep ==
    ASSUME IInv, Facts, FieldAdded, cancel' \in {cancel, TRUE}
    PROVE  IInv'
  <1>1. /\ UNCHANGED <<form, pos, data>> /\ parse = "added" /\ tp' = 0
        /\ parse' = IF tp = 0 THEN "chunk" ELSE "stat"
    BY DEF FieldAdded
  <1>2. cancel' \in BOOLEAN /\ (cancel => cancel')
    BY DEF IInv, EcgiTypeOK
  <1>3. /\ part # 0 /\ (tp = 0 => part \in FormParts /\ part \in 0..form.n /\ state = "STARTOFFIELD")
        /\ (tp # 0 /\ ~cancel => tp # part) /\ part \in Nat /\ cur \in Nat
    BY <1>1 DEF IInv, EcgiTypeOK, Flow, FormParts, Facts
  <1>4. FormParts' = FormParts /\ Final' = Final /\ Length' = Length
    BY <1>1 DEF FormParts, Final, Length
  <1>5. EcgiTypeOK'
    BY <1>1, <1>2, <1>4 DEF IInv, EcgiTypeOK, pos, data, Facts
  <1>6. Flow'
    BY <1>1, <1>3, <1>4 DEF IInv, Flow, Going, pos
  <1>7. Past'
    <2>1. part # 0 => form.start[part] \in Nat
      BY <1>3 DEF IInv, EcgiTypeOK, Facts
    <2> QED  BY <1>1, <1>3, <2>1 DEF IInv, Past, Going, pos, Facts
  <1>8. Unread' /\ Behind'
    BY <1>1, <1>4 DEF IInv, Unread, Behind, Going, Exact, Data, DataEnd, pos, data
  <1>9. New'
    BY <1>1, <1>2, <1>3, <1>4 DEF IInv, New, JustFound, pos, data
  <1>10. AtNew'
    BY <1>1, <1>2, <1>3, <1>4
       DEF IInv, AtNew, JustFound, Clean, Safe, Data, DataEnd, pos, data
  <1>11. AtMiddle' /\ AtTaken' /\ Made'
    BY <1>1, <1>3, <1>4 DEF IInv, AtMiddle, AtTaken, Made, Going, Clean, Exact, Data,
         DataEnd, pos, data
  <1> QED  BY <1>5, <1>6, <1>7, <1>8, <1>9, <1>10, <1>11 DEF IInv

LEMMA DoneStep == ASSUME IInv, Facts, Done PROVE IInv'
  <1>1. /\ UNCHANGED <<form, pos, tp, data, cancel>>
        /\ parse = "stat" /\ result = "DONE" /\ parse' = "done"
    BY DEF Done
  <1>2. part = Final
    BY <1>1 DEF IInv, Flow, Going
  <1>3. EcgiTypeOK'
    BY <1>1 DEF IInv, EcgiTypeOK, pos, data, FormParts, Final, Length
  <1>4. Flow' /\ Past' /\ Unread' /\ Behind'
    BY <1>1, <1>2 DEF IInv, Flow, Past, Unread, Behind, Going, Exact, Data, DataEnd,
                      Final, FormParts, pos, data
  <1>5. New' /\ AtNew' /\ AtMiddle' /\ AtTaken' /\ Made'
    BY <1>1 DEF IInv, New, AtNew, AtMiddle, AtTaken, Made, JustFound, Going, FormParts,
         data
  <1> QED  BY <1>3, <1>4, <1>5 DEF IInv

-------------------------------------------------------------------------------
(* Every step, of parse or of who cancels it, keeps the invariant.            *)
LEMMA Inductive ==
    ASSUME IInv,
           \/ ParseStep
           \/ FieldAdded /\ cancel' \in {cancel, TRUE}
           \/ CancelUpload
           \/ UNCHANGED vars
    PROVE  IInv'
  <1>0. Facts
    BY FactsHold DEF IInv
  <1>1. CASE Reading
    <2>1. CASE ReadFails
      BY <2>1, Ends DEF ReadFails
    <2> QED  BY <1>0, <1>1, <2>1, ReadFirstStep, ReadMoreStep DEF Reading
  <1>2. CASE Chunk
    <2>1. CASE BoundaryNotFound
      BY <2>1, Ends DEF BoundaryNotFound
    <2>2. ASSUME NEW b \in 1..Final, HeaderThrows(b) \/ HeaderCut(b) \/ StartOfField(b)
          PROVE  IInv'
      BY <1>0, <2>2, HeaderThrowsStep, HeaderCutStep, StartOfFieldStep
    <2> QED  BY <1>0, <1>2, <2>1, <2>2, FinalBoundaryStep, SearchStep DEF Chunk
  <1>3. CASE Taking
    <2>1. CASE StopOnCancel
      BY <2>1, Ends DEF StopOnCancel
    <2> QED  BY <1>0, <1>3, <2>1, WholeTaken, TakePieceStep, TakeLessStep, WriteFailsStep,
                EndOfFieldStep, EndOfFileStep, DoneStep DEF Taking
  <1>4. CASE FieldAdded /\ cancel' \in {cancel, TRUE}
    BY <1>0, <1>4, FieldAddedStep
  <1>5. CASE CancelUpload
    BY <1>5, Stutter DEF CancelUpload
  <1>6. CASE UNCHANGED vars
    BY <1>6, Stutter DEF vars, IInv, EcgiTypeOK
  <1> QED  BY <1>1, <1>2, <1>3, <1>4, <1>5, <1>6 DEF ParseStep

LEMMA Consequences == IInv => PartsAreExact
  <1> SUFFICES ASSUME IInv, parse = "done", NEW k \in FormParts \ spoilt PROVE Exact(k)
    BY DEF PartsAreExact
  <1>1. Facts
    BY FactsHold DEF IInv
  <1>2. part = Final /\ k < part
    BY <1>1 DEF IInv, Flow, Facts, FormParts
  <1> QED  BY <1>2 DEF IInv, Behind

(* A parse that ends well has each part byte for byte, for any form, buffer   *)
(* and reads, save the parts that spoilt names, as the code misreads them     *)
(* (processMultiPart and processChunk, ECGI.cpp:205-480).                     *)
THEOREM ExactParser == Spec => []PartsAreExact
  <1>1. IInv /\ [Next]_vars => IInv'
    BY Inductive DEF Next
  <1> QED  BY Initially, <1>1, Consequences, PTL DEF Spec
===============================================================================
