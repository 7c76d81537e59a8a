--------------------------- MODULE HttpFramingProofs ---------------------------
(***************************************************************************)
(* Theorems about HttpFraming, for bodies of every length, buffers of      *)
(* every capacity and any number of requests: the messages handed over are *)
(* the requests sent, and the buffer holds the rest of the stream.  They   *)
(* hold under the conditions of the run, which Cuts names, and as long as  *)
(* size_t does not wrap around.                                            *)
(*                                                                         *)
(* The proof looks at the cells that belong to no message yet, those in    *)
(* the buffer and behind them those in the kernel, as one function on      *)
(* 1..N: Framed says that it is the requests not delivered, one behind the *)
(* other.  Sending appends to it, handing a message over drops a prefix,   *)
(* and a read leaves it as it is.                                          *)
(***************************************************************************)
EXTENDS HttpFraming, SequenceTheorems, TLAPS

\* Requests have bodies, and a read ends inside a head or just before the last
\* four bytes of a request only where the buffer is full.
Cuts == Bodies \subseteq Nat \ {0} /\ SplitHeads = FALSE /\ SplitLast = FALSE

\* Whatever a client sends ahead is counted by size_t.
Fits(B) == B \in Nat /\ (\A n \in Bodies : n <= B) /\ Window * (B + 3) < SizeT

Buffer == {b \in [buffer_ : Seq(Cell \cup {Nul}), readIndex_ : Nat, writeIndex_ : Nat] :
             b.readIndex_ <= b.writeIndex_ /\ b.writeIndex_ < Len(b.buffer_)}

\* The cells of request k, from its line to the end of its body.
Request(k, n) == HeadOf(k, n) \o BodyOf(k, n)

\* The cells that belong to no message yet.
held(b) == b.writeIndex_ - b.readIndex_
Pending(b, x) ==
  [i \in 1 .. held(b) + Len(x) |->
     IF i <= held(b) THEN b.buffer_[b.readIndex_ + i] ELSE x[i - held(b)]]

Values(U, N) == {U[i] : i \in 1..N}

\* Request k is the first one, as a whole.
Begins(U, k, n) == \A q \in 1 .. n + 3 : U[q] = Request(k, n)[q]

Last(cell, L) == cell.kind = "body" /\ cell.n = L[cell.req]

\* U[1..N] is the requests d+1, d+2, ... of L, each of them whole.
StartsRight(U, N, L, d) == N > 0 => U[1].kind = "line" /\ U[1].req = d + 1
Whole(U, N, L) ==
  \A i \in 1..N : U[i].kind = "line" =>
    /\ i + L[U[i].req] + 2 <= N
    /\ \A q \in 1 .. L[U[i].req] + 3 :
         U[i + q - 1] = Request(U[i].req, L[U[i].req])[q]
InOrder(U, N, L) ==
  \A i \in 1 .. N - 1 : Last(U[i], L) =>
    U[i + 1].kind = "line" /\ U[i + 1].req = U[i].req + 1
OfRequests(U, N, L, d) ==
  \A i \in 1..N : \E k \in d + 1 .. Len(L) : \E q \in 1 .. L[k] + 3 :
    U[i] = Request(k, L[k])[q]
AllThere(U, N, L, d) ==
  \A k \in d + 1 .. Len(L) : \E i \in 1..N : U[i].kind = "line" /\ U[i].req = k
Distinct(U, N) == \A i, j \in 1..N : U[i] = U[j] => i = j
EndsRight(U, N, L) == N > 0 => Last(U[N], L) /\ U[N].req = Len(L)
Short(U, N, L, B) ==
  \A i \in 1..N : U[i].kind = "line" => N - i + 1 <= (Len(L) + 1 - U[i].req) * (B + 3)

Framed(U, N, L, d, B) ==
  /\ StartsRight(U, N, L, d)
  /\ Whole(U, N, L)
  /\ InOrder(U, N, L)
  /\ OfRequests(U, N, L, d)
  /\ AllThere(U, N, L, d)
  /\ Distinct(U, N)
  /\ EndsRight(U, N, L)
  /\ Short(U, N, L, B)

\* Where the last read ended: before a line, inside a body, or inside a head in a
\* full buffer, behind whose cells there is zero.
ReadEnded(b, x) ==
  x # <<>> =>
    \/ x[1].kind = "line"
    \/ x[1].kind = "body" /\ x[1].n # lengths[x[1].req]
    \/ /\ x[1].kind \in {"len", "end"}
       /\ \A i \in b.writeIndex_ + 1 .. Len(b.buffer_) : b.buffer_[i] = Nul

\* What the session knows of request k: nothing, or what its head says.
Parsed(k, n) == [url_ |-> k, contentLength_ |-> n]
HeadKnown(b, cl, req, k) ==
  IF cl = -1 THEN req = NewRequest
  ELSE held(b) >= 3 /\ cl = lengths[k] /\ req = Parsed(k, lengths[k])

IndInv(B) ==
  /\ TypeOK
  /\ readBuffer \in Buffer
  /\ Len(lengths) <= MaxReq
  /\ Len(lengths) <= Len(delivered) + Window
  /\ DeliversTheRequests
  /\ Framed(Pending(readBuffer, rx), held(readBuffer) + Len(rx), lengths, Len(delivered), B)
  /\ ReadEnded(readBuffer, rx)
  /\ HeadKnown(readBuffer, contentLength_, httpRequset_, Len(delivered) + 1)

------------------------------------------------------------------------------
(* The cells of a request *)

\* Three cells of head and n of body, each of them with the number of its request.
LEMMA RequestCells ==
  ASSUME NEW k \in 1..MaxReq, NEW n \in Nat
  PROVE  /\ Request(k, n) \in Seq(Cell) /\ Len(Request(k, n)) = n + 3
         /\ Request(k, n)[1] = [req |-> k, kind |-> "line", n |-> 0]
         /\ Request(k, n)[2] = [req |-> k, kind |-> "len", n |-> n]
         /\ Request(k, n)[3] = [req |-> k, kind |-> "end", n |-> 0]
         /\ \A q \in 4 .. n + 3 : Request(k, n)[q] = [req |-> k, kind |-> "body", n |-> q - 3]
<1>1. /\ HeadOf(k, n) \in Seq(Cell) /\ Len(HeadOf(k, n)) = 3
      /\ HeadOf(k, n)[1] = [req |-> k, kind |-> "line", n |-> 0]
      /\ HeadOf(k, n)[2] = [req |-> k, kind |-> "len", n |-> n]
      /\ HeadOf(k, n)[3] = [req |-> k, kind |-> "end", n |-> 0]
  BY DEF HeadOf, Cell, Kind
<1>2. \A i \in 1..n : [req |-> k, kind |-> "body", n |-> i] \in Cell
  BY DEF Cell, Kind
<1>3. /\ BodyOf(k, n) \in Seq(Cell) /\ Len(BodyOf(k, n)) = n
      /\ \A i \in 1..n : BodyOf(k, n)[i] = [req |-> k, kind |-> "body", n |-> i]
  BY <1>2 DEF BodyOf
<1>4. /\ Request(k, n) \in Seq(Cell) /\ Len(Request(k, n)) = n + 3
      /\ \A q \in 1 .. n + 3 : Request(k, n)[q] =
           IF q <= 3 THEN HeadOf(k, n)[q] ELSE BodyOf(k, n)[q - 3]
  <2>. DEFINE H == HeadOf(k, n)
              T == BodyOf(k, n)
  <2>. HIDE DEF H, T
  <2>1. H \in Seq(Cell) /\ T \in Seq(Cell) /\ Len(H) = 3 /\ Len(T) = n
    BY <1>1, <1>3 DEF H, T
  <2>2. /\ H \o T \in Seq(Cell) /\ Len(H \o T) = Len(H) + Len(T)
        /\ \A q \in 1 .. Len(H) + Len(T) :
             (H \o T)[q] = IF q <= Len(H) THEN H[q] ELSE T[q - Len(H)]
    BY <2>1, ConcatProperties
  <2>3. Request(k, n) = H \o T
    BY DEF Request, H, T
  <2>4. Len(H) + Len(T) = n + 3
    BY <2>1
  <2>5. \A q \in 1 .. n + 3 : (H \o T)[q] = IF q <= 3 THEN H[q] ELSE T[q - 3]
    BY <2>1, <2>2, <2>4
  <2>. QED
    BY <2>2, <2>3, <2>4, <2>5 DEF H, T
<1>5. \A q \in 4 .. n + 3 : Request(k, n)[q] = BodyOf(k, n)[q - 3] /\ q - 3 \in 1..n
  BY <1>4
<1>. QED
  BY <1>1, <1>3, <1>4, <1>5

\* A cell tells its request and its place in it.
LEMMA CellsDiffer ==
  ASSUME NEW k \in 1..MaxReq, NEW n \in Nat, NEW l \in 1..MaxReq, NEW m \in Nat,
         NEW q \in 1 .. n + 3, NEW p \in 1 .. m + 3,
         Request(k, n)[q] = Request(l, m)[p]
  PROVE  k = l /\ q = p
<1>1. /\ q = 1 => Request(k, n)[q] = [req |-> k, kind |-> "line", n |-> 0]
      /\ q = 2 => Request(k, n)[q] = [req |-> k, kind |-> "len", n |-> n]
      /\ q = 3 => Request(k, n)[q] = [req |-> k, kind |-> "end", n |-> 0]
      /\ q > 3 => Request(k, n)[q] = [req |-> k, kind |-> "body", n |-> q - 3]
  BY RequestCells
<1>2. /\ p = 1 => Request(l, m)[p] = [req |-> l, kind |-> "line", n |-> 0]
      /\ p = 2 => Request(l, m)[p] = [req |-> l, kind |-> "len", n |-> m]
      /\ p = 3 => Request(l, m)[p] = [req |-> l, kind |-> "end", n |-> 0]
      /\ p > 3 => Request(l, m)[p] = [req |-> l, kind |-> "body", n |-> p - 3]
  BY RequestCells
<1>. QED
  BY <1>1, <1>2

\* What tells the first and the last cell of a request from the others.
LEMMA FirstAndLast ==
  ASSUME NEW k \in 1..MaxReq, NEW n \in Nat \ {0}, NEW q \in 1 .. n + 3
  PROVE  /\ Request(k, n)[q].req = k
         /\ Request(k, n)[q].kind = "line" => q = 1
         /\ q = 1 => Request(k, n)[q].kind = "line"
         /\ Request(k, n)[q].kind = "body" /\ Request(k, n)[q].n = n => q = n + 3
         /\ q = n + 3 => Request(k, n)[q].kind = "body" /\ Request(k, n)[q].n = n
<1>1. /\ q = 1 => Request(k, n)[q] = [req |-> k, kind |-> "line", n |-> 0]
      /\ q = 2 => Request(k, n)[q] = [req |-> k, kind |-> "len", n |-> n]
      /\ q = 3 => Request(k, n)[q] = [req |-> k, kind |-> "end", n |-> 0]
      /\ q > 3 => Request(k, n)[q] = [req |-> k, kind |-> "body", n |-> q - 3]
  BY RequestCells
<1>. QED
  BY <1>1

------------------------------------------------------------------------------
(* The requests not delivered *)

\* Each cell is one of the requests not delivered.
LEMMA CellsOfRequests ==
  ASSUME Bodies \subseteq Nat \ {0}, NEW L \in Seq(Bodies), Len(L) <= MaxReq,
         NEW d \in Nat, NEW N \in Nat, NEW U, OfRequests(U, N, L, d), NEW i \in 1..N
  PROVE  /\ U[i].req \in d + 1 .. Len(L) /\ L[U[i].req] \in Bodies
         /\ \E q \in 1 .. L[U[i].req] + 3 :
              /\ U[i] = Request(U[i].req, L[U[i].req])[q]
              /\ U[i].kind = "line" => q = 1
              /\ q = 1 => U[i].kind = "line"
              /\ Last(U[i], L) => q = L[U[i].req] + 3
              /\ q = L[U[i].req] + 3 => Last(U[i], L)
<1>1. PICK k \in d + 1 .. Len(L) : \E q \in 1 .. L[k] + 3 : U[i] = Request(k, L[k])[q]
  BY DEF OfRequests
<1>2. PICK q \in 1 .. L[k] + 3 : U[i] = Request(k, L[k])[q]
  BY <1>1
<1>3. k \in 1..MaxReq /\ k \in 1 .. Len(L) /\ MaxReq \in Nat
  BY FramingAssumption
<1>4. L[k] \in Bodies /\ L[k] \in Nat \ {0}
  BY <1>3, ElementOfSeq
<1>5. /\ Request(k, L[k])[q].req = k
      /\ Request(k, L[k])[q].kind = "line" => q = 1
      /\ q = 1 => Request(k, L[k])[q].kind = "line"
      /\ Request(k, L[k])[q].kind = "body" /\ Request(k, L[k])[q].n = L[k] => q = L[k] + 3
      /\ q = L[k] + 3 => Request(k, L[k])[q].kind = "body" /\ Request(k, L[k])[q].n = L[k]
  BY <1>3, <1>4, FirstAndLast
<1>. QED
  BY <1>1, <1>2, <1>4, <1>5 DEF Last

\* A request that is sent joins the end.
LEMMA FramedAppended ==
  ASSUME Bodies \subseteq Nat \ {0}, NEW B, Fits(B),
         NEW L \in Seq(Bodies), Len(L) < MaxReq, NEW d \in 0 .. Len(L), NEW n \in Bodies,
         NEW N \in Nat, NEW U, Framed(U, N, L, d, B),
         NEW V, \A i \in 1..N : V[i] = U[i],
         \A q \in 1 .. n + 3 : V[N + q] = Request(Len(L) + 1, n)[q]
  PROVE  Framed(V, N + n + 3, Append(L, n), d, B)
<1>. DEFINE m == Len(L)
            M == Append(L, n)
            W == N + n + 3
<1>1. /\ M \in Seq(Bodies) /\ m \in Nat /\ Len(M) = m + 1 /\ M[m + 1] = n
      /\ \A k \in 1..m : M[k] = L[k] /\ L[k] \in Bodies
  BY ElementOfSeq, AppendProperties, LenProperties
<1>2. n \in Nat \ {0} /\ W \in Nat /\ m + 1 \in 1..MaxReq /\ B \in Nat /\ n <= B /\ MaxReq \in Nat
  BY <1>1, FramingAssumption DEF Fits
<1>. HIDE DEF M
<1>3. ASSUME NEW i \in 1..N
      PROVE  /\ V[i] = U[i] /\ U[i].req \in d + 1 .. m /\ M[U[i].req] = L[U[i].req]
             /\ M[U[i].req] \in Nat \ {0}
             /\ Last(V[i], M) => Last(U[i], L)
             /\ Last(U[i], L) => Last(V[i], M)
  <2>1. OfRequests(U, N, L, d) /\ m <= MaxReq /\ d \in Nat
    BY <1>1, <1>2 DEF Framed
  <2>2. U[i].req \in d + 1 .. m
    BY <2>1, CellsOfRequests
  <2>3. U[i].req \in 1..m
    BY <1>1, <2>1, <2>2
  <2>. QED
    BY <1>1, <2>2, <2>3 DEF Last
<1>4. ASSUME NEW i \in N + 1 .. W
      PROVE  /\ i - N \in 1 .. n + 3 /\ V[i] = Request(m + 1, n)[i - N]
             /\ V[i].req = m + 1
             /\ V[i].kind = "line" => i = N + 1
             /\ i = N + 1 => V[i].kind = "line"
             /\ Last(V[i], M) => i = W
             /\ i = W => Last(V[i], M)
  <2>1. i - N \in 1 .. n + 3 /\ i = N + (i - N)
    BY <1>2
  <2>2. V[i] = Request(m + 1, n)[i - N]
    BY <2>1
  <2>3. /\ V[i].req = m + 1
        /\ V[i].kind = "line" => i - N = 1
        /\ i - N = 1 => V[i].kind = "line"
        /\ V[i].kind = "body" /\ V[i].n = n => i - N = n + 3
        /\ i - N = n + 3 => V[i].kind = "body" /\ V[i].n = n
    <3>. DEFINE q == i - N
                cell == Request(m + 1, n)[q]
    <3>1. /\ cell.req = m + 1
          /\ cell.kind = "line" => q = 1
          /\ q = 1 => cell.kind = "line"
          /\ cell.kind = "body" /\ cell.n = n => q = n + 3
          /\ q = n + 3 => cell.kind = "body" /\ cell.n = n
      BY <1>2, <2>1, FirstAndLast
    <3>2. V[i] = cell
      BY <2>2
    <3>. QED
      BY <3>1, <3>2
  <2>. QED
    BY <1>1, <1>2, <2>1, <2>2, <2>3 DEF Last
<1>5. StartsRight(V, W, M, d)
  <2>1. CASE N > 0
    BY <1>2, <1>3, <2>1 DEF Framed, StartsRight
  <2>2. CASE N = 0
    <3>1. d = m
      BY <1>1, <2>2 DEF Framed, AllThere
    <3>2. 1 \in N + 1 .. W
      BY <1>2, <2>2
    <3>. QED
      BY <1>4, <2>2, <3>1, <3>2 DEF StartsRight
  <2>. QED
    BY <2>1, <2>2
<1>6. Whole(V, W, M)
  <2>1. SUFFICES ASSUME NEW i \in 1..W, V[i].kind = "line"
                 PROVE  /\ i + M[V[i].req] + 2 <= W
                        /\ \A q \in 1 .. M[V[i].req] + 3 :
                             V[i + q - 1] = Request(V[i].req, M[V[i].req])[q]
    BY DEF Whole
  <2>2. CASE i \in 1..N
    <3>1. /\ i + L[U[i].req] + 2 <= N
          /\ \A q \in 1 .. L[U[i].req] + 3 :
               U[i + q - 1] = Request(U[i].req, L[U[i].req])[q]
      BY <1>3, <2>1, <2>2 DEF Framed, Whole
    <3>. DEFINE k == U[i].req
                l == L[k]
    <3>2. V[i].req = k /\ M[V[i].req] = l /\ l \in Nat
      BY <1>3, <2>2
    <3>3. i + l + 2 <= N /\ \A q \in 1 .. l + 3 : U[i + q - 1] = Request(k, l)[q]
      BY <3>1
    <3>. HIDE DEF k, l
    <3>4. \A q \in 1 .. l + 3 : i + q - 1 \in 1..N
      <4>1. l \in Nat /\ i \in 1..N /\ i + l + 2 <= N
        BY <2>2, <3>2, <3>3
      <4>. QED
        BY <4>1
    <3>5. \A q \in 1 .. l + 3 : V[i + q - 1] = Request(k, l)[q]
      BY <1>3, <3>3, <3>4
    <3>6. i + l + 2 <= W
      BY <1>2, <3>2, <3>3
    <3>. QED
      BY <3>2, <3>5, <3>6
  <2>3. CASE i = N + 1
    <3>1. V[i].req = m + 1 /\ M[V[i].req] = n
      BY <1>1, <1>2, <1>4, <2>3
    <3>. QED
      BY <1>2, <2>3, <3>1
  <2>. QED
    BY <1>2, <1>4, <2>1, <2>2, <2>3
<1>7. InOrder(V, W, M)
  <2>1. SUFFICES ASSUME NEW i \in 1 .. W - 1, Last(V[i], M)
                 PROVE  V[i + 1].kind = "line" /\ V[i + 1].req = V[i].req + 1
    BY DEF InOrder
  <2>2. CASE i < N
    <3>1. i \in 1 .. N - 1 /\ i \in 1..N /\ i + 1 \in 1..N
      BY <2>2
    <3>. QED
      BY <1>3, <2>1, <3>1 DEF Framed, InOrder
  <2>3. CASE i = N
    <3>1. N \in 1..N /\ N + 1 \in N + 1 .. W
      BY <1>2, <2>3
    <3>2. V[N].req = m
      BY <1>3, <3>1 DEF Framed, EndsRight
    <3>. QED
      BY <1>1, <1>4, <2>3, <3>1, <3>2
  <2>. QED
    BY <1>2, <1>4, <2>1, <2>2, <2>3
<1>8. OfRequests(V, W, M, d)
  <2>1. SUFFICES ASSUME NEW i \in 1..W
                 PROVE  \E k \in d + 1 .. Len(M) : \E q \in 1 .. M[k] + 3 :
                          V[i] = Request(k, M[k])[q]
    BY DEF OfRequests
  <2>2. CASE i \in 1..N
    <3>1. PICK k \in d + 1 .. m : \E q \in 1 .. L[k] + 3 : U[i] = Request(k, L[k])[q]
      BY <2>2 DEF Framed, OfRequests
    <3>2. k \in 1..m /\ k \in d + 1 .. Len(M)
      BY <1>1
    <3>. QED
      BY <1>1, <1>3, <2>2, <3>1, <3>2
  <2>3. CASE i \in N + 1 .. W
    <3>1. m + 1 \in d + 1 .. Len(M) /\ M[m + 1] = n
      BY <1>1
    <3>2. i - N \in 1 .. M[m + 1] + 3 /\ V[i] = Request(m + 1, M[m + 1])[i - N]
      BY <1>4, <2>3, <3>1
    <3>. QED
      BY <3>1, <3>2
  <2>4. i \in 1..N \/ i \in N + 1 .. W
    BY <1>2
  <2>. QED
    BY <2>2, <2>3, <2>4
<1>9. AllThere(V, W, M, d)
  <2>1. SUFFICES ASSUME NEW k \in d + 1 .. Len(M)
                 PROVE  \E i \in 1..W : V[i].kind = "line" /\ V[i].req = k
    BY DEF AllThere
  <2>2. CASE k \in d + 1 .. m
    <3>1. PICK i \in 1..N : U[i].kind = "line" /\ U[i].req = k
      BY <2>2 DEF Framed, AllThere
    <3>2. i \in 1..W
      BY <1>2
    <3>. QED
      BY <1>3, <3>1, <3>2
  <2>3. CASE k = m + 1
    BY <1>2, <1>4, <2>3
  <2>. QED
    BY <1>1, <2>1, <2>2, <2>3
<1>10. Distinct(V, W)
  <2>1. SUFFICES ASSUME NEW i \in 1..W, NEW j \in 1..W, V[i] = V[j]
                 PROVE  i = j
    BY DEF Distinct
  <2>2. CASE i \in 1..N /\ j \in 1..N
    BY <1>3, <2>1, <2>2 DEF Framed, Distinct
  <2>3. CASE i \in N + 1 .. W /\ j \in N + 1 .. W
    <3>1. i - N \in 1 .. n + 3 /\ j - N \in 1 .. n + 3
          /\ Request(m + 1, n)[i - N] = Request(m + 1, n)[j - N]
      BY <1>4, <2>1, <2>3
    <3>2. i - N = j - N
      <4>. DEFINE p == i - N
                  q == j - N
      <4>1. p \in 1 .. n + 3 /\ q \in 1 .. n + 3 /\ Request(m + 1, n)[p] = Request(m + 1, n)[q]
        BY <3>1
      <4>2. m + 1 \in 1..MaxReq /\ n \in Nat
        BY <1>2
      <4>. HIDE DEF p, q, m
      <4>3. p = q
        BY <4>1, <4>2, CellsDiffer
      <4>. QED
        BY <4>3 DEF p, q
    <3>. QED
      BY <3>2
  <2>4. ASSUME NEW l \in 1..N
        PROVE  V[l].req # m + 1
    <3>1. V[l].req \in d + 1 .. m
      BY <1>3
    <3>. QED
      BY <1>1, <3>1
  <2>5. \A l \in N + 1 .. W : V[l].req = m + 1
    BY <1>4
  <2>6. ~(i \in 1..N /\ j \in N + 1 .. W) /\ ~(j \in 1..N /\ i \in N + 1 .. W)
    BY <1>1, <2>1, <2>4, <2>5
  <2>. QED
    BY <1>2, <2>2, <2>3, <2>6
<1>11. EndsRight(V, W, M)
  <2>1. W \in N + 1 .. W
    BY <1>2
  <2>. QED
    BY <1>1, <1>4, <2>1 DEF EndsRight
<1>12. Short(V, W, M, B)
  <2>1. SUFFICES ASSUME NEW i \in 1..W, V[i].kind = "line"
                 PROVE  W - i + 1 <= (Len(M) + 1 - V[i].req) * (B + 3)
    BY DEF Short
  <2>2. \A a, c \in Int : (a + 1) * c = a * c + c
    OBVIOUS
  <2>3. CASE i \in 1..N
    <3>1. N - i + 1 <= (m + 1 - U[i].req) * (B + 3)
      BY <1>3, <2>1, <2>3 DEF Framed, Short
    <3>2. U[i].req \in Int /\ V[i].req = U[i].req
      BY <1>1, <1>3, <2>3
    <3>. DEFINE a == m + 1 - U[i].req
                c == B + 3
    <3>3. a \in Int /\ c \in Int /\ Len(M) + 1 - V[i].req = a + 1
      <4>1. m \in Nat /\ B \in Nat /\ Len(M) = m + 1
        BY <1>1, <1>2
      <4>. QED
        BY <3>2, <4>1
    <3>4. N - i + 1 <= a * c
      BY <3>1
    <3>. HIDE DEF a, c
    <3>5. (a + 1) * c = a * c + c /\ a * c \in Int
      BY <2>2, <3>3
    <3>6. n + 3 <= c /\ W - i + 1 = (N - i + 1) + (n + 3)
      BY <1>2 DEF c
    <3>7. W - i + 1 <= a * c + c
      BY <1>2, <3>3, <3>4, <3>5, <3>6
    <3>. QED
      BY <3>3, <3>5, <3>7 DEF c
  <2>4. CASE i = N + 1
    <3>1. Len(M) + 1 - V[i].req = 1 /\ W - i + 1 = n + 3
      BY <1>1, <1>2, <1>4, <2>4
    <3>2. 1 * (B + 3) = B + 3
      BY <1>2
    <3>. QED
      BY <1>2, <3>1, <3>2
  <2>. QED
    BY <1>2, <1>4, <2>1, <2>3, <2>4
<1>. QED
  BY <1>5, <1>6, <1>7, <1>8, <1>9, <1>10, <1>11, <1>12 DEF Framed, M

\* The first request not delivered comes first, as a whole.
LEMMA FirstIsWhole ==
  ASSUME Bodies \subseteq Nat \ {0}, NEW B,
         NEW L \in Seq(Bodies), Len(L) <= MaxReq, NEW d \in Nat,
         NEW N \in Nat \ {0}, NEW U, Framed(U, N, L, d, B)
  PROVE  /\ d + 1 \in 1 .. Len(L) /\ L[d + 1] \in Bodies /\ L[d + 1] + 3 <= N
         /\ Begins(U, d + 1, L[d + 1])
<1>. DEFINE n == L[d + 1]
<1>1. 1 \in 1..N /\ U[1].kind = "line" /\ U[1].req = d + 1
  BY DEF Framed, StartsRight
<1>2. d + 1 \in d + 1 .. Len(L) /\ n \in Bodies /\ n \in Nat \ {0}
  <2>1. U[1].req \in d + 1 .. Len(L) /\ L[U[1].req] \in Bodies
    BY <1>1, CellsOfRequests DEF Framed
  <2>. QED
    BY <1>1, <2>1
<1>3. 1 + n + 2 <= N /\ \A q \in 1 .. n + 3 : U[1 + q - 1] = Request(d + 1, n)[q]
  BY <1>1 DEF Framed, Whole
<1>. HIDE DEF n
<1>4. n + 3 <= N /\ Begins(U, d + 1, n)
  BY <1>2, <1>3 DEF Begins
<1>5. d + 1 \in 1 .. Len(L)
  BY <1>2
<1>. QED
  BY <1>2, <1>4, <1>5 DEF n

\* The others stay when it goes.
LEMMA FramedDropped ==
  ASSUME Bodies \subseteq Nat \ {0}, NEW B, Fits(B),
         NEW L \in Seq(Bodies), Len(L) <= MaxReq, NEW d \in Nat,
         NEW N \in Nat \ {0}, NEW U, Framed(U, N, L, d, B), NEW V,
         \A i \in 1 .. N - (L[d + 1] + 3) : V[i] = U[L[d + 1] + 3 + i]
  PROVE  Framed(V, N - (L[d + 1] + 3), L, d + 1, B)
<1>. DEFINE m == Len(L)
            n == L[d + 1]
            W == N - (n + 3)
<1>1. m \in Nat /\ MaxReq \in Nat /\ B \in Nat
  BY FramingAssumption DEF Fits
<1>2. d + 1 \in 1..m /\ n \in Bodies /\ n + 3 <= N /\ Begins(U, d + 1, n)
  BY FirstIsWhole
<1>3. d + 1 \in 1..m /\ n \in Nat \ {0} /\ n + 3 <= N
      /\ \A q \in 1 .. n + 3 : U[q] = Request(d + 1, n)[q]
  BY <1>2 DEF Begins
<1>4. d + 1 \in 1..m /\ d + 1 \in 1..MaxReq
  BY <1>1, <1>3
<1>5. n + 3 <= N /\ W \in Nat /\ \A q \in 1 .. n + 3 : U[q] = Request(d + 1, n)[q]
  BY <1>3
<1>6. \A i \in 1..W : V[i] = U[n + 3 + i]
  OBVIOUS
<1>. HIDE DEF n
<1>7. ASSUME NEW i \in 1..W
      PROVE  /\ n + 3 + i \in 1..N /\ V[i] = U[n + 3 + i]
             /\ V[i].req \in d + 2 .. m /\ L[V[i].req] \in Nat \ {0}
             /\ \E q \in 1 .. L[V[i].req] + 3 : V[i] = Request(V[i].req, L[V[i].req])[q]
  <2>. DEFINE j == n + 3 + i
              k == U[j].req
  <2>1. j \in 1..N /\ V[i] = U[j]
    BY <1>3, <1>5, <1>6
  <2>. HIDE DEF j
  <2>2. /\ k \in d + 1 .. m /\ L[k] \in Bodies
        /\ \E q \in 1 .. L[k] + 3 : U[j] = Request(k, L[k])[q]
    BY <1>1, <2>1, CellsOfRequests DEF Framed
  <2>3. k # d + 1
    <3>1. SUFFICES ASSUME k = d + 1
                   PROVE  FALSE
      OBVIOUS
    <3>2. PICK q \in 1 .. n + 3 : U[j] = Request(d + 1, n)[q]
      BY <2>2, <3>1 DEF n
    <3>3. U[q] = U[j] /\ q \in 1..N
      <4>1. U[q] = Request(d + 1, n)[q]
        BY <1>5
      <4>2. q \in 1..N
        BY <1>3, <1>5
      <4>. QED
        BY <3>2, <4>1, <4>2
    <3>4. q = j
      BY <2>1, <3>3 DEF Framed, Distinct
    <3>. QED
      BY <1>3, <3>2, <3>4 DEF j
  <2>4. k \in d + 2 .. m
    <3>1. m \in Nat /\ k \in d + 1 .. m
      BY <1>1, <2>2
    <3>. HIDE DEF k, m
    <3>. QED
      BY <2>3, <3>1
  <2>. QED
    BY <2>1, <2>2, <2>4 DEF j
<1>8. StartsRight(V, W, L, d + 1)
  <2>1. SUFFICES ASSUME W > 0
                 PROVE  V[1].kind = "line" /\ V[1].req = d + 2
    BY DEF StartsRight
  <2>2. n + 3 \in 1 .. N - 1 /\ n + 3 \in 1 .. n + 3 /\ 1 \in 1..W
    BY <1>3, <1>5, <2>1
  <2>3. Last(U[n + 3], L) /\ U[n + 3].req = d + 1
    <3>. DEFINE q == n + 3
    <3>1. q \in 1 .. n + 3 /\ U[q] = Request(d + 1, n)[q] /\ q = n + 3
      BY <1>5, <2>2
    <3>. HIDE DEF q
    <3>2. U[q].req = d + 1 /\ U[q].kind = "body" /\ U[q].n = n
      BY <1>3, <1>4, <3>1, FirstAndLast
    <3>. QED
      BY <3>2 DEF Last, n, q
  <2>4. U[n + 3 + 1].kind = "line" /\ U[n + 3 + 1].req = d + 1 + 1
    BY <2>2, <2>3 DEF Framed, InOrder
  <2>. QED
    BY <1>6, <2>2, <2>4
<1>9. Whole(V, W, L)
  <2>1. SUFFICES ASSUME NEW i \in 1..W, V[i].kind = "line"
                 PROVE  /\ i + L[V[i].req] + 2 <= W
                        /\ \A q \in 1 .. L[V[i].req] + 3 :
                             V[i + q - 1] = Request(V[i].req, L[V[i].req])[q]
    BY DEF Whole
  <2>. DEFINE j == n + 3 + i
              k == V[i].req
              l == L[k]
  <2>2. j \in 1..N /\ V[i] = U[j] /\ l \in Nat
    BY <1>7
  <2>3. j + l + 2 <= N /\ \A q \in 1 .. l + 3 : U[j + q - 1] = Request(k, l)[q]
    <3>1. Whole(U, N, L)
      BY DEF Framed
    <3>2. j \in 1..N /\ U[j].kind = "line" /\ U[j].req = k
      BY <2>1, <2>2
    <3>. HIDE DEF j, k
    <3>. QED
      BY <3>1, <3>2 DEF Whole
  <2>. HIDE DEF l, k
  <2>4. i + l + 2 <= W
    BY <1>3, <2>2, <2>3
  <2>5. \A q \in 1 .. l + 3 : i + q - 1 \in 1..W /\ n + 3 + (i + q - 1) = j + q - 1
    BY <1>3, <1>5, <2>2, <2>4
  <2>6. \A q \in 1 .. l + 3 : V[i + q - 1] = Request(k, l)[q]
    BY <1>6, <2>3, <2>5
  <2>. QED
    BY <2>4, <2>6 DEF l, k
<1>10. InOrder(V, W, L)
  <2>1. SUFFICES ASSUME NEW i \in 1 .. W - 1, Last(V[i], L)
                 PROVE  V[i + 1].kind = "line" /\ V[i + 1].req = V[i].req + 1
    BY DEF InOrder
  <2>2. i \in 1..W /\ i + 1 \in 1..W /\ n + 3 + i \in 1 .. N - 1
        /\ n + 3 + (i + 1) = (n + 3 + i) + 1
    BY <1>3, <1>5
  <2>3. V[i] = U[n + 3 + i] /\ V[i + 1] = U[(n + 3 + i) + 1]
    BY <1>6, <2>2
  <2>. QED
    BY <2>1, <2>2, <2>3 DEF Framed, InOrder
<1>11. OfRequests(V, W, L, d + 1)
  <2>1. ASSUME NEW i \in 1..W
        PROVE  \E k \in d + 1 + 1 .. m : \E q \in 1 .. L[k] + 3 : V[i] = Request(k, L[k])[q]
    <3>. DEFINE k == V[i].req
    <3>1. k \in d + 1 + 1 .. m /\ \E q \in 1 .. L[k] + 3 : V[i] = Request(k, L[k])[q]
      BY <1>7
    <3>. HIDE DEF k
    <3>. QED
      BY <3>1
  <2>. QED
    BY <2>1 DEF OfRequests
<1>12. AllThere(V, W, L, d + 1)
  <2>1. SUFFICES ASSUME NEW k \in d + 1 + 1 .. m
                 PROVE  \E i \in 1..W : V[i].kind = "line" /\ V[i].req = k
    BY DEF AllThere
  <2>2. k \in d + 1 .. m /\ k # d + 1
    BY <1>1
  <2>3. PICK j \in 1..N : U[j].kind = "line" /\ U[j].req = k
    BY <2>2 DEF Framed, AllThere
  <2>4. ~(j \in 1 .. n + 3)
    BY <1>3, <1>4, <1>5, <2>2, <2>3, FirstAndLast
  <2>5. j - (n + 3) \in 1..W /\ n + 3 + (j - (n + 3)) = j
    BY <1>3, <1>5, <2>4
  <2>6. V[j - (n + 3)] = U[j]
    BY <1>6, <2>5
  <2>. QED
    BY <2>3, <2>5, <2>6
<1>13. Distinct(V, W)
  <2>1. SUFFICES ASSUME NEW i \in 1..W, NEW j \in 1..W, V[i] = V[j]
                 PROVE  i = j
    BY DEF Distinct
  <2>2. n + 3 + i \in 1..N /\ n + 3 + j \in 1..N /\ U[n + 3 + i] = U[n + 3 + j]
    BY <1>7, <2>1
  <2>3. n + 3 + i = n + 3 + j
    BY <2>2 DEF Framed, Distinct
  <2>. QED
    BY <1>3, <2>3
<1>14. EndsRight(V, W, L)
  <2>1. SUFFICES ASSUME W > 0
                 PROVE  Last(V[W], L) /\ V[W].req = Len(L)
    BY DEF EndsRight
  <2>2. W \in 1..W /\ n + 3 + W = N
    BY <1>3, <1>5, <2>1
  <2>3. V[W] = U[N]
    BY <1>6, <2>2
  <2>. QED
    BY <2>3 DEF Framed, EndsRight
<1>15. Short(V, W, L, B)
  <2>1. SUFFICES ASSUME NEW i \in 1..W, V[i].kind = "line"
                 PROVE  W - i + 1 <= (Len(L) + 1 - V[i].req) * (B + 3)
    BY DEF Short
  <2>2. n + 3 + i \in 1..N /\ V[i] = U[n + 3 + i]
    BY <1>7
  <2>3. N - (n + 3 + i) + 1 <= (Len(L) + 1 - V[i].req) * (B + 3)
    BY <2>1, <2>2 DEF Framed, Short
  <2>4. N - (n + 3 + i) + 1 = W - i + 1
    BY <1>3
  <2>. QED
    BY <2>3, <2>4
<1>. QED
  BY <1>8, <1>9, <1>10, <1>11, <1>12, <1>13, <1>14, <1>15 DEF Framed, n

\* What is pending is never more than size_t counts.
LEMMA PendingFits ==
  ASSUME NEW B, Fits(B), NEW L, Len(L) \in Nat, NEW d \in Nat, d <= Len(L),
         Len(L) <= d + Window, NEW N \in Nat, NEW U, Framed(U, N, L, d, B)
  PROVE  N < SizeT
<1>1. Window \in Nat /\ SizeT \in Nat \ {0} /\ B \in Nat /\ Window * (B + 3) < SizeT
  BY FramingAssumption DEF Fits
<1>2. CASE N = 0
  BY <1>1, <1>2
<1>3. CASE N > 0
  <2>. DEFINE a == Len(L) - d
              c == B + 3
  <2>1. 1 \in 1..N /\ U[1].kind = "line" /\ U[1].req = d + 1
    BY <1>3 DEF Framed, StartsRight
  <2>2. N - 1 + 1 <= (Len(L) + 1 - U[1].req) * (B + 3)
    BY <2>1 DEF Framed, Short
  <2>3. a \in Nat /\ a <= Window /\ c \in Nat /\ N <= a * c /\ Window * c < SizeT
    <3>1. Len(L) + 1 - U[1].req = a /\ N - 1 + 1 = N
      BY <2>1
    <3>2. a \in Nat /\ a <= Window
      BY <1>1
    <3>3. c \in Nat /\ Window * c < SizeT
      BY <1>1
    <3>4. N <= a * c
      <4>. HIDE DEF a
      <4>. QED
        BY <2>2, <3>1
    <3>. QED
      BY <3>2, <3>3, <3>4
  <2>. HIDE DEF a, c
  <2>4. \A x, y, z \in Nat : x <= y => x * z <= y * z /\ x * z \in Nat /\ y * z \in Nat
    OBVIOUS
  <2>. QED
    BY <1>1, <2>3, <2>4
<1>. QED
  BY <1>2, <1>3

------------------------------------------------------------------------------
(* SnBuffer *)

\* Where size_t does not wrap around, size() is what is between the indices.
LEMMA SizeIsHeld ==
  ASSUME NEW b \in Buffer, held(b) < SizeT
  PROVE  size(b) = held(b) /\ held(b) \in Nat
<1>1. /\ b.readIndex_ \in Nat /\ b.writeIndex_ \in Nat /\ b.readIndex_ <= b.writeIndex_
      /\ SizeT \in Nat \ {0}
  BY FramingAssumption DEF Buffer
<1>2. held(b) \in Nat
  BY <1>1 DEF held
<1>3. \A x \in Nat, y \in Nat \ {0} : x < y => x % y = x
  OBVIOUS
<1>. QED
  BY <1>1, <1>2, <1>3 DEF size, held

\* peek puts the cells behind those there, and leaves room; a buffer that is filled
\* is zero behind them.
LEMMA PeekFills ==
  ASSUME NEW b \in Buffer, NEW c \in Seq(Cell), c # <<>>, Len(c) <= getRemainSize(b)
  PROVE  LET p == peek(b, c) IN
         /\ p \in Buffer
         /\ p.readIndex_ = b.readIndex_ /\ p.writeIndex_ = b.writeIndex_ + Len(c)
         /\ \A i \in 1 .. b.writeIndex_ : p.buffer_[i] = b.buffer_[i]
         /\ \A i \in 1 .. Len(c) : p.buffer_[b.writeIndex_ + i] = c[i]
         /\ Len(c) = getRemainSize(b) =>
              \A i \in p.writeIndex_ + 1 .. Len(p.buffer_) : p.buffer_[i] = Nul
<1>. DEFINE l == Len(b.buffer_)
            w == b.writeIndex_
            n == Len(c)
            S == Cell \cup {Nul}
            old == b.buffer_
            new == [i \in 1..l |-> IF i - w \in 1..n THEN c[i - w] ELSE old[i]]
            filled == [b EXCEPT !.buffer_ = new, !.writeIndex_ = w + n]
            R == [buffer_ : Seq(S), readIndex_ : Nat, writeIndex_ : Nat]
<1>1. /\ old \in Seq(S) /\ l \in Nat /\ w \in Nat /\ n \in Nat \ {0}
      /\ b.readIndex_ \in Nat /\ b.readIndex_ <= w /\ w < l /\ w + n <= l
      /\ b \in R
  BY DEF Buffer, getRemainSize
<1>2. \A i \in 1..l : new[i] \in S
  <2>1. \A i \in 1..l : old[i] \in S
    BY <1>1, ElementOfSeq
  <2>2. \A i \in 1..n : c[i] \in S
    BY ElementOfSeq
  <2>. HIDE DEF S
  <2>. QED
    BY <2>1, <2>2
<1>3. new \in Seq(S) /\ Len(new) = l
  <2>. HIDE DEF S
  <2>. QED
    BY <1>1, <1>2
<1>4. /\ \A i \in 1..w : new[i] = old[i]
      /\ \A i \in 1..n : new[w + i] = c[i]
  <2>1. \A i \in 1..w : i \in 1..l /\ i - w \notin 1..n
    BY <1>1
  <2>2. \A i \in 1..n : w + i \in 1..l /\ (w + i) - w = i
    BY <1>1
  <2>. HIDE DEF l, w, n, old
  <2>3. \A i \in 1..w : new[i] = old[i]
    BY <2>1
  <2>4. \A i \in 1..n : new[w + i] = c[i]
    BY <2>2
  <2>. QED
    BY <2>3, <2>4
<1>5. /\ filled \in R /\ filled.buffer_ = new
      /\ filled.readIndex_ = b.readIndex_ /\ filled.writeIndex_ = w + n
  <2>. DEFINE T == Seq(S)
              more == w + n
  <2>1. b \in [buffer_ : T, readIndex_ : Nat, writeIndex_ : Nat] /\ new \in T /\ more \in Nat
    BY <1>1, <1>3
  <2>. HIDE DEF T, new, more
  <2>. DEFINE f == [b EXCEPT !.buffer_ = new, !.writeIndex_ = more]
  <2>2. /\ f \in [buffer_ : T, readIndex_ : Nat, writeIndex_ : Nat]
        /\ f.buffer_ = new /\ f.readIndex_ = b.readIndex_ /\ f.writeIndex_ = more
    BY <2>1
  <2>. QED
    BY <2>2 DEF T, more
<1>6. peek(b, c) = IF l - (w + n) = 0 THEN expand(filled) ELSE filled
  <2>1. peek(b, c) = IF getRemainSize(filled) = 0 THEN expand(filled) ELSE filled
    BY DEF peek
  <2>. HIDE DEF filled
  <2>2. getRemainSize(filled) = l - (w + n)
    BY <1>3, <1>5 DEF getRemainSize
  <2>. QED
    BY <2>1, <2>2
<1>. HIDE DEF filled
<1>7. CASE w + n # l
  <2>. HIDE DEF S, new
  <2>1. peek(b, c) = filled
    BY <1>1, <1>6, <1>7
  <2>2. filled \in Buffer
    BY <1>1, <1>3, <1>5, <1>7 DEF Buffer, S
  <2>3. n # getRemainSize(b)
    BY <1>1, <1>7 DEF getRemainSize
  <2>. QED
    BY <1>4, <1>5, <2>1, <2>2, <2>3
<1>8. CASE w + n = l
  <2>. DEFINE zero == [i \in 1..l |-> Nul]
  <2>1. zero \in Seq(S) /\ Len(zero) = l
    BY <1>1
  <2>. HIDE DEF S, new
  <2>2. \A i \in 1..l : zero[i] = Nul
    OBVIOUS
  <2>3. /\ new \o zero \in Seq(S) /\ Len(new \o zero) = l + l
        /\ \A i \in 1 .. l + l : (new \o zero)[i] = IF i <= l THEN new[i] ELSE zero[i - l]
    <3>. HIDE DEF zero
    <3>1. /\ new \o zero \in Seq(S) /\ Len(new \o zero) = Len(new) + Len(zero)
          /\ \A i \in 1 .. Len(new) + Len(zero) :
               (new \o zero)[i] = IF i <= Len(new) THEN new[i] ELSE zero[i - Len(new)]
      BY <1>3, <2>1, ConcatProperties
    <3>. QED
      BY <1>3, <2>1, <3>1
  <2>. DEFINE p == peek(b, c)
  <2>4. /\ p \in R /\ p.buffer_ = new \o zero
        /\ p.readIndex_ = b.readIndex_ /\ p.writeIndex_ = w + n
    <3>1. p = expand(filled)
      BY <1>1, <1>6, <1>8
    <3>2. expand(filled) = [filled EXCEPT !.buffer_ = new \o zero]
      BY <1>3, <1>5 DEF expand
    <3>. HIDE DEF zero, p
    <3>. QED
      BY <1>5, <2>3, <3>1, <3>2
  <2>. HIDE DEF zero, p
  <2>5. p \in Buffer
    BY <1>1, <1>8, <2>3, <2>4 DEF Buffer, S
  <2>6. \A i \in 1..l : (new \o zero)[i] = new[i]
    BY <1>1, <2>3
  <2>7. \A i \in l + 1 .. l + l : (new \o zero)[i] = Nul
    <3>1. \A i \in l + 1 .. l + l : i \in 1 .. l + l /\ ~(i <= l) /\ i - l \in 1..l
      BY <1>1
    <3>. QED
      BY <2>2, <2>3, <3>1
  <2>8. /\ \A i \in 1..w : (new \o zero)[i] = old[i]
        /\ \A i \in 1..n : (new \o zero)[w + i] = c[i]
    <3>1. /\ \A i \in 1..w : i \in 1..l
          /\ \A i \in 1..n : w + i \in 1..l
      BY <1>1
    <3>. QED
      BY <1>4, <2>6, <3>1
  <2>. QED
    BY <1>1, <1>8, <2>3, <2>4, <2>5, <2>7, <2>8 DEF p
<1>. QED
  BY <1>7, <1>8

\* consumHead drops what it is told, whether or not anything is left.
LEMMA ConsumeDrops ==
  ASSUME NEW b \in Buffer, NEW n \in Nat, n <= held(b)
  PROVE  LET c == consumHead(b, n) IN
         /\ c \in Buffer /\ c.buffer_ = b.buffer_ /\ held(c) = held(b) - n
         /\ n < held(b) => /\ c.readIndex_ = b.readIndex_ + n
                           /\ c.writeIndex_ = b.writeIndex_
<1>. DEFINE T == Seq(Cell \cup {Nul})
            r == b.readIndex_
            w == b.writeIndex_
            R == [buffer_ : T, readIndex_ : Nat, writeIndex_ : Nat]
<1>1. /\ b \in R /\ r \in Nat /\ w \in Nat /\ r <= w /\ w < Len(b.buffer_)
      /\ Len(b.buffer_) \in Nat /\ b.buffer_ \in T
  BY DEF Buffer
<1>2. n <= w - r /\ held(b) = w - r
  BY DEF held
<1>. HIDE DEF T
<1>3. CASE r + n = w
  <2>. DEFINE c == [b EXCEPT !.readIndex_ = 0, !.writeIndex_ = 0]
  <2>1. c \in R /\ c.buffer_ = b.buffer_ /\ c.readIndex_ = 0 /\ c.writeIndex_ = 0
    BY <1>1
  <2>2. consumHead(b, n) = c
    BY <1>3 DEF consumHead
  <2>. HIDE DEF c
  <2>. QED
    BY <1>1, <1>2, <1>3, <2>1, <2>2 DEF Buffer, held, T
<1>4. CASE r + n # w
  <2>. DEFINE next == r + n
              c == [b EXCEPT !.readIndex_ = next]
  <2>1. next \in Nat
    BY <1>1
  <2>2. consumHead(b, n) = c
    BY <1>4 DEF consumHead
  <2>. HIDE DEF next
  <2>3. c \in R /\ c.buffer_ = b.buffer_ /\ c.readIndex_ = next /\ c.writeIndex_ = w
    BY <1>1, <2>1
  <2>. HIDE DEF c
  <2>. QED
    BY <1>1, <1>2, <1>4, <2>2, <2>3 DEF Buffer, held, T, next
<1>. QED
  BY <1>3, <1>4

------------------------------------------------------------------------------
(* HttpNormalHandler::onRead *)

\* A head that is in the buffer is found and parsed, whatever is behind it.
LEMMA HeadIsFound ==
  ASSUME NEW b \in Buffer, held(b) >= 3, NEW k \in 1..MaxReq, NEW n \in Nat,
         \A q \in 1..3 : b.buffer_[b.readIndex_ + q] = Request(k, n)[q]
  PROVE  /\ blankLine(b) = 2 /\ headerParses(b, 2)
         /\ \A req : parse(b, 2, req) = [url_ |-> k, contentLength_ |-> n]
<1>. DEFINE r == b.readIndex_
            l == Len(b.buffer_)
<1>1. r \in Nat /\ l \in Nat /\ r + 3 < l
  BY DEF Buffer, held
<1>2. /\ At(b, 0) = b.buffer_[r + 1] /\ At(b, 1) = b.buffer_[r + 2] /\ At(b, 2) = b.buffer_[r + 3]
  <2>1. /\ r + 0 < l /\ r + 0 + 1 = r + 1 /\ r + 1 < l /\ r + 1 + 1 = r + 2
        /\ r + 2 < l /\ r + 2 + 1 = r + 3
    BY <1>1
  <2>. QED
    BY <2>1 DEF At
<1>3. /\ At(b, 0) = [req |-> k, kind |-> "line", n |-> 0]
      /\ At(b, 1) = [req |-> k, kind |-> "len", n |-> n]
      /\ At(b, 2) = [req |-> k, kind |-> "end", n |-> 0]
  <2>1. /\ b.buffer_[r + 1] = Request(k, n)[1]
        /\ b.buffer_[r + 2] = Request(k, n)[2]
        /\ b.buffer_[r + 3] = Request(k, n)[3]
    OBVIOUS
  <2>2. /\ Request(k, n)[1] = [req |-> k, kind |-> "line", n |-> 0]
        /\ Request(k, n)[2] = [req |-> k, kind |-> "len", n |-> n]
        /\ Request(k, n)[3] = [req |-> k, kind |-> "end", n |-> 0]
    BY RequestCells
  <2>. QED
    BY <1>2, <2>1, <2>2
<1>. HIDE DEF r, l
<1>4. blankLine(b) = 2
  <2>1. IsBlankLine(b, 2) /\ 2 \in 0..l
    <3>1. \A j \in 0 .. 2 - 1 : j = 0 \/ j = 1
      OBVIOUS
    <3>. QED
      BY <1>1, <1>3, <3>1 DEF IsBlankLine
  <2>2. ASSUME NEW i \in 0..l, IsBlankLine(b, i)
        PROVE  i = 2
    <3>1. i # 0 /\ i # 1
      BY <1>3, <2>2 DEF IsBlankLine
    <3>2. ~(i > 2)
      <4>1. SUFFICES ASSUME i > 2
                     PROVE  FALSE
        OBVIOUS
      <4>2. 2 \in 0 .. i - 1
        BY <1>1, <4>1
      <4>. QED
        BY <1>3, <2>2, <4>2 DEF IsBlankLine
    <3>. QED
      BY <1>1, <3>1, <3>2
  <2>. QED
    BY <2>1, <2>2 DEF blankLine, l
<1>5. firstLine(b, 2) = 0
  <2>. DEFINE P(i) == At(b, i).kind # "body" /\ \A j \in 0 .. i - 1 : At(b, j).kind = "body"
  <2>1. 0 \in 0..2 /\ P(0)
    BY <1>3
  <2>2. ASSUME NEW i \in 0..2, P(i)
        PROVE  i = 0
    <3>1. ~(0 \in 0 .. i - 1)
      BY <1>3, <2>2
    <3>. QED
      BY <3>1
  <2>3. (CHOOSE i \in 0..2 : P(i)) = 0
    BY <2>1, <2>2
  <2>. QED
    BY <2>3 DEF firstLine
<1>. DEFINE length == [req |-> k, kind |-> "len", n |-> n]
<1>6. headers(b, 2) = {length} /\ length.kind = "len" /\ length.n = n
  <2>1. firstLine(b, 2) + 1 .. 2 - 1 = {1}
    BY <1>5
  <2>2. headers(b, 2) = {At(b, 1)}
    BY <2>1 DEF headers
  <2>. QED
    BY <1>3, <2>2
<1>. HIDE DEF length
<1>7. headerParses(b, 2) /\ headers(b, 2) # {}
  BY <1>6 DEF headerParses
<1>8. (CHOOSE cell \in headers(b, 2) : TRUE).n = n
  <2>1. (CHOOSE cell \in {length} : TRUE) = length
    OBVIOUS
  <2>. QED
    BY <1>6, <2>1
<1>9. At(b, 0).kind = "line" /\ At(b, 0).req = k
  BY <1>3
<1>. QED
  BY <1>4, <1>7, <1>8, <1>9 DEF parse

\* Less than a head with zero behind it has no blank line.
LEMMA NoHeadIsFound ==
  ASSUME NEW b \in Buffer, held(b) > 0, held(b) < 3, NEW k \in 1..MaxReq, NEW n \in Nat,
         \A q \in 1 .. held(b) : b.buffer_[b.readIndex_ + q] = Request(k, n)[q],
         \A i \in b.writeIndex_ + 1 .. Len(b.buffer_) : b.buffer_[i] = Nul
  PROVE  blankLine(b) = -1
<1>. DEFINE r == b.readIndex_
            w == b.writeIndex_
            l == Len(b.buffer_)
            h == held(b)
<1>1. r \in Nat /\ w \in Nat /\ l \in Nat /\ h = w - r /\ w < l /\ h \in 1..2
  BY DEF Buffer, held
<1>. HIDE DEF r, w, l, h
<1>2. ASSUME NEW i \in 0 .. h - 1
      PROVE  At(b, i).kind # "end"
  <2>1. i + 1 \in 1..h /\ r + i < l /\ r + i + 1 = r + (i + 1) /\ i + 1 \in 1..2
    BY <1>1
  <2>2. At(b, i) = b.buffer_[r + (i + 1)]
    BY <2>1 DEF At, r, l
  <2>3. At(b, i) = Request(k, n)[i + 1]
    <3>1. \A q \in 1..h : b.buffer_[r + q] = Request(k, n)[q]
      BY DEF r, h
    <3>. QED
      BY <2>1, <2>2, <3>1
  <2>4. Request(k, n)[1].kind = "line" /\ Request(k, n)[2].kind = "len"
    <3>1. /\ Request(k, n)[1] = [req |-> k, kind |-> "line", n |-> 0]
          /\ Request(k, n)[2] = [req |-> k, kind |-> "len", n |-> n]
      BY RequestCells
    <3>. QED
      BY <3>1
  <2>5. i + 1 = 1 \/ i + 1 = 2
    BY <2>1
  <2>. QED
    BY <2>3, <2>4, <2>5
<1>3. At(b, h).kind = "nul"
  <2>1. r + h < l /\ r + h + 1 \in w + 1 .. l
    BY <1>1
  <2>. QED
    BY <2>1 DEF At, Nul, r, w, l
<1>4. ASSUME NEW i \in 0..l
      PROVE  ~IsBlankLine(b, i)
  <2>1. CASE i < h
    BY <1>1, <1>2, <2>1 DEF IsBlankLine
  <2>2. CASE i = h
    BY <1>3, <2>2 DEF IsBlankLine
  <2>3. CASE i > h
    <3>1. h \in 0 .. i - 1
      BY <1>1, <2>3
    <3>. QED
      BY <1>3, <3>1 DEF IsBlankLine
  <2>. QED
    BY <1>1, <2>1, <2>2, <2>3
<1>. QED
  BY <1>4 DEF blankLine, l

\* A request that is in the buffer is handed over with its body, and is gone.
LEMMA RequestIsTaken ==
  ASSUME NEW b \in Buffer, NEW k \in 1..MaxReq, NEW n \in Nat \ {0}, held(b) >= n + 3,
         \A q \in 1 .. n + 3 : b.buffer_[b.readIndex_ + q] = Request(k, n)[q]
  PROVE  LET t == takeRequest(b, 2, n, [url_ |-> k, contentLength_ |-> n]) IN
         /\ t.buffer \in Buffer /\ t.buffer.buffer_ = b.buffer_
         /\ held(t.buffer) = held(b) - (n + 3)
         /\ n + 3 < held(b) => /\ t.buffer.readIndex_ = b.readIndex_ + (n + 3)
                               /\ t.buffer.writeIndex_ = b.writeIndex_
         /\ t.contentLength = -1 /\ t.request = NewRequest
         /\ t.message = << [url_ |-> k, content_ |-> ContentOf(k, n)] >>
<1>. DEFINE req == [url_ |-> k, contentLength_ |-> n]
            rest == consumHead(b, 2 + 1)
            last == consumHead(rest, n)
            body == [i \in 1..n |-> At(rest, i - 1)]
            r == b.readIndex_
<1>1. 2 + 1 \in Nat /\ 2 + 1 < held(b) /\ held(b) \in Nat /\ r \in Nat
  BY DEF held, Buffer
<1>2. /\ rest \in Buffer /\ rest.buffer_ = b.buffer_ /\ held(rest) = held(b) - 3
      /\ rest.readIndex_ = r + 3 /\ rest.writeIndex_ = b.writeIndex_
  BY <1>1, ConsumeDrops
<1>. HIDE DEF rest
<1>3. /\ last \in Buffer /\ last.buffer_ = b.buffer_ /\ held(last) = held(b) - (n + 3)
      /\ n + 3 < held(b) => last.readIndex_ = r + (n + 3) /\ last.writeIndex_ = b.writeIndex_
  <2>1. n <= held(rest) /\ (n + 3 < held(b) => n < held(rest))
    BY <1>1, <1>2
  <2>2. /\ last \in Buffer /\ last.buffer_ = rest.buffer_ /\ held(last) = held(rest) - n
        /\ n < held(rest) => /\ last.readIndex_ = rest.readIndex_ + n
                             /\ last.writeIndex_ = rest.writeIndex_
    BY <1>2, <2>1, ConsumeDrops
  <2>. QED
    BY <1>1, <1>2, <2>1, <2>2
<1>4. body = BodyOf(k, n)
  <2>1. ASSUME NEW i \in 1..n
        PROVE  At(rest, i - 1) = [req |-> k, kind |-> "body", n |-> i]
    <3>1. rest.readIndex_ + (i - 1) < Len(rest.buffer_)
      <4>1. /\ rest.writeIndex_ \in Nat /\ rest.writeIndex_ < Len(rest.buffer_)
            /\ Len(rest.buffer_) \in Nat
            /\ held(rest) = rest.writeIndex_ - rest.readIndex_
        BY <1>2 DEF Buffer, held
      <4>2. held(rest) >= n /\ rest.readIndex_ \in Nat
        BY <1>1, <1>2
      <4>. QED
        BY <4>1, <4>2
    <3>2. At(rest, i - 1) = b.buffer_[r + (i + 3)]
      <4>1. rest.readIndex_ + (i - 1) + 1 = r + (i + 3)
        BY <1>1, <1>2
      <4>2. At(rest, i - 1) = rest.buffer_[rest.readIndex_ + (i - 1) + 1]
        BY <3>1 DEF At
      <4>. QED
        BY <1>2, <4>1, <4>2
    <3>3. i + 3 \in 4 .. n + 3 /\ i + 3 \in 1 .. n + 3 /\ (i + 3) - 3 = i
      OBVIOUS
    <3>4. Request(k, n)[i + 3] = [req |-> k, kind |-> "body", n |-> i]
      <4>1. \A q \in 4 .. n + 3 : Request(k, n)[q] = [req |-> k, kind |-> "body", n |-> q - 3]
        BY RequestCells
      <4>2. Request(k, n)[i + 3] = [req |-> k, kind |-> "body", n |-> (i + 3) - 3]
        BY <3>3, <4>1
      <4>. QED
        BY <3>3, <4>2
    <3>. QED
      BY <3>2, <3>3, <3>4
  <2>. QED
    BY <2>1 DEF BodyOf
<1>. HIDE DEF last, body
<1>5. takeRequest(b, 2, n, req) = onMessage(last, n, req, Append(body, Nul))
  BY DEF takeRequest, rest, last, body
<1>6. Append(body, Nul) = ContentOf(k, n)
  BY <1>4 DEF ContentOf
<1>. QED
  BY <1>3, <1>5, <1>6 DEF onMessage

\* What onRead does with the first request that is pending: it waits for the end of
\* its head, then for the end of its body, then takes it.  A read never ends just
\* before the last four bytes, where the sum it compares with size() is wrong.
LEMMA OnReadCases ==
  ASSUME Cuts, NEW B, Fits(B), NEW b \in Buffer, NEW x \in Seq(Cell), held(b) > 0,
         lengths \in Seq(Bodies), Len(lengths) <= MaxReq,
         NEW d \in Nat, d <= Len(lengths), Len(lengths) <= d + Window,
         Framed(Pending(b, x), held(b) + Len(x), lengths, d, B),
         ReadEnded(b, x), NEW cl, NEW req, HeadKnown(b, cl, req, d + 1)
  PROVE  LET l == lengths[d + 1]
             result == onRead(b, cl, req) IN
         \/ held(b) < 3 /\ result = Keep(b, -1, NewRequest)
         \/ held(b) >= 3 /\ result = Keep(b, l, Parsed(d + 1, l))
         \/ held(b) >= l + 3 /\ result = takeRequest(b, 2, l, Parsed(d + 1, l))
<1>. DEFINE k == d + 1
            l == lengths[k]
            h == held(b)
            N == h + Len(x)
            U == Pending(b, x)
            r == b.readIndex_
<1>1. h \in Nat \ {0} /\ Len(x) \in Nat /\ N \in Nat \ {0} /\ h <= N /\ MaxReq \in Nat
  BY FramingAssumption DEF Buffer, held
<1>2. h < SizeT /\ size(b) = h
  <2>1. N < SizeT
    BY <1>1, PendingFits
  <2>2. h < SizeT
    BY <1>1, <2>1, FramingAssumption
  <2>. QED
    BY <2>2, SizeIsHeld
<1>. HIDE DEF U, l, N
<1>3. /\ k \in 1 .. Len(lengths) /\ l \in Bodies /\ l + 3 <= N
      /\ \A q \in 1 .. l + 3 : U[q] = Request(k, l)[q]
  <2>1. Framed(U, N, lengths, d, B) /\ Bodies \subseteq Nat \ {0}
    BY DEF Cuts, U, N, h
  <2>2. k \in 1 .. Len(lengths) /\ l \in Bodies /\ l + 3 <= N /\ Begins(U, k, l)
    BY <1>1, <2>1, FirstIsWhole DEF l
  <2>. QED
    BY <2>2 DEF Begins
<1>4. k \in 1..MaxReq /\ l \in Nat \ {0}
  BY <1>1, <1>3 DEF Cuts
<1>5. \A q \in 1..h : U[q] = b.buffer_[r + q]
  BY <1>1 DEF Pending, U
<1>6. h < N => x # <<>> /\ x[1] = U[h + 1] /\ h + 1 \in 1..N
  BY <1>1 DEF Pending, U, N
<1>. HIDE DEF h
<1>7. CASE h < 3
  <2>1. h + 1 \in 2..3 /\ h + 1 \in 1 .. l + 3 /\ h < N
    BY <1>1, <1>3, <1>4, <1>7
  <2>2. x[1] = Request(k, l)[h + 1] /\ x # <<>>
    BY <1>3, <1>6, <2>1
  <2>3. x[1].kind \in {"len", "end"}
    <3>1. /\ Request(k, l)[2] = [req |-> k, kind |-> "len", n |-> l]
          /\ Request(k, l)[3] = [req |-> k, kind |-> "end", n |-> 0]
      BY <1>4, RequestCells
    <3>2. h + 1 = 2 \/ h + 1 = 3
      BY <2>1
    <3>. QED
      BY <2>2, <3>1, <3>2
  <2>4. \A i \in b.writeIndex_ + 1 .. Len(b.buffer_) : b.buffer_[i] = Nul
    BY <2>2, <2>3 DEF ReadEnded
  <2>5. \A q \in 1..h : b.buffer_[r + q] = Request(k, l)[q]
    <3>1. \A q \in 1..h : q \in 1 .. l + 3
      BY <1>1, <2>1, <1>4
    <3>. QED
      BY <1>3, <1>5, <3>1
  <2>6. blankLine(b) = -1
    BY <1>1, <1>4, <1>7, <2>4, <2>5, NoHeadIsFound DEF h
  <2>7. onRead(b, cl, req) = Keep(b, cl, req)
    BY <2>6 DEF onRead
  <2>8. cl = -1 /\ req = NewRequest
    BY <1>1, <1>7 DEF HeadKnown, h
  <2>. QED
    BY <1>7, <2>7, <2>8 DEF h
<1>8. CASE h >= 3
  <2>1. \A q \in 1..3 : b.buffer_[r + q] = Request(k, l)[q]
    <3>1. \A q \in 1..3 : q \in 1..h /\ q \in 1 .. l + 3
      BY <1>1, <1>4, <1>8
    <3>. QED
      BY <1>3, <1>5, <3>1
  <2>2. blankLine(b) = 2 /\ headerParses(b, 2) /\ parse(b, 2, req) = Parsed(k, l)
    BY <1>4, <1>8, <2>1, HeadIsFound DEF h, Parsed
  <2>3. /\ (IF cl < 0 THEN parse(b, 2, req) ELSE req) = Parsed(k, l)
        /\ (IF cl < 0 /\ headerParses(b, 2) THEN Parsed(k, l).contentLength_ ELSE cl) = l
    <3>1. Parsed(k, l).contentLength_ = l
      BY DEF Parsed
    <3>2. CASE cl = -1
      BY <2>2, <3>1, <3>2
    <3>3. CASE cl # -1
      <4>1. cl = l /\ req = Parsed(k, l)
        BY <3>3 DEF HeadKnown, l
      <4>2. ~(cl < 0)
        BY <1>4, <4>1
      <4>. QED
        BY <4>1, <4>2
    <3>. QED
      BY <3>2, <3>3
  <2>4. isComplete(b, 2, Parsed(k, l)) <=> l + 2 <= h
    BY <1>2 DEF isComplete, Parsed
  <2>5. onRead(b, cl, req) = IF isComplete(b, 2, Parsed(k, l))
                             THEN takeRequest(b, 2, l, Parsed(k, l))
                             ELSE Keep(b, l, Parsed(k, l))
    BY <2>2, <2>3 DEF onRead
  <2>6. h # l + 2
    <3>1. SUFFICES ASSUME h = l + 2
                   PROVE  FALSE
      OBVIOUS
    <3>2. h + 1 = l + 3 /\ h < N /\ l + 3 \in 1 .. l + 3 /\ l + 3 # 1
      BY <1>1, <1>3, <1>4, <3>1
    <3>3. x[1] = Request(k, l)[l + 3] /\ x # <<>>
      BY <1>3, <1>6, <3>2
    <3>4. x[1].req = k /\ x[1].kind = "body" /\ x[1].n = l
      BY <1>4, <3>2, <3>3, FirstAndLast
    <3>. QED
      BY <3>3, <3>4 DEF ReadEnded, l
  <2>7. CASE l + 2 <= h
    <3>1. h >= l + 3
      BY <1>1, <1>4, <2>6, <2>7
    <3>. QED
      BY <2>4, <2>5, <2>7, <3>1 DEF h, l
  <2>8. CASE ~(l + 2 <= h)
    BY <1>8, <2>4, <2>5, <2>8 DEF h, l
  <2>. QED
    BY <2>7, <2>8
<1>. QED
  BY <1>1, <1>7, <1>8

------------------------------------------------------------------------------
(* The invariant *)

\* Nothing is pending and the buffer is empty.
LEMMA InitInv ==
  ASSUME NEW B, Init
  PROVE  IndInv(B)
<1>1. Capacity \in Nat \ {0} /\ MaxReq \in Nat /\ Window \in Nat
  BY FramingAssumption
<1>2. /\ readBuffer.buffer_ \in Seq(Cell \cup {Nul}) /\ Len(readBuffer.buffer_) = Capacity
      /\ readBuffer.readIndex_ = 0 /\ readBuffer.writeIndex_ = 0
      /\ readBuffer \in Buffer
  <2>. DEFINE S == Cell \cup {Nul}
              zero == [i \in 1..Capacity |-> Nul]
  <2>1. zero \in Seq(S) /\ Len(zero) = Capacity
    BY <1>1
  <2>. HIDE DEF S, zero
  <2>2. readBuffer = [buffer_ |-> zero, readIndex_ |-> 0, writeIndex_ |-> 0]
    BY DEF Init, zero
  <2>. QED
    BY <1>1, <2>1, <2>2 DEF Buffer, S
<1>3. TypeOK
  BY <1>1, <1>2 DEF TypeOK, Init, NewRequest
<1>4. DeliversTheRequests
  BY DEF Init, DeliversTheRequests
<1>5. held(readBuffer) = 0 /\ Len(rx) = 0 /\ Len(lengths) = 0 /\ Len(delivered) = 0
  BY <1>2 DEF held, Init
<1>6. Framed(Pending(readBuffer, rx), held(readBuffer) + Len(rx), lengths, Len(delivered), B)
  <2>. DEFINE U == Pending(readBuffer, rx)
  <2>. HIDE DEF U
  <2>1. Framed(U, 0, lengths, 0, B)
    BY <1>5 DEF Framed, StartsRight, Whole, InOrder, OfRequests, AllThere, Distinct,
                EndsRight, Short
  <2>. QED
    BY <1>5, <2>1 DEF U
<1>7. ReadEnded(readBuffer, rx)
  BY DEF ReadEnded, Init
<1>8. HeadKnown(readBuffer, contentLength_, httpRequset_, Len(delivered) + 1)
  BY DEF HeadKnown, Init
<1>. QED
  BY <1>1, <1>2, <1>3, <1>4, <1>5, <1>6, <1>7, <1>8 DEF IndInv

\* A client sends: its request joins what is pending, and the rest stays.
LEMMA SendInv ==
  ASSUME Cuts, NEW B, Fits(B), IndInv(B), Send
  PROVE  IndInv(B)'
<1>. DEFINE m == Len(lengths)
            d == Len(delivered)
            h == held(readBuffer)
            N == h + Len(rx)
            U == Pending(readBuffer, rx)
            V == Pending(readBuffer, rx')
<1>1. PICK n \in Bodies :
        /\ lengths' = Append(lengths, n)
        /\ rx' = rx \o HeadOf(m + 1, n) \o BodyOf(m + 1, n)
  BY DEF Send
<1>2. /\ m < MaxReq /\ m < d + Window
      /\ UNCHANGED <<readBuffer, contentLength_, httpRequset_, delivered>>
  BY DEF Send
<1>3. /\ TypeOK /\ lengths \in Seq(Bodies) /\ rx \in Seq(Cell) /\ readBuffer \in Buffer
      /\ m \in Nat /\ d \in Nat /\ d <= m /\ h \in Nat /\ Len(rx) \in Nat /\ N \in Nat
      /\ MaxReq \in Nat /\ Window \in Nat /\ n \in Nat \ {0} /\ m + 1 \in 1..MaxReq
  <2>1. /\ TypeOK /\ lengths \in Seq(Bodies) /\ rx \in Seq(Cell) /\ readBuffer \in Buffer
        /\ d <= m /\ delivered \in Seq([url_ : 0..MaxReq, content_ : Seq(Cell \cup {Nul})])
        /\ MaxReq \in Nat /\ Window \in Nat /\ n \in Nat \ {0}
    BY FramingAssumption DEF IndInv, TypeOK, DeliversTheRequests, Cuts
  <2>2. m \in Nat /\ d \in Nat /\ Len(rx) \in Nat
    BY <2>1
  <2>3. h \in Nat
    BY <2>1 DEF Buffer, held
  <2>4. N \in Nat /\ m + 1 \in 1..MaxReq
    BY <1>2, <2>1, <2>2, <2>3
  <2>. QED
    BY <2>1, <2>2, <2>3, <2>4
<1>4. /\ lengths' \in Seq(Bodies) /\ Len(lengths') = m + 1
      /\ \A k \in 1..m : lengths'[k] = lengths[k]
  BY <1>1, <1>3, AppendProperties
<1>5. /\ rx' \in Seq(Cell) /\ Len(rx') = Len(rx) + (n + 3)
      /\ \A i \in 1 .. Len(rx) : rx'[i] = rx[i]
      /\ \A q \in 1 .. n + 3 : rx'[Len(rx) + q] = Request(m + 1, n)[q]
  <2>. DEFINE new == Request(m + 1, n)
              H == HeadOf(m + 1, n)
              T == BodyOf(m + 1, n)
  <2>1. new \in Seq(Cell) /\ Len(new) = n + 3
    BY <1>3, RequestCells
  <2>2. H \in Seq(Cell) /\ T \in Seq(Cell)
    <3>1. \A i \in 1..n : [req |-> m + 1, kind |-> "body", n |-> i] \in Cell
      BY <1>3 DEF Cell, Kind
    <3>2. /\ [req |-> m + 1, kind |-> "line", n |-> 0] \in Cell
          /\ [req |-> m + 1, kind |-> "len", n |-> n] \in Cell
          /\ [req |-> m + 1, kind |-> "end", n |-> 0] \in Cell
      BY <1>3 DEF Cell, Kind
    <3>. QED
      BY <1>3, <3>1, <3>2 DEF HeadOf, BodyOf
  <2>3. new = H \o T
    BY DEF Request
  <2>. HIDE DEF new, H, T
  <2>4. rx' = rx \o new
    <3>1. rx' = (rx \o H) \o T
      BY <1>1 DEF H, T
    <3>2. \A s, t, u \in Seq(Cell) : (s \o t) \o u = s \o (t \o u)
      BY ConcatAssociative
    <3>. QED
      BY <1>3, <2>2, <2>3, <3>1, <3>2
  <2>5. /\ rx \o new \in Seq(Cell) /\ Len(rx \o new) = Len(rx) + Len(new)
        /\ \A i \in 1 .. Len(rx) + Len(new) :
             (rx \o new)[i] = IF i <= Len(rx) THEN rx[i] ELSE new[i - Len(rx)]
    <3>1. rx \in Seq(Cell) /\ new \in Seq(Cell)
      BY <1>3, <2>1
    <3>. QED
      BY <3>1, ConcatProperties
  <2>6. \A i \in 1 .. Len(rx) : rx'[i] = rx[i]
    BY <1>3, <2>1, <2>4, <2>5
  <2>7. ASSUME NEW q \in 1 .. n + 3
        PROVE  rx'[Len(rx) + q] = new[q]
    <3>1. /\ Len(rx) + q \in 1 .. Len(rx) + Len(new) /\ ~(Len(rx) + q <= Len(rx))
          /\ Len(rx) + q - Len(rx) = q
      BY <1>3, <2>1
    <3>. QED
      BY <2>4, <2>5, <3>1
  <2>. QED
    BY <2>1, <2>4, <2>5, <2>6, <2>7 DEF new
<1>6. Framed(V, N + n + 3, lengths', d, B)
  <2>1. Framed(U, N, lengths, d, B)
    BY DEF IndInv
  <2>2. \A i \in 1..N : V[i] = U[i]
    <3>1. \A i \in 1..N : i \in 1 .. h + Len(rx') /\ (~(i <= h) => i - h \in 1 .. Len(rx))
      <4>1. h \in Nat /\ Len(rx) \in Nat /\ Len(rx') = Len(rx) + (n + 3) /\ n \in Nat
        BY <1>3, <1>5
      <4>. HIDE DEF h
      <4>. QED
        BY <4>1
    <3>. QED
      BY <1>3, <1>5, <3>1 DEF Pending
  <2>3. \A q \in 1 .. n + 3 : V[N + q] = Request(m + 1, n)[q]
    <3>1. \A q \in 1 .. n + 3 : /\ N + q \in 1 .. h + Len(rx') /\ ~(N + q <= h)
                                /\ (N + q) - h = Len(rx) + q
      <4>1. h \in Nat /\ Len(rx) \in Nat /\ Len(rx') = Len(rx) + (n + 3) /\ n \in Nat
        BY <1>3, <1>5
      <4>. HIDE DEF h
      <4>. QED
        BY <4>1
    <3>. QED
      BY <1>3, <1>5, <3>1 DEF Pending
  <2>4. Bodies \subseteq Nat \ {0} /\ d \in 0..m
    BY <1>3 DEF Cuts
  <2>. HIDE DEF U, V, N
  <2>5. Framed(V, N + n + 3, Append(lengths, n), d, B)
    BY <1>2, <1>3, <2>1, <2>2, <2>3, <2>4, FramedAppended
  <2>. QED
    BY <1>1, <2>5
<1>7. Framed(Pending(readBuffer, rx), held(readBuffer) + Len(rx), lengths, Len(delivered), B)'
  <2>1. N + n + 3 = h + Len(rx')
    <3>1. h \in Nat /\ Len(rx) \in Nat /\ Len(rx') = Len(rx) + (n + 3) /\ n \in Nat
      BY <1>3, <1>5
    <3>. HIDE DEF h
    <3>. QED
      BY <3>1
  <2>. QED
    BY <1>2, <1>6, <2>1 DEF Pending, held
<1>8. ReadEnded(readBuffer, rx)'
  <2>1. CASE rx = <<>>
    <3>1. 1 \in 1 .. n + 3 /\ Len(rx) + 1 = 1
      BY <1>3, <2>1
    <3>2. rx'[1] = Request(m + 1, n)[1]
      BY <1>5, <3>1
    <3>3. rx'[1].kind = "line"
      BY <1>3, <3>1, <3>2, FirstAndLast
    <3>. QED
      BY <3>3 DEF ReadEnded
  <2>2. CASE rx # <<>>
    <3>1. 1 \in 1 .. Len(rx) /\ rx'[1] = rx[1]
      BY <1>3, <1>5, <2>2
    <3>2. rx[1].req \in 1..m
      <4>1. h + 1 \in 1..N /\ U[h + 1] = rx[1]
        BY <1>3, <3>1 DEF Pending
      <4>2. OfRequests(U, N, lengths, d) /\ m <= MaxReq
        BY <1>2, <1>3 DEF IndInv, Framed
      <4>. HIDE DEF U, N
      <4>3. U[h + 1].req \in d + 1 .. m
        BY <1>3, <4>1, <4>2, CellsOfRequests DEF Cuts
      <4>. QED
        BY <1>3, <4>1, <4>3
    <3>3. lengths'[rx[1].req] = lengths[rx[1].req]
      BY <1>4, <3>2
    <3>4. ReadEnded(readBuffer, rx)
      BY DEF IndInv
    <3>. QED
      BY <1>2, <2>2, <3>1, <3>3, <3>4 DEF ReadEnded
  <2>. QED
    BY <2>1, <2>2
<1>9. HeadKnown(readBuffer, contentLength_, httpRequset_, Len(delivered) + 1)'
  <2>1. HeadKnown(readBuffer, contentLength_, httpRequset_, d + 1)
    BY DEF IndInv
  <2>2. CASE contentLength_ = -1
    BY <1>2, <2>1, <2>2 DEF HeadKnown
  <2>3. CASE contentLength_ # -1
    <3>1. h >= 3
      BY <2>1, <2>3 DEF HeadKnown
    <3>2. N \in Nat \ {0} /\ Framed(U, N, lengths, d, B)
      BY <1>3, <3>1 DEF IndInv
    <3>. HIDE DEF U, N
    <3>3. d + 1 \in 1..m
      BY <1>2, <1>3, <3>2, FirstIsWhole DEF Cuts
    <3>4. lengths'[d + 1] = lengths[d + 1]
      BY <1>4, <3>3
    <3>. QED
      BY <1>2, <2>1, <2>3, <3>4 DEF HeadKnown, held
  <2>. QED
    BY <2>2, <2>3
<1>10. DeliversTheRequests'
  <2>1. \A k \in 1..d : k \in 1..m
    BY <1>3
  <2>2. \A k \in 1..d : lengths'[k] = lengths[k]
    BY <1>4, <2>1
  <2>3. \A k \in 1..d : delivered[k] = [url_ |-> k, content_ |-> ContentOf(k, lengths[k])]
    BY DEF IndInv, DeliversTheRequests
  <2>4. d <= m + 1
    BY <1>3
  <2>. QED
    BY <1>2, <1>4, <2>2, <2>3, <2>4 DEF DeliversTheRequests
<1>11. TypeOK'
  BY <1>2, <1>3, <1>4, <1>5 DEF TypeOK
<1>12. Len(lengths') <= MaxReq /\ Len(lengths') <= Len(delivered') + Window
  BY <1>2, <1>3, <1>4
<1>. QED
  BY <1>2, <1>3, <1>7, <1>8, <1>9, <1>10, <1>11, <1>12 DEF IndInv

\* The pending cells one by one.
LEMMA PendingAt ==
  ASSUME NEW b, NEW x, NEW i \in 1 .. held(b) + Len(x)
  PROVE  Pending(b, x)[i] = IF i <= held(b) THEN b.buffer_[b.readIndex_ + i] ELSE x[i - held(b)]
BY DEF Pending

\* What a read leaves in the kernel.
LEMMA LeftBehind ==
  ASSUME rx \in Seq(Cell), NEW n \in 1 .. Len(rx)
  PROVE  LET x == SubSeq(rx, n + 1, Len(rx)) IN
         /\ x \in Seq(Cell) /\ Len(x) = Len(rx) - n
         /\ \A i \in 1 .. Len(rx) - n : x[i] = rx[n + i]
<1>. DEFINE x == SubSeq(rx, n + 1, Len(rx))
            l == Len(rx)
<1>1. l \in Nat /\ n \in Nat \ {0} /\ n <= l /\ \A i \in 1..l : rx[i] \in Cell
  BY ElementOfSeq
<1>2. \A i \in n + 1 .. l : rx[i] \in Cell
  BY <1>1
<1>3. /\ x \in Seq(Cell) /\ Len(x) = IF n + 1 <= l THEN l - (n + 1) + 1 ELSE 0
      /\ \A i \in 1 .. l - (n + 1) + 1 : x[i] = rx[n + 1 + i - 1]
  BY <1>1, <1>2, SubSeqProperties
<1>. HIDE DEF x, l
<1>4. \A i \in 1 .. l - n : i \in 1 .. l - (n + 1) + 1 /\ n + 1 + i - 1 = n + i
  BY <1>1
<1>5. \A i \in 1 .. l - n : x[i] = rx[n + i]
  BY <1>3, <1>4
<1>. QED
  BY <1>1, <1>3, <1>5 DEF l, x

\* What the read has left in the kernel, when the read may end there.
LEMMA ReadEndsWell ==
  ASSUME Cuts, rx \in Seq(Cell), NEW n \in 1 .. Len(rx), MayEnd(n),
         NEW b, NEW x, x = SubSeq(rx, n + 1, Len(rx)),
         n = getRemainSize(readBuffer) =>
           \A i \in b.writeIndex_ + 1 .. Len(b.buffer_) : b.buffer_[i] = Nul
  PROVE  ReadEnded(b, x)
<1>1. SUFFICES ASSUME x # <<>>
               PROVE  \/ x[1].kind = "line"
                      \/ x[1].kind = "body" /\ x[1].n # lengths[x[1].req]
                      \/ /\ x[1].kind \in {"len", "end"}
                         /\ n = getRemainSize(readBuffer)
  BY DEF ReadEnded
<1>2. n < Len(rx) /\ x[1] = rx[n + 1] /\ n + 1 \in 1 .. Len(rx)
  <2>1. Len(rx) \in Nat /\ Len(x) = Len(rx) - n /\ x \in Seq(Cell)
        /\ \A i \in 1 .. Len(rx) - n : x[i] = rx[n + i]
    BY LeftBehind
  <2>2. 1 \in 1 .. Len(rx) - n
    BY <1>1, <2>1
  <2>. QED
    BY <2>1, <2>2
<1>3. x[1].kind \in {"line", "len", "end", "body"}
  <2>1. rx[n + 1] \in Cell
    BY <1>2, ElementOfSeq
  <2>. QED
    BY <1>2, <2>1 DEF Cell, Kind
<1>4. CASE x[1].kind = "line"
  BY <1>4
<1>5. CASE x[1].kind = "body"
  BY <1>2, <1>5 DEF MayEnd, Cuts
<1>6. CASE x[1].kind \in {"len", "end"}
  BY <1>2, <1>6 DEF MayEnd, Cuts
<1>. QED
  BY <1>3, <1>4, <1>5, <1>6

\* What the read moves into the buffer stays pending, behind what was there.
LEMMA ReadKeepsPending ==
  ASSUME readBuffer \in Buffer, rx \in Seq(Cell), NEW n \in 1 .. Len(rx),
         n <= getRemainSize(readBuffer)
  PROVE  LET b == peek(readBuffer, SubSeq(rx, 1, n))
             x == SubSeq(rx, n + 1, Len(rx)) IN
         /\ b \in Buffer /\ x \in Seq(Cell)
         /\ held(b) = held(readBuffer) + n /\ held(b) + Len(x) = held(readBuffer) + Len(rx)
         /\ Pending(b, x) = Pending(readBuffer, rx)
         /\ n = getRemainSize(readBuffer) =>
              \A i \in b.writeIndex_ + 1 .. Len(b.buffer_) : b.buffer_[i] = Nul
<1>. DEFINE c == SubSeq(rx, 1, n)
            x == SubSeq(rx, n + 1, Len(rx))
            b == peek(readBuffer, c)
            r == readBuffer.readIndex_
            w == readBuffer.writeIndex_
            h == held(readBuffer)
<1>1. /\ r \in Nat /\ w \in Nat /\ r <= w /\ h = w - r /\ Len(rx) \in Nat /\ h \in Nat
      /\ n \in Nat \ {0} /\ n <= Len(rx) /\ \A i \in 1 .. Len(rx) : rx[i] \in Cell
  BY ElementOfSeq DEF Buffer, held
<1>2. c \in Seq(Cell) /\ Len(c) = n /\ \A i \in 1..n : c[i] = rx[i]
  <2>1. \A i \in 1..n : rx[i] \in Cell
    BY <1>1
  <2>2. /\ c \in Seq(Cell) /\ Len(c) = IF 1 <= n THEN n - 1 + 1 ELSE 0
        /\ \A i \in 1 .. n - 1 + 1 : c[i] = rx[1 + i - 1]
    BY <1>1, <2>1, SubSeqProperties
  <2>. HIDE DEF c
  <2>. QED
    BY <1>1, <2>2
<1>3. /\ x \in Seq(Cell) /\ Len(x) = Len(rx) - n
      /\ \A i \in 1 .. Len(rx) - n : x[i] = rx[n + i]
  BY LeftBehind
<1>. HIDE DEF c, x
<1>4. /\ b \in Buffer /\ b.readIndex_ = r /\ b.writeIndex_ = w + n
      /\ \A i \in 1..w : b.buffer_[i] = readBuffer.buffer_[i]
      /\ \A i \in 1..n : b.buffer_[w + i] = c[i]
      /\ n = getRemainSize(readBuffer) =>
           \A i \in b.writeIndex_ + 1 .. Len(b.buffer_) : b.buffer_[i] = Nul
  <2>1. c # <<>> /\ Len(c) <= getRemainSize(readBuffer)
    BY <1>1, <1>2
  <2>. QED
    BY <1>2, <2>1, PeekFills
<1>. HIDE DEF b
<1>5. held(b) = h + n /\ held(b) + Len(x) = h + Len(rx)
  <2>1. held(b) = (w + n) - r
    BY <1>4 DEF held
  <2>2. /\ r \in Nat /\ w \in Nat /\ h = w - r /\ n \in Nat /\ Len(rx) \in Nat
        /\ Len(x) = Len(rx) - n
    BY <1>1, <1>3
  <2>. HIDE DEF r, w, h
  <2>. QED
    BY <2>1, <2>2
<1>. HIDE DEF r, w, h
<1>6. ASSUME NEW i \in 1 .. h + Len(rx)
      PROVE  Pending(b, x)[i] = Pending(readBuffer, rx)[i]
  <2>1. /\ Pending(b, x)[i] = IF i <= h + n THEN b.buffer_[r + i] ELSE x[i - (h + n)]
        /\ Pending(readBuffer, rx)[i] = IF i <= h THEN readBuffer.buffer_[r + i] ELSE rx[i - h]
    BY <1>4, <1>5 DEF Pending, h, r
  <2>2. CASE i <= h
    <3>1. i <= h + n /\ r + i \in 1..w
      BY <1>1, <2>2
    <3>. QED
      BY <1>4, <2>1, <2>2, <3>1
  <2>3. CASE h < i /\ i <= h + n
    <3>1. ~(i <= h) /\ i - h \in 1..n /\ r + i = w + (i - h)
      <4>1. r \in Nat /\ w \in Nat /\ h = w - r /\ n \in Nat
        BY <1>1
      <4>. QED
        BY <2>3, <4>1
    <3>. QED
      BY <1>2, <1>4, <2>1, <2>3, <3>1
  <2>4. CASE h + n < i
    <3>1. /\ ~(i <= h) /\ ~(i <= h + n) /\ i - (h + n) \in 1 .. Len(rx) - n
          /\ n + (i - (h + n)) = i - h
      <4>1. h \in Nat /\ n \in Nat /\ Len(rx) \in Nat
        BY <1>1
      <4>. QED
        BY <2>4, <4>1
    <3>. QED
      BY <1>3, <2>1, <3>1
  <2>. QED
    BY <1>1, <2>2, <2>3, <2>4
<1>7. Pending(b, x) = Pending(readBuffer, rx)
  <2>1. /\ Pending(b, x) = [i \in 1 .. h + Len(rx) |-> Pending(b, x)[i]]
        /\ Pending(readBuffer, rx) = [i \in 1 .. h + Len(rx) |-> Pending(readBuffer, rx)[i]]
    BY <1>5 DEF Pending, h
  <2>. QED
    BY <1>6, <2>1
<1>. QED
  BY <1>3, <1>4, <1>5, <1>7 DEF b, c, x, h

\* A read moves cells into the buffer, and onRead waits or takes one request.
LEMMA ReadInv ==
  ASSUME Cuts, NEW B, Fits(B), IndInv(B), readHandler
  PROVE  IndInv(B)'
<1>1. PICK n \in 1 .. Len(rx) :
        /\ n <= getRemainSize(readBuffer)
        /\ MayEnd(n)
        /\ LET result == onRead(peek(readBuffer, SubSeq(rx, 1, n)), contentLength_, httpRequset_)
           IN /\ readBuffer' = result.buffer
              /\ contentLength_' = result.contentLength
              /\ httpRequset_' = result.request
              /\ delivered' = delivered \o result.message
        /\ rx' = SubSeq(rx, n + 1, Len(rx))
        /\ UNCHANGED lengths
  BY DEF readHandler
<1>. DEFINE m == Len(lengths)
            d == Len(delivered)
            k == d + 1
            l == lengths[k]
            b == peek(readBuffer, SubSeq(rx, 1, n))
            x == rx'
            N == held(readBuffer) + Len(rx)
            U == Pending(readBuffer, rx)
            result == onRead(b, contentLength_, httpRequset_)
            Message == [url_ : 0..MaxReq, content_ : Seq(Cell \cup {Nul})]
<1>2. /\ lengths \in Seq(Bodies) /\ rx \in Seq(Cell) /\ readBuffer \in Buffer
      /\ m \in Nat /\ d \in Nat /\ d <= m /\ m <= MaxReq /\ m <= d + Window
      /\ delivered \in Seq(Message) /\ Len(rx) \in Nat /\ MaxReq \in Nat
      /\ Window \in Nat /\ held(readBuffer) \in Nat
  <2>1. /\ lengths \in Seq(Bodies) /\ rx \in Seq(Cell) /\ readBuffer \in Buffer
        /\ d <= m /\ m <= MaxReq /\ m <= d + Window /\ delivered \in Seq(Message)
        /\ MaxReq \in Nat /\ Window \in Nat
    BY FramingAssumption DEF IndInv, TypeOK, DeliversTheRequests
  <2>2. m \in Nat /\ d \in Nat /\ Len(rx) \in Nat
    BY <2>1
  <2>3. held(readBuffer) \in Nat
    BY <2>1 DEF Buffer, held
  <2>. QED
    BY <2>1, <2>2, <2>3
<1>3. /\ b \in Buffer /\ x \in Seq(Cell)
      /\ held(b) = held(readBuffer) + n /\ held(b) + Len(x) = N /\ Pending(b, x) = U
      /\ n = getRemainSize(readBuffer) =>
           \A i \in b.writeIndex_ + 1 .. Len(b.buffer_) : b.buffer_[i] = Nul
  BY <1>1, <1>2, ReadKeepsPending
<1>4. held(b) > 0 /\ N \in Nat \ {0} /\ held(b) \in Nat /\ Len(x) \in Nat
  BY <1>2, <1>3
<1>5. Framed(U, N, lengths, d, B)
  BY DEF IndInv
<1>. HIDE DEF U, N, b
<1>6. ReadEnded(b, x)
  BY <1>1, <1>2, <1>3, ReadEndsWell
<1>7. HeadKnown(b, contentLength_, httpRequset_, k)
  <2>1. HeadKnown(readBuffer, contentLength_, httpRequset_, k)
    BY DEF IndInv
  <2>2. held(readBuffer) >= 3 => held(b) >= 3
    BY <1>2, <1>3
  <2>3. CASE contentLength_ = -1
    BY <2>1, <2>3 DEF HeadKnown
  <2>4. CASE contentLength_ # -1
    <3>. HIDE DEF l, k
    <3>. QED
      BY <2>1, <2>2, <2>4 DEF HeadKnown
  <2>. QED
    BY <2>3, <2>4
<1>8. k \in 1..m /\ l \in Bodies /\ l + 3 <= N /\ Begins(U, k, l)
  BY <1>2, <1>4, <1>5, FirstIsWhole DEF Cuts
<1>. HIDE DEF l
<1>9. l \in Nat \ {0} /\ k \in 1..MaxReq
  <2>1. k \in 1..MaxReq
    BY <1>2, <1>8
  <2>. QED
    BY <1>8, <2>1 DEF Cuts
<1>10. \/ held(b) < 3 /\ result = Keep(b, -1, NewRequest)
       \/ held(b) >= 3 /\ result = Keep(b, l, Parsed(k, l))
       \/ held(b) >= l + 3 /\ result = takeRequest(b, 2, l, Parsed(k, l))
  <2>1. Framed(Pending(b, x), held(b) + Len(x), lengths, d, B)
    BY <1>3, <1>5
  <2>. QED
    BY <1>2, <1>3, <1>4, <1>6, <1>7, <2>1, OnReadCases DEF l
<1>11. /\ readBuffer' = result.buffer /\ contentLength_' = result.contentLength
       /\ httpRequset_' = result.request /\ delivered' = delivered \o result.message
       /\ lengths' = lengths
  BY <1>1 DEF b
<1>. HIDE DEF result, x
<1>12. ASSUME \/ held(b) < 3 /\ result = Keep(b, -1, NewRequest)
              \/ held(b) >= 3 /\ result = Keep(b, l, Parsed(k, l))
       PROVE  IndInv(B)'
  <2>1. readBuffer' = b /\ delivered' = delivered
    <3>1. result.buffer = b /\ result.message = <<>>
      BY <1>12 DEF Keep
    <3>. QED
      BY <1>2, <1>11, <3>1, ConcatEmptySeq
  <2>2. HeadKnown(b, contentLength_', httpRequset_', k)
    <3>1. CASE held(b) < 3 /\ result = Keep(b, -1, NewRequest)
      BY <1>11, <3>1 DEF HeadKnown, Keep
    <3>2. CASE held(b) >= 3 /\ result = Keep(b, l, Parsed(k, l))
      BY <1>9, <1>11, <3>2 DEF HeadKnown, Keep, l
    <3>. QED
      BY <1>12, <3>1, <3>2
  <2>3. HeadKnown(readBuffer, contentLength_, httpRequset_, Len(delivered) + 1)'
    BY <1>11, <2>1, <2>2 DEF HeadKnown, held
  <2>4. /\ contentLength_' \in {-1} \cup Bodies
        /\ httpRequset_' \in [url_ : 0..MaxReq, contentLength_ : Nat]
    <3>1. CASE contentLength_' = -1
      BY <1>2, <2>2, <3>1 DEF HeadKnown, NewRequest
    <3>2. CASE contentLength_' # -1
      <4>1. contentLength_' = l /\ httpRequset_' = Parsed(k, l)
        BY <2>2, <3>2 DEF HeadKnown, l
      <4>2. k \in 0..MaxReq /\ l \in Bodies /\ l \in Nat
        BY <1>2, <1>8, <1>9
      <4>. QED
        BY <4>1, <4>2 DEF Parsed
    <3>. QED
      BY <3>1, <3>2
  <2>5. TypeOK'
    <3>1. /\ b.buffer_ \in Seq(Cell \cup {Nul})
          /\ b.readIndex_ \in 0 .. Len(b.buffer_) /\ b.writeIndex_ \in 0 .. Len(b.buffer_)
      BY <1>3 DEF Buffer
    <3>2. rx' \in Seq(Cell)
      BY <1>3 DEF x
    <3>. QED
      BY <1>2, <1>11, <2>1, <2>4, <3>1, <3>2 DEF TypeOK
  <2>6. Framed(Pending(readBuffer, rx), held(readBuffer) + Len(rx), lengths, Len(delivered), B)'
    <3>1. Framed(Pending(b, rx'), held(b) + Len(rx'), lengths, d, B)
      BY <1>3, <1>5 DEF x
    <3>. QED
      BY <1>11, <2>1, <3>1 DEF Pending, held
  <2>7. ReadEnded(readBuffer, rx)'
    BY <1>6, <1>11, <2>1 DEF ReadEnded, x
  <2>8. DeliversTheRequests'
    BY <1>11, <2>1 DEF IndInv, DeliversTheRequests
  <2>. QED
    BY <1>2, <1>3, <1>11, <2>1, <2>3, <2>5, <2>6, <2>7, <2>8 DEF IndInv
<1>13. ASSUME held(b) >= l + 3, result = takeRequest(b, 2, l, Parsed(k, l))
       PROVE  IndInv(B)'
  <2>. DEFINE s == result.buffer
              message == [url_ |-> k, content_ |-> ContentOf(k, l)]
  <2>1. /\ s \in Buffer /\ s.buffer_ = b.buffer_ /\ held(s) = held(b) - (l + 3)
        /\ l + 3 < held(b) => /\ s.readIndex_ = b.readIndex_ + (l + 3)
                              /\ s.writeIndex_ = b.writeIndex_
        /\ result.contentLength = -1 /\ result.request = NewRequest
        /\ result.message = <<message>>
    <3>1. \A q \in 1 .. l + 3 : b.buffer_[b.readIndex_ + q] = Request(k, l)[q]
      <4>1. \A q \in 1 .. l + 3 : q \in 1 .. held(b) + Len(x) /\ q <= held(b)
        BY <1>4, <1>9, <1>13
      <4>2. \A q \in 1 .. l + 3 : Pending(b, x)[q] = b.buffer_[b.readIndex_ + q]
        BY <4>1 DEF Pending
      <4>. QED
        BY <1>3, <1>8, <4>2 DEF Begins
    <3>. QED
      BY <1>3, <1>9, <1>13, <3>1, RequestIsTaken DEF Parsed
  <2>. HIDE DEF s
  <2>2. /\ readBuffer' = s /\ contentLength_' = -1 /\ httpRequset_' = NewRequest
        /\ delivered' = delivered \o <<message>>
    BY <1>11, <2>1 DEF s
  <2>3. message \in Message
    <3>1. \A i \in 1..l : [req |-> k, kind |-> "body", n |-> i] \in Cell \cup {Nul}
      BY <1>9 DEF Cell, Kind
    <3>2. BodyOf(k, l) \in Seq(Cell \cup {Nul})
      <4>. DEFINE S == Cell \cup {Nul}
      <4>. HIDE DEF S
      <4>. QED
        BY <1>9, <3>1 DEF BodyOf, S
    <3>3. ContentOf(k, l) \in Seq(Cell \cup {Nul})
      <4>. DEFINE T == BodyOf(k, l)
      <4>. HIDE DEF T
      <4>1. T \in Seq(Cell \cup {Nul}) => Append(T, Nul) \in Seq(Cell \cup {Nul})
        BY AppendProperties
      <4>. QED
        BY <3>2, <4>1 DEF ContentOf, T
    <3>. QED
      BY <1>9, <3>3
  <2>4. /\ delivered' \in Seq(Message) /\ Len(delivered') = k
        /\ \A i \in 1..d : delivered'[i] = delivered[i]
        /\ delivered'[k] = message
    <3>. HIDE DEF Message, message
    <3>1. delivered' = Append(delivered, message)
      BY <1>2, <2>2, <2>3, AppendIsConcat
    <3>. QED
      <4>1. /\ Append(delivered, message) \in Seq(Message)
            /\ Len(Append(delivered, message)) = d + 1
            /\ \A i \in 1..d : Append(delivered, message)[i] = delivered[i]
            /\ Append(delivered, message)[d + 1] = message
        BY <1>2, <2>3, AppendProperties
      <4>. QED
        BY <3>1, <4>1
  <2>5. held(s) + Len(x) = N - (l + 3) /\ held(s) \in Nat
    <3>1. held(s) = held(b) - (l + 3) /\ held(b) + Len(x) = N
      BY <1>3, <2>1
    <3>2. held(b) \in Nat /\ Len(x) \in Nat /\ l \in Nat /\ held(b) >= l + 3
      BY <1>4, <1>9, <1>13
    <3>. QED
      BY <3>1, <3>2
  <2>6. \A i \in 1 .. N - (l + 3) : Pending(s, x)[i] = U[l + 3 + i]
    <3>1. SUFFICES ASSUME NEW i \in 1 .. N - (l + 3)
                   PROVE  Pending(s, x)[i] = Pending(b, x)[l + 3 + i]
      BY <1>3
    <3>2. /\ Pending(s, x)[i] = IF i <= held(s) THEN s.buffer_[s.readIndex_ + i]
                                ELSE x[i - held(s)]
      BY <2>5 DEF Pending
    <3>3. l + 3 + i \in 1 .. held(b) + Len(x)
      BY <1>3, <1>4, <1>9
    <3>4. Pending(b, x)[l + 3 + i] = IF l + 3 + i <= held(b)
                                     THEN b.buffer_[b.readIndex_ + (l + 3 + i)]
                                     ELSE x[(l + 3 + i) - held(b)]
      BY <3>3, PendingAt
    <3>5. CASE i <= held(s)
      <4>1. l + 3 < held(b) /\ l + 3 + i <= held(b)
        BY <1>4, <1>9, <1>13, <2>1, <2>5, <3>5
      <4>2. s.readIndex_ + i = b.readIndex_ + (l + 3 + i)
        <5>1. b.readIndex_ \in Nat
          BY <1>3 DEF Buffer
        <5>2. s.readIndex_ = b.readIndex_ + (l + 3)
          BY <2>1, <4>1
        <5>3. l \in Nat /\ i \in Nat
          BY <1>9
        <5>. QED
          BY <5>1, <5>2, <5>3
      <4>. QED
        BY <2>1, <3>2, <3>4, <3>5, <4>1, <4>2
    <3>6. CASE ~(i <= held(s))
      <4>1. ~(l + 3 + i <= held(b)) /\ (l + 3 + i) - held(b) = i - held(s)
        <5>1. l \in Nat /\ i \in Nat /\ held(b) \in Nat /\ held(s) = held(b) - (l + 3)
          BY <1>4, <1>9, <2>1
        <5>. QED
          BY <3>6, <5>1
      <4>. QED
        BY <3>2, <3>4, <3>6, <4>1
    <3>. QED
      BY <3>5, <3>6
  <2>7. Framed(Pending(s, x), N - (l + 3), lengths, k, B)
    <3>. DEFINE V == Pending(s, x)
    <3>1. \A i \in 1 .. N - (l + 3) : V[i] = U[l + 3 + i]
      BY <2>6
    <3>. HIDE DEF V
    <3>2. Framed(V, N - (l + 3), lengths, k, B)
      BY <1>2, <1>4, <1>5, <3>1, FramedDropped DEF Cuts, l
    <3>. QED
      BY <3>2 DEF V
  <2>8. Framed(Pending(readBuffer, rx), held(readBuffer) + Len(rx), lengths, Len(delivered), B)'
    <3>1. Framed(Pending(s, rx'), held(s) + Len(rx'), lengths, Len(delivered'), B)
      BY <2>4, <2>5, <2>7 DEF x
    <3>. QED
      BY <1>11, <2>2, <3>1 DEF Pending, held
  <2>9. ReadEnded(s, x)
    <3>1. CASE l + 3 < held(b)
      BY <1>6, <2>1, <3>1 DEF ReadEnded
    <3>2. CASE l + 3 = held(b)
      <4>1. SUFFICES ASSUME x # <<>>
                     PROVE  x[1].kind = "line"
        BY DEF ReadEnded
      <4>2. held(s) = 0 /\ Len(x) > 0
        BY <1>3, <1>4, <2>1, <3>2, <4>1
      <4>3. Pending(s, x)[1] = x[1] /\ N - (l + 3) > 0
        BY <1>4, <2>5, <4>2 DEF Pending
      <4>. QED
        BY <2>7, <4>3 DEF Framed, StartsRight
    <3>. QED
      BY <1>4, <1>9, <1>13, <3>1, <3>2
  <2>10. ReadEnded(readBuffer, rx)'
    BY <1>11, <2>2, <2>9 DEF ReadEnded, x
  <2>11. HeadKnown(readBuffer, contentLength_, httpRequset_, Len(delivered) + 1)'
    BY <2>2 DEF HeadKnown
  <2>12. DeliversTheRequests'
    <3>1. \A i \in 1..k : i \in 1..d \/ i = k
      BY <1>2
    <3>2. \A i \in 1..d : delivered[i] = [url_ |-> i, content_ |-> ContentOf(i, lengths[i])]
      BY DEF IndInv, DeliversTheRequests
    <3>3. k <= m
      BY <1>8
    <3>4. \A i \in 1..k : delivered'[i] = [url_ |-> i, content_ |-> ContentOf(i, lengths[i])]
      <4>1. delivered'[k] = [url_ |-> k, content_ |-> ContentOf(k, lengths[k])]
        BY <2>4 DEF l
      <4>. HIDE DEF k
      <4>. QED
        BY <2>4, <3>1, <3>2, <4>1
    <3>. HIDE DEF k
    <3>. QED
      BY <1>11, <2>4, <3>3, <3>4 DEF DeliversTheRequests
  <2>13. TypeOK'
    <3>1. /\ s.buffer_ \in Seq(Cell \cup {Nul})
          /\ s.readIndex_ \in 0 .. Len(s.buffer_) /\ s.writeIndex_ \in 0 .. Len(s.buffer_)
      BY <2>1 DEF Buffer
    <3>2. NewRequest \in [url_ : 0..MaxReq, contentLength_ : Nat]
      BY <1>2 DEF NewRequest
    <3>. QED
      BY <1>2, <1>3, <1>11, <2>2, <2>4, <3>1, <3>2 DEF TypeOK, x
  <2>14. Len(lengths') <= MaxReq /\ Len(lengths') <= Len(delivered') + Window
    BY <1>2, <1>11, <2>4
  <2>. QED
    BY <2>1, <2>2, <2>8, <2>10, <2>11, <2>12, <2>13, <2>14 DEF IndInv
<1>. QED
  BY <1>10, <1>12, <1>13

------------------------------------------------------------------------------
(* What follows from the invariant *)

\* The cells of the requests not delivered are the cells pending.
LEMMA UndeliveredIsPending ==
  ASSUME Cuts, NEW B, lengths \in Seq(Bodies), Len(lengths) <= MaxReq, Len(delivered) \in Nat,
         NEW N \in Nat, NEW U, Framed(U, N, lengths, Len(delivered), B)
  PROVE  Undelivered = Values(U, N)
<1>. DEFINE m == Len(lengths)
            d == Len(delivered)
<1>1. m \in Nat /\ MaxReq \in Nat /\ d \in Nat
  BY FramingAssumption
<1>2. \A k \in d + 1 .. m : k \in 1..MaxReq /\ lengths[k] \in Nat \ {0}
  <2>1. \A k \in d + 1 .. m : k \in 1..MaxReq /\ k \in 1..m
    BY <1>1
  <2>. QED
    BY <2>1, ElementOfSeq DEF Cuts
<1>3. ASSUME NEW k \in d + 1 .. m
      PROVE  Cells(Request(k, lengths[k]))
               = {Request(k, lengths[k])[q] : q \in 1 .. lengths[k] + 3}
  <2>. DEFINE R == Request(k, lengths[k])
  <2>1. R \in Seq(Cell) /\ Len(R) = lengths[k] + 3
    BY <1>2, RequestCells
  <2>. HIDE DEF R
  <2>2. DOMAIN R = 1 .. lengths[k] + 3
    BY <2>1, LenProperties
  <2>. QED
    BY <2>2 DEF Cells, R
<1>4. Undelivered = UNION {Cells(Request(k, lengths[k])) : k \in d + 1 .. m}
  BY DEF Undelivered, Request
<1>5. ASSUME NEW i \in 1..N
      PROVE  U[i] \in Undelivered
  <2>1. PICK k \in d + 1 .. m : \E q \in 1 .. lengths[k] + 3 : U[i] = Request(k, lengths[k])[q]
    BY DEF Framed, OfRequests
  <2>2. U[i] \in Cells(Request(k, lengths[k]))
    BY <1>3, <2>1
  <2>. QED
    BY <1>4, <2>2
<1>6. ASSUME NEW cell \in Undelivered
      PROVE  \E i \in 1..N : cell = U[i]
  <2>1. PICK k \in d + 1 .. m : cell \in Cells(Request(k, lengths[k]))
    BY <1>4
  <2>2. PICK q \in 1 .. lengths[k] + 3 : cell = Request(k, lengths[k])[q]
    BY <1>3, <2>1
  <2>3. PICK i \in 1..N : U[i].kind = "line" /\ U[i].req = k
    BY DEF Framed, AllThere
  <2>4. i + lengths[k] + 2 <= N /\ U[i + q - 1] = Request(k, lengths[k])[q]
    BY <2>3 DEF Framed, Whole
  <2>5. i + q - 1 \in 1..N
    <3>1. lengths[k] \in Nat
      BY <1>2
    <3>. QED
      BY <2>4, <3>1
  <2>. QED
    BY <2>2, <2>4, <2>5
<1>. QED
  BY <1>5, <1>6 DEF Values

\* The buffer holds the first of them, and the kernel the others.
LEMMA InvariantHolds ==
  ASSUME Cuts, NEW B, Fits(B), IndInv(B)
  PROVE  BufferHoldsTheRest
<1>. DEFINE b == readBuffer
            h == held(b)
            N == h + Len(rx)
            U == Pending(b, rx)
<1>1. /\ lengths \in Seq(Bodies) /\ rx \in Seq(Cell) /\ b \in Buffer
      /\ Len(lengths) \in Nat /\ Len(rx) \in Nat /\ Len(delivered) \in Nat
      /\ Len(lengths) <= MaxReq /\ Len(lengths) <= Len(delivered) + Window
      /\ Len(delivered) <= Len(lengths) /\ h \in Nat /\ N \in Nat /\ SizeT \in Nat \ {0}
      /\ b.readIndex_ \in Nat /\ b.writeIndex_ = b.readIndex_ + h
      /\ b.writeIndex_ < Len(b.buffer_) /\ Len(b.buffer_) \in Nat
  <2>1. /\ lengths \in Seq(Bodies) /\ rx \in Seq(Cell) /\ b \in Buffer
        /\ Len(lengths) <= MaxReq /\ Len(lengths) <= Len(delivered) + Window
        /\ Len(delivered) <= Len(lengths) /\ SizeT \in Nat \ {0}
        /\ delivered \in Seq([url_ : 0..MaxReq, content_ : Seq(Cell \cup {Nul})])
    BY FramingAssumption DEF IndInv, TypeOK, DeliversTheRequests
  <2>2. Len(lengths) \in Nat /\ Len(rx) \in Nat /\ Len(delivered) \in Nat
    BY <2>1
  <2>. HIDE DEF b
  <2>3. /\ b.readIndex_ \in Nat /\ b.writeIndex_ \in Nat /\ b.readIndex_ <= b.writeIndex_
        /\ b.writeIndex_ < Len(b.buffer_) /\ Len(b.buffer_) \in Nat
    BY <2>1 DEF Buffer
  <2>4. h \in Nat /\ b.writeIndex_ = b.readIndex_ + h
    BY <2>3 DEF held
  <2>5. N \in Nat
    BY <2>2, <2>4
  <2>. QED
    BY <2>1, <2>2, <2>3, <2>4, <2>5
<1>2. Framed(U, N, lengths, Len(delivered), B)
  BY DEF IndInv
<1>3. size(b) = h
  <2>. HIDE DEF U, N
  <2>1. N < SizeT
    BY <1>1, <1>2, PendingFits
  <2>2. h < SizeT
    BY <1>1, <2>1 DEF N
  <2>. QED
    BY <1>1, <2>2, SizeIsHeld
<1>4. \A i \in 1..h : U[i] = b.buffer_[b.readIndex_ + i] /\ i \in 1..N
  BY <1>1 DEF Pending
<1>5. \A i \in h + 1 .. N : U[i] = rx[i - h] /\ i - h \in 1 .. Len(rx)
  BY <1>1 DEF Pending
<1>6. {At(b, i) : i \in 0 .. size(b) - 1} = {U[i] : i \in 1..h}
  <2>1. \A i \in 0 .. h - 1 : i + 1 \in 1..h /\ At(b, i) = U[i + 1]
    <3>1. SUFFICES ASSUME NEW i \in 0 .. h - 1
                   PROVE  i + 1 \in 1..h /\ At(b, i) = U[i + 1]
      OBVIOUS
    <3>. HIDE DEF b, h, U
    <3>2. i + 1 \in 1..h /\ b.readIndex_ + i < Len(b.buffer_)
          /\ b.readIndex_ + (i + 1) = b.readIndex_ + i + 1
      <4>1. /\ h \in Nat /\ b.readIndex_ \in Nat /\ b.readIndex_ + h < Len(b.buffer_)
            /\ Len(b.buffer_) \in Nat
        BY <1>1
      <4>. QED
        BY <4>1
    <3>3. U[i + 1] = b.buffer_[b.readIndex_ + i + 1]
      BY <1>4, <3>2
    <3>. QED
      BY <3>2, <3>3 DEF At
  <2>2. \A j \in 1..h : j - 1 \in 0 .. h - 1 /\ (j - 1) + 1 = j
    BY <1>1
  <2>. HIDE DEF b, h, U
  <2>. QED
    BY <1>3, <2>1, <2>2
<1>7. Cells(rx) = {U[i] : i \in h + 1 .. N}
  <2>1. Cells(rx) = {rx[i] : i \in 1 .. Len(rx)}
    BY <1>1 DEF Cells
  <2>2. \A j \in 1 .. Len(rx) : h + j \in h + 1 .. N /\ (h + j) - h = j
    BY <1>1
  <2>. HIDE DEF h, N, U
  <2>3. \A j \in 1 .. Len(rx) : rx[j] = U[h + j]
    BY <1>5, <2>2
  <2>. QED
    BY <1>5, <2>1, <2>2, <2>3
<1>8. Undelivered = {U[i] : i \in 1..N}
  <2>. HIDE DEF U, N
  <2>1. /\ lengths \in Seq(Bodies) /\ Len(lengths) <= MaxReq /\ Len(delivered) \in Nat
        /\ N \in Nat
    BY <1>1
  <2>2. Undelivered = Values(U, N)
    BY <1>2, <2>1, UndeliveredIsPending
  <2>. QED
    BY <2>2 DEF Values
<1>9. {At(b, i) : i \in 0 .. size(b) - 1} = Undelivered \ Cells(rx)
  <2>1. \A i, j \in 1..N : U[i] = U[j] => i = j
    BY <1>2 DEF Framed, Distinct
  <2>2. \A i \in 1..N : i \in 1..h \/ i \in h + 1 .. N
    BY <1>1
  <2>3. \A i \in 1..h : i \in 1..N
    BY <1>4
  <2>4. \A j \in h + 1 .. N : j \in 1..N /\ j \notin 1..h
    BY <1>1
  <2>. HIDE DEF h, N, U, b
  <2>5. {U[i] : i \in 1..N} \ {U[i] : i \in h + 1 .. N} = {U[i] : i \in 1..h}
    <3>1. ASSUME NEW i \in 1..h
          PROVE  /\ U[i] \in {U[j] : j \in 1..N}
                 /\ U[i] \notin {U[j] : j \in h + 1 .. N}
      BY <2>1, <2>3, <2>4
    <3>2. ASSUME NEW i \in 1..N, U[i] \notin {U[j] : j \in h + 1 .. N}
          PROVE  U[i] \in {U[j] : j \in 1..h}
      BY <2>2, <3>2
    <3>. QED
      BY <3>1, <3>2
  <2>. QED
    BY <1>6, <1>7, <1>8, <2>5
<1>10. getRemainSize(b) > 0
  BY <1>1 DEF getRemainSize
<1>. QED
  BY <1>9, <1>10 DEF BufferHoldsTheRest

------------------------------------------------------------------------------
(* The theorems *)

\* The invariant holds in every state: what is pending in the buffer and in the kernel
\* is the requests not delivered, whole and in order, and the session knows of the
\* first of them what its head says.
THEOREM Invariance ==
  ASSUME Cuts, NEW B, Fits(B)
  PROVE  Spec => []IndInv(B)
<1>1. Init => IndInv(B)
  BY InitInv
<1>2. IndInv(B) /\ [Next]_vars => IndInv(B)'
  <2>1. SUFFICES ASSUME IndInv(B), [Next]_vars
                 PROVE  IndInv(B)'
    OBVIOUS
  <2>2. CASE Send
    BY <2>1, <2>2, SendInv
  <2>3. CASE readHandler
    BY <2>1, <2>3, ReadInv
  <2>4. CASE UNCHANGED vars
    BY <2>1, <2>4 DEF vars, IndInv, TypeOK, DeliversTheRequests, ReadEnded, HeadKnown
  <2>. QED
    BY <2>1, <2>2, <2>3, <2>4 DEF Next
<1>. QED
  BY <1>1, <1>2, PTL DEF Spec

\* HttpFraming.TypeOK: the indices of the read buffer stay within it, and what the
\* session has parsed is a request that was sent.
THEOREM TypeCorrect ==
  ASSUME Cuts, NEW B, Fits(B)
  PROVE  Spec => []TypeOK
<1>1. IndInv(B) => TypeOK
  BY DEF IndInv
<1>. QED
  BY <1>1, Invariance, PTL

\* HttpFraming.DeliversTheRequests: the messages handed to the queue are the requests
\* sent, in their order, each with its own body, however the reads cut the stream.
THEOREM DeliveryCorrect ==
  ASSUME Cuts, NEW B, Fits(B)
  PROVE  Spec => []DeliversTheRequests
<1>1. IndInv(B) => DeliversTheRequests
  BY DEF IndInv
<1>. QED
  BY <1>1, Invariance, PTL

\* HttpFraming.BufferHoldsTheRest: the buffer holds exactly the bytes that were read
\* and belong to no message yet, and there is always room for the next read.
THEOREM BufferCorrect ==
  ASSUME Cuts, NEW B, Fits(B)
  PROVE  Spec => []BufferHoldsTheRest
<1>1. IndInv(B) => BufferHoldsTheRest
  BY InvariantHolds
<1>. QED
  BY <1>1, Invariance, PTL
==============================================================================
