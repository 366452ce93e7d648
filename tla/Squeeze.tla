------------------------------- MODULE Squeeze -------------------------------
(***************************************************************************)
(* The file squeezer (sq1.c) and unsqueezer (usq1.c): runs of bytes, then a *)
(* Huffman code.  Each call of getcnr and of getcr is a step.  The file is  *)
(* read twice, once to count and once to encode.  Squeezed bytes are kept   *)
(* as the bits that gethuff packs and getuhuff takes apart, first bit low.  *)
(***************************************************************************)
EXTENDS Integers, Sequences, FiniteSets, SequencesExt

CONSTANTS
    SPEOF,    \* one more than the largest byte, 256
    DLE,      \* the byte that announces a count, 144
    MaxRun,   \* the longest run, 255
    Word,     \* unsigned int counts modulo this, 65536
    MaxBits,  \* the longest code, 16
    Octet,    \* bits in a byte, 8
    SqFiles   \* what the files hold

VARIABLE sq

EOF == -1
NUMVALS == SPEOF + 1
MAXCOUNT == Word - 1
NOCHILD == -1
SqValues == 0 .. SPEOF

-----------------------------------------------------------------------------
(* First translation: repeated bytes                                        *)

Byte(file, k) == IF k \in DOMAIN file THEN file[k] ELSE EOF

init_ncr == [state |-> "NOHIST", last |-> 0, new |-> 0, likect |-> 0, pos |-> 0, out |-> 0]

\* A slip: the look ahead counts one byte too many.
likectLong(file, n) ==
    LET same == {k \in 0 .. MaxRun : \A j \in 1 .. k : Byte(file, n.pos + j) = n.last}
    IN  1 + CHOOSE k \in same : \A j \in same : j <= k

\* the for loop of getcnr: likect bytes are alike, and one more has been read
likect(file, n) ==
    LET same == {k \in 0 .. MaxRun - 1 : \A j \in 1 .. k : Byte(file, n.pos + j) = n.last}
    IN  1 + CHOOSE k \in same : \A j \in same : j <= k

getcnr(file, n) ==
    LET Send(m, c) == [m EXCEPT !.out = c]
        many == likect(file, n)
        read == [n EXCEPT !.pos = @ + many, !.likect = many,
                          !.new = Byte(file, n.pos + many)]
        first == Byte(file, n.pos + 1)
    IN  CASE n.state = "NOHIST" ->
               Send([n EXCEPT !.state = "SENTCHAR", !.last = first, !.pos = @ + 1], first)
          [] n.state = "SENTCHAR" /\ n.last = DLE -> Send([n EXCEPT !.state = "NOHIST"], 0)
          [] n.state = "SENTCHAR" /\ n.last = EOF -> Send(n, EOF)
          [] n.state = "SENTCHAR" /\ n.last \notin {DLE, EOF} ->
               IF many = 1 THEN Send([read EXCEPT !.last = read.new], read.new)
               ELSE IF many = 2 THEN Send([read EXCEPT !.state = "SENDNEWC"], n.last)
               ELSE Send([read EXCEPT !.state = "SENDCNT"], DLE)
          [] n.state = "SENDNEWC" ->
               Send([n EXCEPT !.state = "SENTCHAR", !.last = n.new], n.new)
          [] n.state = "SENDCNT" -> Send([n EXCEPT !.state = "SENDNEWC"], n.likect)

Curin(n) == IF n.out = EOF THEN SPEOF ELSE n.out

-----------------------------------------------------------------------------
(* Second translation: the Huffman tree                                     *)

init_tree == [weight |-> [i \in 0 .. 2 * SPEOF |-> 0], tdepth |-> [i \in 0 .. 2 * SPEOF |-> 0],
              lchild |-> [i \in 0 .. 2 * SPEOF |-> NOCHILD],
              rchild |-> [i \in 0 .. 2 * SPEOF |-> NOCHILD], list |-> <<>>]

cmptrees(t, a, b) == \/ t.weight[a] > t.weight[b]
                     \/ t.weight[a] = t.weight[b] /\ t.tdepth[a] > t.tdepth[b]

\* how often the sum of the weights passes the ceiling, in unsigned arithmetic
Overflows(weight, ceil) ==
    LET upto[i \in -1 .. SPEOF] ==
            IF i = -1 THEN [sum |-> 0, ovflw |-> 0]
            ELSE LET b == upto[i - 1]
                 IN  [sum |-> (b.sum + weight[i]) % Word,
                      ovflw |-> b.ovflw + IF weight[i] > (ceil - b.sum) % Word THEN 1 ELSE 0]
    IN  upto[SPEOF].ovflw

\* divides by a divisor to which the smallest weights were raised before
RECURSIVE scale(_, _)
scale(weight, ceil) ==
    LET divisor == Overflows(weight, ceil) + 1
        small == {i \in SqValues : weight[i] \in 1 .. divisor - 1}
    IN  IF small = {} THEN [i \in SqValues |-> weight[i] \div divisor]
        ELSE scale([i \in SqValues |-> IF i \in small THEN divisor ELSE weight[i]], ceil)

\* list[0] of the code is list[1] here
RECURSIVE adjust(_, _, _)
adjust(t, top, bottom) ==
    LET k == 2 * top
        least == IF k < bottom /\ cmptrees(t, t.list[k], t.list[k + 1]) THEN k + 1 ELSE k
    IN  IF k > bottom \/ ~cmptrees(t, t.list[top], t.list[least]) THEN t
        ELSE adjust([t EXCEPT !.list[top] = t.list[least], !.list[least] = t.list[top]],
                    least, bottom)

heap(t) ==
    LET n == Len(t.list)
        down[i \in 0 .. n \div 2] == IF i = 0 THEN t
                                     ELSE adjust(down[i - 1], (n \div 2) + 1 - i, n)
    IN  down[n \div 2]

RECURSIVE bld_tree(_, _)
bld_tree(t, freenode) ==
    LET n == Len(t.list)
        lch == t.list[1]
        one == adjust([t EXCEPT !.list = [Front(t.list) EXCEPT ![1] = t.list[n]]], 1, n - 1)
        rch == one.list[1]
        larger == IF t.tdepth[lch] > t.tdepth[rch] THEN lch ELSE rch
        two == [one EXCEPT !.list[1] = freenode,
                           !.lchild[freenode] = lch, !.rchild[freenode] = rch,
                           !.weight[freenode] = t.weight[lch] + t.weight[rch],
                           !.tdepth[freenode] = 1 + t.tdepth[larger]]
    IN  IF n = 1 THEN t ELSE bld_tree(adjust(two, 1, n - 1), freenode + 1)

\* pairs of a value and its code
RECURSIVE buildenc(_, _, _)
buildenc(t, root, path) ==
    IF t.lchild[root] = NOCHILD THEN { <<root, path>> }
    ELSE buildenc(t, t.lchild[root], Append(path, 0))
         \cup buildenc(t, t.rchild[root], Append(path, 1))

TooLong(codes) == \E c \in codes : Len(c[2]) > MaxBits

\* the loop of init_huff: scale, build and encode until the codes are short
RECURSIVE init_huff(_, _)
init_huff(weight, ceiling) ==
    LET w == scale(weight, ceiling)
        leaves == [init_tree EXCEPT !.weight = [i \in DOMAIN @ |-> IF i < NUMVALS THEN w[i] ELSE 0],
                                    !.list = SetToSortSeq({i \in SqValues : w[i] # 0}, <)]
        t == bld_tree(heap(leaves), NUMVALS)
        codes == buildenc(t, t.list[1], <<>>)
    IN  IF TooLong(codes) THEN init_huff(w, ceiling \div 2)
        ELSE [tree |-> t, codes |-> codes, weight |-> w]

\* wrt_head: the inner nodes from the head down, leaves as -(value + 1)
Simplified(t) ==
    LET head == t.list[1]
        Renumber(c) == IF c < NUMVALS THEN -(c + 1) ELSE head - c
    IN  IF head < NUMVALS THEN <<>>
        ELSE [k \in 1 .. head - SPEOF |->
                 << Renumber(t.lchild[head + 1 - k]), Renumber(t.rchild[head + 1 - k]) >>]

CodeOf(codes, v) == (CHOOSE c \in codes : c[1] = v)[2]
Padded(bits) == bits \o [k \in 1 .. ((-Len(bits)) % Octet) |-> 0]
Checksum(file) == FoldSeq(LAMBDA b, sum : (sum + b) % Word, 0, file)

-----------------------------------------------------------------------------
(* usq1.c                                                                   *)

dnode(tree) == IF tree = <<>> THEN << <<-(SPEOF + 1), -(SPEOF + 1)>> >> ELSE tree

\* <<value, bits read>>, following the bits from the root to a leaf
RECURSIVE Walk(_, _, _, _)
Walk(bits, pos, tree, i) ==
    LET next == tree[i + 1][bits[pos + 1] + 1]
        value == -(next + 1)
    IN  IF pos = Len(bits) THEN <<EOF, pos>>
        ELSE IF next < 0 THEN << IF value = SPEOF THEN EOF ELSE value, pos + 1 >>
        ELSE Walk(bits, pos + 1, tree, next)

getuhuff(s, pos) == Walk(s.bits, pos, dnode(s.tree), 0)

Expand(s, r, c) == [s EXCEPT !.bpos = r, !.restored = Append(@, c)]

\* one call of getcr by unsqueeze, which ends at the end of the file
getcr(s) ==
    LET c == getuhuff(s, s.bpos)
        n == getuhuff(s, c[2])
    IN  IF s.repct > 0 THEN [Expand(s, s.bpos, s.value) EXCEPT !.repct = @ - 1]
        ELSE IF c[1] = EOF THEN [s EXCEPT !.phase = "restored"]
        ELSE IF c[1] # DLE THEN [Expand(s, c[2], c[1]) EXCEPT !.value = c[1]]
        ELSE IF n[1] = 0 THEN [Expand(s, n[2], DLE) EXCEPT !.repct = 0]
        ELSE [Expand(s, n[2], s.value) EXCEPT !.repct = n[1] - 2]

-----------------------------------------------------------------------------
SqStart(f) ==
    [file |-> f, phase |-> "analyzing", cnr |-> init_ncr, weight |-> [v \in SqValues |-> 0],
     codes |-> {}, tree |-> <<>>, bits |-> <<>>, crc |-> 0,
     bpos |-> 0, repct |-> 0, value |-> 0, restored |-> <<>>, alarm |-> FALSE]

SqInit == \E f \in SqFiles : sq = SqStart(f)

\* the first pass; behind its last value the tree is built and the head written
Analyze ==
    /\ sq.phase = "analyzing"
    /\ LET n == getcnr(sq.file, sq.cnr)
           v == Curin(n)
           weight == [sq.weight EXCEPT ![v] = IF @ = MAXCOUNT THEN @ ELSE @ + 1]
           h == init_huff(weight, MAXCOUNT)
       IN  sq' = IF v # SPEOF THEN [sq EXCEPT !.cnr = n, !.weight = weight]
                 ELSE [sq EXCEPT !.phase = "squeezing", !.cnr = init_ncr, !.weight = h.weight,
                                 !.codes = h.codes, !.tree = Simplified(h.tree),
                                 !.crc = Checksum(sq.file)]

\* the second pass, gethuff
Encode ==
    /\ sq.phase = "squeezing"
    /\ LET n == getcnr(sq.file, sq.cnr)
           v == Curin(n)
           bits == sq.bits \o CodeOf(sq.codes, v)
       IN  sq' = IF v # SPEOF THEN [sq EXCEPT !.cnr = n, !.bits = bits]
                 ELSE [sq EXCEPT !.phase = "squeezed", !.cnr = init_ncr, !.bits = Padded(bits)]

unsqueeze ==
    /\ sq.phase = "squeezed"
    /\ sq' = [sq EXCEPT !.phase = "unsqueezing"]

Decode ==
    /\ sq.phase = "unsqueezing"
    /\ sq' = getcr(sq)

\* the test is written with && for &: it only tells zero from the rest
Alarm(crc, filecrc) == (crc # 0) # (filecrc # 0)

Compare ==
    /\ sq.phase = "restored"
    /\ sq' = [sq EXCEPT !.phase = "done", !.alarm = Alarm(Checksum(sq.restored), sq.crc)]

SqNext == Analyze \/ Encode \/ unsqueeze \/ Decode \/ Compare
SqSpec == SqInit /\ [][SqNext]_sq

-----------------------------------------------------------------------------
\* What is unsqueezed is the file that was squeezed, byte by byte and to its
\* end, without an alarm, whatever runs it has and however the counts are scaled.
Restores ==
    /\ IsPrefix(sq.restored, sq.file)
    /\ sq.phase \in {"restored", "done"} => sq.restored = sq.file
    /\ ~sq.alarm

\* Every value the second pass meets has a code, no code continues another, and
\* none is longer than the word it is kept in.
CodesAreUsable ==
    sq.codes # {} =>
       /\ \A c \in sq.codes : Len(c[2]) <= MaxBits
       /\ \A c, d \in sq.codes : IsPrefix(c[2], d[2]) => c = d

\* Scaling keeps every value that occurs and brings the sum of the weights, and
\* with it every weight of the tree, into an unsigned int.
WeightsFit ==
    sq.codes # {} =>
       /\ {c[1] : c \in sq.codes} = {v \in SqValues : sq.weight[v] # 0}
       /\ \A k \in DOMAIN sq.file : sq.file[k] \in {c[1] : c \in sq.codes}
       /\ FoldFunction(LAMBDA a, b : a + b, 0, sq.weight) <= MAXCOUNT

\* A file survives being squeezed and unsqueezed, and what the second pass
\* relies on, codes for all it meets, was made by the first.
SqueezeSound == Restores /\ CodesAreUsable /\ WeightsFit
=============================================================================
