--------------------------- MODULE SigningProofs ----------------------------
(* What the signing of a kernel module leaves in its files, for any contents,   *)
(* any length of the signature, any number of calls and any updates of the      *)
(* module between their steps.                                                  *)
EXTENDS KmodSign, TLAPS

(* The blocks of a file are of no one set, for a signature holds a file. *)
IsSeq(s) == s \in Seq(Range(s))

SeqsInv ==
    /\ IsSeq(path) /\ IsSeq(temp) /\ IsSeq(dest) /\ IsSeq(source)
    /\ edits \in Nat /\ since \in Nat /\ since <= edits
    /\ way \in Ways

(* A signed file, without its magic and with it. *)
WithoutMagic(c, s) == (s \o Signature(c)) \o <<module_signature(SigLen)>>
SignedFile(c, s) == WithoutMagic(c, s) \o <<SIG_MAGIC>>

(* What the output holds at each step, if no failure went unnoticed. *)
OutputInv ==
    /\ signpc = "rename" => way = "temp"
    /\ ~lost /\ way \in {"temp", "dest"} =>
         /\ signpc = "copy" => count \in 0..Len(source) /\ Out = SubSeq(source, 1, count)
         /\ signpc = "signature" => Out = source
         /\ signpc = "info" => Out = source \o Signature(cms) /\ count = SigLen
         /\ signpc = "magic" => Out = WithoutMagic(cms, source)
         /\ signpc = "rename" \/ (signpc = "return" /\ way = "dest") => Out = SignedFile(cms, source)
    /\ ~lost /\ way = "sig" =>
         /\ signpc \in {"idle", "open", "signature", "return"}
         /\ signpc = "signature" => dest = <<>>
         /\ signpc = "return" => dest = Signature(cms)

(* What was read is the module, unless another program has replaced it since. *)
Reading == {"copy", "signature", "info", "magic", "rename"}
SourceInv ==
    ~lost /\ edits = since =>
      /\ way # "self" /\ signpc \in Reading \cup {"open"} => cms = path
      /\ way = "sig" /\ signpc = "return" => cms = path
      /\ way \in {"temp", "dest"} /\ signpc \in Reading => source = path

SignInv == SeqsInv /\ OutputInv /\ SourceInv

(* Every sequence is one of its own elements. *)
LEMMA SeqOfRange == ASSUME NEW S, NEW s \in Seq(S) PROVE IsSeq(s)
  BY DEF IsSeq, Range

(* Two files put together. *)
LEMMA Joined ==
    ASSUME NEW s, NEW t, IsSeq(s), IsSeq(t)
    PROVE  /\ IsSeq(s \o t) /\ Len(s) \in Nat /\ Len(t) \in Nat /\ Len(s \o t) = Len(s) + Len(t)
           /\ \A i \in 1..Len(s) : (s \o t)[i] = s[i]
           /\ \A i \in 1..Len(t) : (s \o t)[Len(s) + i] = t[i]
  <1> DEFINE S == Range(s) \cup Range(t)
  <1>1. s \in Seq(S) /\ t \in Seq(S)
    BY DEF IsSeq
  <1> HIDE DEF S
  <1>2. s \o t \in Seq(S)
    BY <1>1
  <1>3. IsSeq(s \o t)
    BY <1>2, SeqOfRange, Zenon
  <1> QED
    BY <1>1, <1>3

(* One block. *)
LEMMA One == ASSUME NEW x PROVE IsSeq(<<x>>) /\ Len(<<x>>) = 1 /\ <<x>>[1] = x
  <1>1. <<x>> \in Seq({x})
    OBVIOUS
  <1> QED
    BY <1>1, SeqOfRange, Zenon

(* Files are equal if their lengths and blocks are. *)
LEMMA SameFile ==
    ASSUME NEW s, NEW t, IsSeq(s), IsSeq(t), Len(s) = Len(t), \A i \in 1..Len(s) : s[i] = t[i]
    PROVE  s = t
  <1>1. s \in [1..Len(s) -> Range(s)] /\ t \in [1..Len(t) -> Range(t)]
    BY DEF IsSeq
  <1> QED
    BY <1>1

(* A part of a file. *)
LEMMA PartOf ==
    ASSUME NEW s, IsSeq(s), NEW lo \in Nat \ {0}, NEW hi \in Nat, lo <= hi + 1, hi <= Len(s)
    PROVE  /\ IsSeq(SubSeq(s, lo, hi)) /\ Len(SubSeq(s, lo, hi)) = hi - lo + 1
           /\ \A i \in 1..(hi - lo + 1) : SubSeq(s, lo, hi)[i] = s[lo + i - 1]
  <1>1. s \in Seq(Range(s))
    BY DEF IsSeq
  <1>2. SubSeq(s, lo, hi) \in Seq(Range(s))
    BY <1>1
  <1>3. IsSeq(SubSeq(s, lo, hi))
    BY <1>2, SeqOfRange, Zenon
  <1> QED
    BY <1>1, <1>3

(* A signature is of one content only. *)
LEMMA SignatureShape ==
    ASSUME NEW c
    PROVE  /\ IsSeq(Signature(c)) /\ Len(Signature(c)) = SigLen
           /\ Signature(c) # <<NoFile>>
           /\ \A d : Signature(c) = Signature(d) => c = d
  <1> USE SignAssumption
  <1>1. Signature(c) \in Seq({Block("signature", c, i) : i \in 1..SigLen})
    BY DEF Signature
  <1>2. IsSeq(Signature(c))
    BY <1>1, SeqOfRange
  <1>3. ASSUME NEW d PROVE Signature(d)[1].of = d /\ Signature(d)[1].name = "signature"
    BY DEF Signature, Block
  <1>4. Len(Signature(c)) = SigLen
    BY <1>1 DEF Signature
  <1>5. Signature(c) # <<NoFile>>
    <2>1. <<NoFile>>[1].name = "no file"
      BY Zenon DEF NoFile, Block
    <2> QED
      BY <1>3, <2>1, Zenon
  <1>6. ASSUME NEW d, Signature(c) = Signature(d) PROVE c = d
    <2>1. Signature(c)[1].of = c /\ Signature(d)[1].of = d
      BY <1>3
    <2> QED
      BY <1>6, <2>1
  <1> QED
    BY <1>2, <1>4, <1>5, <1>6

(* do_kmod_map splits a signed file into what was put together. *)
LEMMA SplitsAsJoined ==
    ASSUME NEW c, NEW s, IsSeq(s)
    PROVE  do_kmod_map(SignedFile(c, s)) = [err |-> "ok", mod |-> s, sig |-> Signature(c)]
  <1> USE SignAssumption
  <1> DEFINE g == Signature(c)
             a == s \o g
             u == WithoutMagic(c, s)
             f == SignedFile(c, s)
             n == Len(s) + SigLen + 2
  <1>0. IsSeq(g) /\ Len(g) = SigLen
    BY SignatureShape
  <1>1. /\ IsSeq(a) /\ Len(s) \in Nat /\ Len(a) = Len(s) + SigLen
        /\ \A i \in 1..Len(s) : a[i] = s[i]
        /\ \A i \in 1..SigLen : a[Len(s) + i] = g[i]
    BY <1>0, Joined
  <1> HIDE DEF a, g
  <1>2. /\ IsSeq(u) /\ Len(u) = Len(a) + 1
        /\ \A i \in 1..Len(a) : u[i] = a[i]
        /\ u[Len(a) + 1] = module_signature(SigLen)
    <2>1. u = a \o <<module_signature(SigLen)>>
      BY DEF WithoutMagic, a, g
    <2> QED
      BY <1>1, <2>1, Joined, One
  <1>3. /\ IsSeq(f) /\ Len(f) = Len(u) + 1
        /\ \A i \in 1..Len(u) : f[i] = u[i]
        /\ f[Len(u) + 1] = SIG_MAGIC
    <2>1. f = u \o <<SIG_MAGIC>>
      BY DEF SignedFile
    <2> QED
      BY <1>2, <2>1, Joined, One
  <1> HIDE DEF u, f
  <1>4. /\ Len(f) = n /\ n >= 2 /\ f[n] = SIG_MAGIC /\ f[n - 1] = module_signature(SigLen)
        /\ \A i \in 1..Len(s) : f[i] = s[i]
        /\ \A i \in 1..SigLen : f[Len(s) + i] = g[i]
    BY <1>1, <1>2, <1>3
  <1>5. f[n - 1].k = SigLen
    BY <1>4 DEF module_signature, Block
  <1>6. SubSeq(f, 1, n - 2 - SigLen) = s
    <2> DEFINE p == SubSeq(f, 1, Len(s))
    <2>1. IsSeq(p) /\ Len(p) = Len(s) /\ \A i \in 1..Len(s) : p[i] = f[1 + i - 1]
      BY <1>1, <1>3, <1>4, PartOf
    <2> HIDE DEF p
    <2>2. \A i \in 1..Len(p) : p[i] = s[i]
      BY <1>1, <1>4, <2>1
    <2>3. p = s
      BY <2>1, <2>2, SameFile
    <2> QED
      BY <1>1, <2>3 DEF p
  <1>7. SubSeq(f, n - 1 - SigLen, n - 2) = g
    <2> DEFINE p == SubSeq(f, Len(s) + 1, Len(s) + SigLen)
    <2>1. IsSeq(p) /\ Len(p) = SigLen /\ \A i \in 1..SigLen : p[i] = f[Len(s) + 1 + i - 1]
      BY <1>1, <1>3, <1>4, PartOf
    <2> HIDE DEF p
    <2>2. \A i \in 1..Len(p) : p[i] = g[i]
      BY <1>1, <1>4, <2>1
    <2>3. p = g
      BY <1>0, <2>1, <2>2, SameFile DEF g
    <2>4. n - 1 - SigLen = Len(s) + 1 /\ n - 2 = Len(s) + SigLen
      BY <1>1
    <2> QED
      BY <2>3, <2>4 DEF p
  <1>8. ~(n < 2) /\ ~(SigLen = 0 \/ SigLen > n - 2)
    BY <1>1
  <1>9. do_kmod_map(f) = [err |-> "ok", mod |-> s, sig |-> g]
    <2> HIDE DEF n
    <2> QED
      BY <1>4, <1>5, <1>6, <1>7, <1>8, Zenon DEF do_kmod_map
  <1> QED
    BY <1>9 DEF f, g

(* A signature that sign made is not accepted: the certificate is not in it. *)
LEMMA NotAccepted ==
    ASSUME NEW c, NEW in, NEW store \in BOOLEAN
    PROVE  pkcs7_verify(in, Signature(c), store) # "ok"
  <1>1. Signature(c)[1].name = "signature"
    BY SignAssumption DEF Signature, Block
  <1> QED
    BY <1>1, Zenon DEF pkcs7_verify

-----------------------------------------------------------------------------
(* A write keeps files sequences. *)
LEMMA WriteKeepsSeqs ==
    ASSUME SeqsInv, NEW new, IsSeq(new), NEW then, Write(new, then)
    PROVE  IsSeq(path') /\ IsSeq(temp') /\ IsSeq(dest')
  <1>1. IsSeq(Out \o new)
    BY Joined DEF SeqsInv, Out
  <1> QED
    BY <1>1, Zenon DEF Write, PutOut, SeqsInv

(* A write that succeeds or is noticed, in a call that does not write to the  *)
(* module itself.                                                             *)
LEMMA WriteAppends ==
    ASSUME NEW new, NEW then, Write(new, then), way \in {"temp", "dest", "sig"}, way' = way, ~lost'
    PROVE  /\ ~lost /\ path' = path
           /\ \/ signpc' = "idle"
              \/ signpc' = then /\ Out' = Out \o new
  BY DEF Write, PutOut, Out

(* The module is put together from a whole number of its blocks. *)
LEMMA CopyGrows ==
    ASSUME NEW s, IsSeq(s), NEW n \in Nat, n < Len(s)
    PROVE  SubSeq(s, 1, n) \o <<s[n + 1]>> = SubSeq(s, 1, n + 1)
  <1> DEFINE b == SubSeq(s, 1, n)
             x == SubSeq(s, 1, n + 1)
  <1>0. Len(s) \in Nat
    BY DEF IsSeq
  <1>1. IsSeq(b) /\ Len(b) = n /\ \A i \in 1..n : b[i] = s[1 + i - 1]
    BY <1>0, PartOf
  <1>2. IsSeq(x) /\ Len(x) = n + 1 /\ \A i \in 1..(n + 1) : x[i] = s[1 + i - 1]
    BY <1>0, PartOf
  <1> HIDE DEF b, x
  <1> DEFINE y == b \o <<s[n + 1]>>
  <1>4. /\ IsSeq(y) /\ Len(y) = n + 1 /\ \A i \in 1..n : y[i] = b[i]
        /\ y[n + 1] = s[n + 1]
    BY <1>1, Joined, One
  <1> HIDE DEF y
  <1>5. y = x
    BY <1>1, <1>2, <1>4, SameFile
  <1> QED
    BY <1>5 DEF y, b, x

(* The copy is complete when all blocks are there. *)
LEMMA CopyComplete == ASSUME NEW s, IsSeq(s) PROVE SubSeq(s, 1, Len(s)) = s /\ SubSeq(s, 1, 0) = <<>>
  <1>0. s \in Seq(Range(s)) /\ Len(s) \in Nat
    BY DEF IsSeq
  <1> QED
    BY <1>0

(* The signature alone. *)
LEMMA JoinedToNothing == ASSUME NEW t, IsSeq(t) PROVE <<>> \o t = t
  <1>1. t \in Seq(Range(t))
    BY DEF IsSeq
  <1> QED
    BY <1>1

(* The digest. *)
LEMMA DigestStep == ASSUME SignInv, cms_sign_file PROVE SignInv'
  <1>1. SeqsInv'
    BY DEF SignInv, SeqsInv, cms_sign_file
  <1>2. OutputInv'
    BY DEF SignInv, OutputInv, cms_sign_file
  <1>3. SourceInv'
    BY DEF SignInv, SourceInv, cms_sign_file, Reading
  <1> QED
    BY <1>1, <1>2, <1>3 DEF SignInv

(* The output is empty, and the module is reached a second time. *)
LEMMA SignOpenStep == ASSUME SignInv, sign_open PROVE SignInv'
  <1>0. IsSeq(<<>>)
    BY DEF IsSeq, Range
  <1>1. SeqsInv'
    BY <1>0 DEF SignInv, SeqsInv, sign_open, PutOut
  <1>2. OutputInv'
    <2>1. CASE signpc' = "idle"
      BY <2>1 DEF SignInv, OutputInv, sign_open
    <2>2. CASE signpc' # "idle"
      <3>1. /\ signpc' = IF way = "sig" THEN "signature" ELSE "copy"
            /\ source' = IF way = "self" THEN <<>> ELSE path
            /\ count' = 0 /\ PutOut(<<>>) /\ way' = way
        BY <2>2 DEF sign_open
      <3>2. IsSeq(source') /\ Len(source') \in Nat
        BY <1>1 DEF SeqsInv, IsSeq
      <3>3. SubSeq(source', 1, count') = <<>>
        BY <3>1, <3>2, CopyComplete
      <3> QED
        BY <3>1, <3>2, <3>3 DEF OutputInv, PutOut, Out
    <2> QED
      BY <2>1, <2>2
  <1>3. SourceInv'
    BY DEF SignInv, SeqsInv, SourceInv, sign_open, Reading, PutOut, Ways
  <1> QED
    BY <1>1, <1>2, <1>3 DEF SignInv

(* What a write leaves of SourceInv, in every call. *)
LEMMA WriteKeepsSource ==
    ASSUME SignInv, NEW new, NEW then, Write(new, then), signpc \in Reading, then \in Reading \cup {"return"},
           then = "return" /\ way = "sig" => signpc = "signature",
           UNCHANGED <<way, cms, source, since, edits>>
    PROVE  SourceInv'
  <1>1. ASSUME ~lost', (edits = since)', way # "self"
        PROVE  ~lost /\ path' = path /\ signpc' \in {"idle", then}
    BY <1>1, WriteAppends DEF SignInv, SeqsInv, Ways
  <1>2. "idle" \notin Reading \cup {"open", "return"}
    BY DEF Reading
  <1> QED
    BY <1>1, <1>2 DEF SignInv, SourceInv, Reading

(* One block of the module. *)
LEMMA CopyStep == ASSUME SignInv, sign_copy PROVE SignInv'
  <1>0. UNCHANGED <<way, cms, source, since, edits>> /\ signpc = "copy"
    BY DEF sign_copy
  <1>1. CASE count < Len(source)
    <2>1. Write(<<source[count + 1]>>, "copy") /\ count' = count + 1
      BY <1>1 DEF sign_copy
    <2>2. SeqsInv'
      BY <1>0, <2>1, WriteKeepsSeqs, One DEF SignInv, SeqsInv
    <2>3. SourceInv'
      BY <1>0, <2>1, WriteKeepsSource DEF Reading
    <2>4. OutputInv'
      <3>1. signpc' \in {"idle", "copy"}
        BY <2>1 DEF Write
      <3>2. ~lost' => ~lost
        BY <2>1 DEF Write
      <3>3. ASSUME ~lost', way \in {"temp", "dest"}, signpc' = "copy"
            PROVE  (count \in 0..Len(source) /\ Out = SubSeq(source, 1, count))'
        <4>1. ~lost /\ Out' = Out \o <<source[count + 1]>>
          BY <1>0, <2>1, <3>3, WriteAppends, Zenon
        <4>2. count \in Nat /\ Out = SubSeq(source, 1, count) /\ IsSeq(source) /\ Len(source) \in Nat
          BY <1>0, <3>3, <4>1 DEF SignInv, OutputInv, SeqsInv, IsSeq
        <4>3. Out' = SubSeq(source, 1, count + 1)
          BY <1>1, <4>1, <4>2, CopyGrows
        <4> QED
          BY <1>0, <1>1, <2>1, <4>2, <4>3
      <3>4. ASSUME ~lost', way = "sig" PROVE FALSE
        BY <1>0, <3>2, <3>4 DEF SignInv, OutputInv
      <3> QED
        BY <1>0, <3>1, <3>3, <3>4 DEF OutputInv
    <2> QED
      BY <2>2, <2>3, <2>4 DEF SignInv
  <1>2. CASE ~(count < Len(source))
    <2>1. signpc' = "signature" /\ UNCHANGED <<path, temp, dest, lost, count>>
      BY <1>2 DEF sign_copy
    <2>2. SeqsInv'
      BY <1>0, <2>1 DEF SignInv, SeqsInv
    <2>3. SourceInv'
      BY <1>0, <2>1 DEF SignInv, SourceInv, Reading
    <2>4. OutputInv'
      <3>1. ASSUME ~lost, way \in {"temp", "dest"} PROVE Out = source
        <4>1. count \in 0..Len(source) /\ Out = SubSeq(source, 1, count) /\ IsSeq(source)
          BY <1>0, <3>1 DEF SignInv, OutputInv, SeqsInv
        <4>2. Len(source) \in Nat
          BY <4>1 DEF IsSeq
        <4> QED
          BY <1>2, <4>1, <4>2, CopyComplete
      <3>2. Out' = Out
        BY <1>0, <2>1 DEF Out
      <3> QED
        BY <1>0, <2>1, <3>1, <3>2 DEF SignInv, OutputInv
    <2> QED
      BY <2>2, <2>3, <2>4 DEF SignInv
  <1> QED
    BY <1>1, <1>2

(* The signature, its length and the magic. *)
LEMMA AppendStep == ASSUME SignInv, sign_append PROVE SignInv'
  <1>0. UNCHANGED <<way, cms, source, since, edits>>
    BY DEF sign_append
  <1>1. CASE signpc = "signature"
    <2> DEFINE then == IF way = "sig" THEN "return" ELSE "info"
    <2>1. Write(Signature(cms), then) /\ count' = Len(Out') - Len(Out)
      BY <1>1 DEF sign_append
    <2>2. SeqsInv'
      BY <1>0, <2>1, WriteKeepsSeqs, SignatureShape DEF SignInv, SeqsInv
    <2>3. SourceInv'
      BY <1>0, <1>1, <2>1, WriteKeepsSource DEF Reading
    <2>4. OutputInv'
      <3>1. signpc' \in {"idle", then}
        BY <2>1 DEF Write
      <3>2. ASSUME ~lost', way \in {"temp", "dest", "sig"}, signpc' # "idle"
            PROVE  ~lost /\ signpc' = then /\ Out' = Out \o Signature(cms)
        BY <1>0, <2>1, <3>2, WriteAppends, Zenon
      <3>3. ASSUME ~lost', way \in {"temp", "dest"}, signpc' = "info"
            PROVE  (Out = source \o Signature(cms) /\ count = SigLen)'
        <4>1. Out = source /\ IsSeq(source)
          BY <1>1, <3>2, <3>3 DEF SignInv, OutputInv, SeqsInv
        <4>2. Len(source \o Signature(cms)) = Len(source) + SigLen /\ Len(source) \in Nat
          BY <4>1, Joined, SignatureShape
        <4>3. Out' = source \o Signature(cms)
          BY <3>2, <3>3, <4>1
        <4> QED
          BY <1>0, <2>1, <4>1, <4>2, <4>3, SignAssumption DEF Signature
      <3>4. ASSUME ~lost', way = "sig", signpc' = "return" PROVE dest' = Signature(cms)
        <4>1. Out = <<>> /\ Out' = dest'
          BY <1>0, <1>1, <3>2, <3>4 DEF SignInv, OutputInv, Out
        <4> QED
          BY <3>2, <3>4, <4>1, JoinedToNothing, SignatureShape
      <3>5. cms' = cms /\ way' = way /\ source' = source
        BY <1>0
      <3> QED
        BY <3>1, <3>3, <3>4, <3>5, Zenon DEF OutputInv, Signature
    <2> QED
      BY <2>2, <2>3, <2>4 DEF SignInv
  <1>2. CASE signpc = "info"
    <2>1. Write(<<module_signature(count)>>, "magic") /\ count' = count
      BY <1>2 DEF sign_append
    <2>2. SeqsInv'
      BY <1>0, <2>1, WriteKeepsSeqs, One DEF SignInv, SeqsInv
    <2>3. SourceInv'
      BY <1>0, <1>2, <2>1, WriteKeepsSource DEF Reading
    <2>4. OutputInv'
      <3>1. signpc' \in {"idle", "magic"}
        BY <2>1 DEF Write
      <3>2. ASSUME ~lost', way \in {"temp", "dest"}, signpc' = "magic"
            PROVE  Out' = WithoutMagic(cms, source)
        <4>1. ~lost /\ Out' = Out \o <<module_signature(count)>>
          BY <1>0, <2>1, <3>2, WriteAppends
        <4> QED
          BY <1>2, <3>2, <4>1, Zenon DEF SignInv, OutputInv, WithoutMagic
      <3>3. ASSUME ~lost', way = "sig" PROVE FALSE
        BY <1>0, <1>2, <2>1, <3>3, WriteAppends DEF SignInv, OutputInv
      <3>4. WithoutMagic(cms, source)' = WithoutMagic(cms, source)
        BY <1>0 DEF WithoutMagic, Signature
      <3> QED
        BY <1>0, <3>1, <3>2, <3>3, <3>4 DEF OutputInv
    <2> QED
      BY <2>2, <2>3, <2>4 DEF SignInv
  <1>3. CASE signpc = "magic"
    <2> DEFINE then == IF way = "temp" THEN "rename" ELSE "return"
    <2>1. Write(<<SIG_MAGIC>>, then) /\ count' = count
      BY <1>3 DEF sign_append
    <2>2. SeqsInv'
      BY <1>0, <2>1, WriteKeepsSeqs, One DEF SignInv, SeqsInv
    <2>3. ASSUME ~lost', way = "sig" PROVE FALSE
      BY <1>0, <1>3, <2>1, <2>3, WriteAppends DEF SignInv, OutputInv
    <2>4. SourceInv'
      <3>1. CASE way = "sig"
        BY <1>0, <2>3, <3>1 DEF SourceInv
      <3>2. CASE way # "sig"
        BY <1>0, <1>3, <2>1, <3>2, WriteKeepsSource DEF Reading
      <3> QED
        BY <3>1, <3>2
    <2>5. OutputInv'
      <3>1. signpc' \in {"idle", then}
        BY <2>1 DEF Write
      <3>2. ASSUME ~lost', way \in {"temp", "dest"}, signpc' = then
            PROVE  Out' = SignedFile(cms, source)
        <4>1. ~lost /\ Out' = Out \o <<SIG_MAGIC>>
          BY <1>0, <2>1, <3>2, WriteAppends
        <4> QED
          BY <1>3, <3>2, <4>1 DEF SignInv, OutputInv, SignedFile
      <3>3. SignedFile(cms, source)' = SignedFile(cms, source)
        BY <1>0 DEF SignedFile, WithoutMagic, Signature
      <3> QED
        BY <1>0, <2>3, <3>1, <3>2, <3>3 DEF OutputInv
    <2> QED
      BY <2>2, <2>4, <2>5 DEF SignInv
  <1> QED
    BY <1>1, <1>2, <1>3 DEF sign_append

(* The rename, the return or the end of the process, and an update. *)
LEMMA OtherSteps ==
    ASSUME SignInv, sign_rename \/ sign_end \/ module_replaced PROVE SignInv'
  <1>1. CASE sign_rename
    <2>1. SeqsInv'
      BY <1>1, One DEF SignInv, SeqsInv, sign_rename
    <2>2. OutputInv' /\ SourceInv'
      BY <1>1 DEF SignInv, OutputInv, SourceInv, Reading, sign_rename
    <2> QED
      BY <2>1, <2>2 DEF SignInv
  <1>2. CASE sign_end
    BY <1>2 DEF SignInv, SeqsInv, OutputInv, SourceInv, Reading, sign_end
  <1>3. CASE module_replaced
    <2>1. PICK m \in Modules : path' = Content(m)
      BY <1>3 DEF module_replaced
    <2>2. IsSeq(path')
      <3>1. m \in Seq(Range(m))
        BY SignAssumption
      <3>2. Content(m) \in Seq({Block(m[i], <<>>, 0) : i \in DOMAIN m})
        BY <3>1 DEF Content
      <3> QED
        BY <2>1, <3>2, SeqOfRange
    <2>3. SeqsInv'
      BY <1>3, <2>2 DEF SignInv, SeqsInv, module_replaced
    <2>4. ~(edits = since)'
      BY <1>3 DEF SignInv, SeqsInv, module_replaced
    <2>5. OutputInv'
      <3>1. way \in {"temp", "dest", "sig"} => Out' = Out
        BY <1>3 DEF module_replaced, Out
      <3>2. UNCHANGED <<temp, dest, signpc, way, cms, source, count, lost>>
        BY <1>3 DEF module_replaced
      <3>3. UNCHANGED <<Signature(cms), WithoutMagic(cms, source), SignedFile(cms, source)>>
        BY <3>2 DEF SignedFile, WithoutMagic, Signature
      <3> QED
        BY <3>1, <3>2, <3>3 DEF SignInv, OutputInv
    <2> QED
      BY <2>3, <2>4, <2>5 DEF SignInv, SourceInv
  <1> QED
    BY <1>1, <1>2, <1>3

(* Whatever is signed, whichever steps fail and whoever replaces the module:   *)
(* a call of sign that returns true and missed no failure leaves a file that   *)
(* splits into the module and its signature, unless it was given the path of   *)
(* the module itself, and the module is replaced by nothing else.              *)
THEOREM SigningCorrect == SignSpec => SigningIsSafe
  <1>1. SignInit => SignInv
    <2> SUFFICES ASSUME SignInit PROVE SignInv
      OBVIOUS
    <2>1. PICK m \in Modules : path = Content(m)
      BY DEF SignInit
    <2>2. IsSeq(path)
      <3>1. m \in Seq(Range(m))
        BY SignAssumption
      <3>2. Content(m) \in Seq({Block(m[i], <<>>, 0) : i \in DOMAIN m})
        BY <3>1 DEF Content
      <3> QED
        BY <2>1, <3>2, SeqOfRange
    <2>3. IsSeq(<<>>) /\ IsSeq(<<NoFile>>)
      BY One DEF IsSeq, Range
    <2> QED
      BY <2>2, <2>3 DEF SignInit, SignInv, SeqsInv, OutputInv, SourceInv, Reading, Ways
  <1>2. SignInv /\ [SignNext]_signVars => SignInv'
    <2> SUFFICES ASSUME SignInv, [SignNext]_signVars PROVE SignInv'
      OBVIOUS
    <2>1. CASE SignNext
      BY <2>1, DigestStep, SignOpenStep, CopyStep, AppendStep, OtherSteps DEF SignNext
    <2>2. CASE UNCHANGED signVars
      <3>1. UNCHANGED <<Out, Signature(cms), WithoutMagic(cms, source), SignedFile(cms, source)>>
        BY <2>2 DEF signVars, Out, SignedFile, WithoutMagic, Signature
      <3> QED
        BY <2>2, <3>1 DEF signVars, SignInv, SeqsInv, OutputInv, SourceInv
    <2> QED
      BY <2>1, <2>2
  <1>3. SignInv => SignedFileSplits
    <2> SUFFICES ASSUME SignInv, ~lost PROVE SignedFileSplits
      BY DEF SignedFileSplits
    <2>1. ASSUME signpc = "rename" \/ (signpc = "return" /\ way = "dest")
          PROVE  /\ do_sigraw(Out) = <<Signature(cms), source>>
                 /\ \A store \in BOOLEAN : do_verify(Out, <<NoFile>>, store, FALSE) # "ok"
      <3>1. Out = SignedFile(cms, source) /\ IsSeq(source)
        BY <2>1 DEF SignInv, OutputInv, SeqsInv
      <3>2. do_kmod_map(Out) = [err |-> "ok", mod |-> source, sig |-> Signature(cms)]
        BY <3>1, SplitsAsJoined
      <3>3. ASSUME NEW store \in BOOLEAN
            PROVE  do_verify(Out, <<NoFile>>, store, FALSE) = pkcs7_verify(source, Signature(cms), store)
        BY <3>2 DEF do_verify, do_verify_kmod
      <3>4. do_sigraw(Out) = <<Signature(cms), source>>
        BY <3>2 DEF do_sigraw
      <3> QED
        BY <3>3, <3>4, NotAccepted, Zenon
    <2>2. ASSUME signpc = "return", way = "sig"
          PROVE  /\ edits = since => dest = Signature(path)
                 /\ \A store \in BOOLEAN : do_verify(path, dest, store, FALSE) # "ok"
      <3>1. dest = Signature(cms) /\ (edits = since => cms = path)
        BY <2>2 DEF SignInv, OutputInv, SourceInv
      <3>2. ASSUME NEW store \in BOOLEAN
            PROVE  do_verify(path, dest, store, FALSE) = pkcs7_verify(path, Signature(cms), store)
        BY <3>1, SignatureShape, Zenon DEF do_verify, do_verify_sig
      <3> QED
        BY <3>1, <3>2, NotAccepted
    <2> QED
      BY <2>1, <2>2 DEF SignedFileSplits
  <1>4. SignInv /\ SignNext => SigningKeepsTheModule
    <2> SUFFICES ASSUME SignInv, SignNext, path' # path, edits' = edits, way # "self", ~lost
                 PROVE  /\ do_kmod_map(path').err = "ok"
                        /\ do_sigraw(path')[2] = source
                        /\ edits = since => source = path /\ do_sigraw(path')[1] = Signature(path)
      BY DEF SigningKeepsTheModule
    <2>1. edits \in Nat
      BY DEF SignInv, SeqsInv
    <2>2. signpc = "rename" /\ path' = temp
      BY <2>1 DEF SignNext, cms_sign_file, sign_open, sign_copy, sign_append, sign_rename, sign_end,
                  module_replaced, Write, PutOut
    <2>3. path' = SignedFile(cms, source) /\ IsSeq(source)
      BY <2>2 DEF SignInv, OutputInv, SeqsInv, Out
    <2>4. do_kmod_map(path') = [err |-> "ok", mod |-> source, sig |-> Signature(cms)]
      BY <2>3, SplitsAsJoined
    <2>5. edits = since => source = path /\ cms = path
      BY <2>2 DEF SignInv, OutputInv, SourceInv, Reading
    <2> QED
      BY <2>4, <2>5 DEF do_sigraw
  <1>5. SignInv /\ SignInv' /\ [SignNext]_signVars => [SignedFileSplits' /\ SigningKeepsTheModule]_signVars
    <2>1. SignInv' => SignedFileSplits'
      BY <1>3, PTL
    <2> QED
      BY <1>4, <2>1
  <1> QED
    BY <1>1, <1>2, <1>5, PTL DEF SignSpec, SigningIsSafe
=============================================================================
