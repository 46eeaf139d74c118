------------------------------ MODULE KmodSign ------------------------------
(* Signing and verifying kernel modules, daemon/lua_kmod.c.  A signed file is  *)
(* the module, the signature data, struct module_signature (which holds the    *)
(* length of the data) and SIG_MAGIC.  Files are sequences of blocks; a        *)
(* signature is SigLen blocks that name the content that was digested, which   *)
(* stands for the cryptography of OpenSSL.                                     *)
EXTENDS Integers, Sequences, Functions

CONSTANTS
    Modules,     \* the contents a module file may have, sequences of names
    SigLen,      \* blocks of a signature
    MaxSigns,    \* bound on the calls of sign
    MaxEdits     \* bound on the times another program replaces the module

ASSUME SignAssumption == SigLen \in Nat \ {0} /\ \A m \in Modules : m \in Seq(Range(m))

VARIABLES
    path,     \* the module file
    temp,     \* "<module>.~signed~": its blocks, or <<NoFile>>
    dest,     \* the destination file the caller names, or <<NoFile>>
    signpc,   \* the step of do_kmod_sign
    way,      \* where it writes: "temp", "dest", "self" or "sig" (see Ways)
    cms,      \* the content that was digested
    source,   \* the content behind the descriptor the copy reads
    count,    \* blocks copied so far, then the length of the signature
    signs, edits,
    since,    \* history: edits when the call began
    lost      \* history: a failure of this call went unnoticed

signVars == <<path, temp, dest, signpc, way, cms, source, count, signs, edits, since, lost>>

(* No destination, or the very string of the module: a temporary file that is  *)
(* renamed.  Another destination.  The module's own path in another string,    *)
(* which the comparison of pointers does not recognise.  save_sig: only the    *)
(* signature, to the destination.                                              *)
Ways == {"temp", "dest", "self", "sig"}

Block(name, of, k) == [name |-> name, of |-> of, k |-> k]
Content(m) == [i \in DOMAIN m |-> Block(m[i], <<>>, 0)]
NoFile == Block("no file", <<>>, 0)
SIG_MAGIC == Block("SIG_MAGIC", <<>>, 0)
module_signature(sig_len) == Block("module_signature", <<>>, sig_len)
Signature(c) == [i \in 1..SigLen |-> Block("signature", c, i)]

SignInit ==
    /\ path \in {Content(m) : m \in Modules}
    /\ temp = <<NoFile>> /\ dest = <<NoFile>>
    /\ signpc = "idle" /\ way = "temp" /\ cms = <<>> /\ source = <<>> /\ count = 0
    /\ signs = 0 /\ edits = 0 /\ since = 0 /\ lost = FALSE

(* The module is read for its digest.  A key, certificate or file that cannot  *)
(* be read ends the call; CMS_final reports failure with 0, which < 0 misses.  *)
cms_sign_file ==
    /\ signpc = "idle" /\ signs < MaxSigns
    /\ signs' = signs + 1 /\ since' = edits /\ way' \in Ways
    /\ \/ signpc' = "open" /\ cms' = path /\ lost' = FALSE
       \/ signpc' = "open" /\ cms' = <<NoFile>> /\ lost' = TRUE
       \/ lost' = FALSE /\ UNCHANGED <<signpc, cms>>
    /\ UNCHANGED <<path, temp, dest, source, count, edits>>

Out == IF way = "temp" THEN temp ELSE IF way = "self" THEN path ELSE dest

PutOut(blocks) ==
    /\ temp' = IF way = "temp" THEN blocks ELSE temp
    /\ path' = IF way = "self" THEN blocks ELSE path
    /\ dest' = IF way \in {"dest", "sig"} THEN blocks ELSE dest

(* The output is opened with "wb"; with save_sig nothing is copied to it. *)
sign_open ==
    /\ signpc = "open"
    /\ \/ signpc' = "idle" /\ UNCHANGED <<source, count, path, temp, dest>>
       \/ /\ signpc' = IF way = "sig" THEN "signature" ELSE "copy"
          /\ source' = IF way = "self" THEN <<>> ELSE path
          /\ count' = 0 /\ PutOut(<<>>)
    /\ UNCHANGED <<way, cms, signs, edits, since, lost>>

(* A write succeeds, fails with -1, or fails with 0, which < 0 misses. *)
Write(blocks, then) ==
    \/ PutOut(Out \o blocks) /\ signpc' = then /\ UNCHANGED lost
    \/ signpc' = "idle" /\ UNCHANGED <<path, temp, dest, lost>>
    \/ lost' = TRUE /\ signpc' = then /\ UNCHANGED <<path, temp, dest>>

(* Mutant: the last block of the module is not copied. *)
sign_copy_short ==
    /\ signpc = "copy"
    /\ IF count + 1 < Len(source)
       THEN Write(<<source[count + 1]>>, "copy") /\ count' = count + 1
       ELSE signpc' = "signature" /\ UNCHANGED <<path, temp, dest, lost, count>>
    /\ UNCHANGED <<way, cms, source, signs, edits, since>>

sign_copy ==
    /\ signpc = "copy"
    /\ IF count < Len(source)
       THEN Write(<<source[count + 1]>>, "copy") /\ count' = count + 1
       ELSE signpc' = "signature" /\ UNCHANGED <<path, temp, dest, lost, count>>
    /\ UNCHANGED <<way, cms, source, signs, edits, since>>

sign_append ==
    /\ UNCHANGED <<way, cms, source, signs, edits, since>>
    /\ \/ /\ signpc = "signature"
          /\ Write(Signature(cms), IF way = "sig" THEN "return" ELSE "info")
          /\ count' = Len(Out') - Len(Out)
       \/ signpc = "info" /\ Write(<<module_signature(count)>>, "magic") /\ UNCHANGED count
       \/ /\ signpc = "magic" /\ UNCHANGED count
          /\ Write(<<SIG_MAGIC>>, IF way = "temp" THEN "rename" ELSE "return")

sign_rename ==
    /\ signpc = "rename"
    /\ \/ path' = temp /\ temp' = <<NoFile>> /\ signpc' = "return"
       \/ signpc' = "idle" /\ UNCHANGED <<path, temp>>
    /\ UNCHANGED <<dest, way, cms, source, count, signs, edits, since, lost>>

(* The call returns true; or, at any step, the process dies. *)
sign_end ==
    /\ signpc # "idle" /\ signpc' = "idle"
    /\ UNCHANGED <<path, temp, dest, way, cms, source, count, signs, edits, since, lost>>

(* An update of the package renames a new module into place. *)
module_replaced ==
    /\ edits < MaxEdits /\ edits' = edits + 1
    /\ \E m \in Modules : path' = Content(m)
    /\ UNCHANGED <<temp, dest, signpc, way, cms, source, count, signs, since, lost>>

SignNext ==
    \/ cms_sign_file \/ sign_open \/ sign_copy \/ sign_append \/ sign_rename \/ sign_end
    \/ module_replaced

SignSpec == SignInit /\ [][SignNext]_signVars
-----------------------------------------------------------------------------
(* The module and the signature data in a file, or what is wrong with it.  *)
(* Signer's name and key identifier are empty, and sig_len is below 2^31.  *)
do_kmod_map(file) ==
    LET n == Len(file)
        siglen == file[n - 1].k
        Bad(err) == [err |-> err, mod |-> <<>>, sig |-> <<>>]
    IN IF n < 2 THEN Bad("ERANGE")
       ELSE IF file[n] # SIG_MAGIC \/ siglen = 0 \/ siglen > n - 2 THEN Bad("EBADMSG")
       ELSE [err |-> "ok", mod |-> SubSeq(file, 1, n - 2 - siglen),
             sig |-> SubSeq(file, n - 1 - siglen, n - 2)]

do_sigraw(file) == LET m == do_kmod_map(file) IN <<m.sig, m.mod>>

(* d2i_PKCS7_bio: the data is one whole signature. *)
IsPKCS7(sig) ==
    /\ Len(sig) = SigLen
    /\ \A i \in 1..SigLen : \E name \in {"signature", "with certificate"} :
          sig[i] = Block(name, sig[1].of, i)

(* PKCS7_verify is given no certificates and looks for the signer's in the       *)
(* signature itself, where CMS_NOCERTS leaves it out.  store: the file of        *)
(* certificates can be read; nothing of it is looked at (PKCS7_NOVERIFY).        *)
pkcs7_verify(in, sig, store) ==
    IF ~store THEN "ENOENT"
    ELSE IF ~IsPKCS7(sig) THEN "EBADMSG"
    ELSE IF sig[1].name = "with certificate" /\ sig[1].of = in THEN "ok" ELSE "EBADF"

(* err is still 0 when a memory BIO cannot be had. *)
do_verify_kmod(file, store, nomem) ==
    LET m == do_kmod_map(file)
    IN IF m.err # "ok" THEN m.err ELSE IF nomem THEN "ok" ELSE pkcs7_verify(m.mod, m.sig, store)

do_verify_sig(file, sigfile, store) == pkcs7_verify(file, sigfile, store)

do_verify(file, sigfile, store, nomem) ==
    IF sigfile # <<NoFile>> THEN do_verify_sig(file, sigfile, store)
    ELSE do_verify_kmod(file, store, nomem)

(* When sign is done writing and no failure went unnoticed, module:sigraw(true) *)
(* splits its output into exactly what was copied and the signature of what was *)
(* digested, also when the module was signed before; a signature saved apart    *)
(* is of the module, unless that was replaced meanwhile.  (Destinations that    *)
(* are the module's own path in another string are left out: opening them       *)
(* empties the module.)  module:verify accepts neither, as the comment above    *)
(* pkcs7_verify knows: "TODO FIXME: verify failed".                             *)
SignedFileSplits ==
    ~lost =>
        /\ signpc = "rename" \/ (signpc = "return" /\ way = "dest") =>
               /\ do_sigraw(Out) = <<Signature(cms), source>>
               /\ \A store \in BOOLEAN : do_verify(Out, <<NoFile>>, store, FALSE) # "ok"
        /\ signpc = "return" /\ way = "sig" =>
               /\ edits = since => dest = Signature(path)
               /\ \A store \in BOOLEAN : do_verify(path, dest, store, FALSE) # "ok"

(* Whichever step fails, whenever the process dies and whatever earlier         *)
(* attempts left behind, signing a module in place only ever replaces it by     *)
(* a complete signed file of the module it read, which is the module it         *)
(* replaces, and the one its signature is of, unless another program installed  *)
(* one meanwhile.  (A call that names the module's own path in another string   *)
(* writes over the module and is left out, as is one with an unnoticed failure.)*)
SigningKeepsTheModule ==
    path' # path /\ edits' = edits /\ way # "self" /\ ~lost =>
        /\ do_kmod_map(path').err = "ok"
        /\ do_sigraw(path')[2] = source
        /\ edits = since => source = path /\ do_sigraw(path')[1] = Signature(path)

(* A call of sign that reports success leaves a file that is the module and its *)
(* signature, and none leaves the module without its content, except when a     *)
(* failure goes unnoticed or the module is named as its own destination.        *)
SigningIsSafe == [][SignedFileSplits' /\ SigningKeepsTheModule]_signVars
=============================================================================
