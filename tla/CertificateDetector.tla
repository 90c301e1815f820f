------------------------ MODULE CertificateDetector ------------------------
(***************************************************************************)
(* CertificateDetector (pqc_scan_detectors/src/certificate_detector.rs):    *)
(* the certificates of a file are parsed, and the rules applied to a line   *)
(* of words about each; when none is parsed, to the path alone.             *)
(*                                                                         *)
(* The pem and x509-parser crates are external.  pem::parse_many rejects a  *)
(* file of which one block is malformed; a DER file is no text or has no    *)
(* PEM block.  A rule looks for a word: of a path, of a signature algorithm, *)
(* or a number called key_bits.                                             *)
(***************************************************************************)
EXTENDS Integers, Sequences, FiniteSets

CONSTANTS
    Files,      \* records [ext, words, encoding, blocks]
    Rules       \* the sequences of certificate rules, each a word it looks for

\* A block of a PEM file, or the whole of a DER file: is its tag CERTIFICATE,
\* does it parse, and what key and signature the certificate has.
Block == [certificate : BOOLEAN, parses : BOOLEAN, algorithm : {"RSA", "EC"}, size : Nat]

CertificateExt == {"pem", "crt", "cer", "der", "p12", "pfx"}
Encoding == {"pem", "malformed pem", "der", "other"}

\* What a pattern matches: a word anywhere in the line it is applied to, which may
\* stand in the path too, or an extension at the end of that line.
Inner == {"path", "signature", "bits"} \X Nat
Word == Inner \cup ({"container"} \X Nat)

ASSUME FilesAssumption ==
    \A f \in Files :
        f.encoding \in Encoding /\ f.blocks \in Seq(Block) /\ f.words \in SUBSET Inner
ASSUME RulesAssumption == Rules \subseteq Seq(Word)

\* The length of a DER value with its tag and length octets.
Tlv(n) == n + (IF n < 128 THEN 2 ELSE IF n < 256 THEN 3 ELSE 4)

\* subject_public_key.data: for RSA the encoded modulus and exponent (65537),
\* for EC an uncompressed point.
subject_public_key_len(block) ==
    IF block.algorithm = "RSA" THEN Tlv(Tlv(block.size \div 8 + 1) + Tlv(3))
    ELSE 1 + 2 * (block.size \div 8)

\* Words are numbered: the pattern of CERT_PEM_CONTAINER lists four extensions, a
\* signature algorithm is the last part of its OID.  Certificates are taken as
\* signed with a key like their own.
ContainerWord(f) == <<"container", IF f.ext \in {"pem", "crt", "cer", "der"} THEN 1 ELSE 0>>
SignatureWord(block) == <<"signature", IF block.algorithm = "RSA" THEN 11 ELSE 2>>
BitsWord(block) == <<"bits", 8 * subject_public_key_len(block)>>

VARIABLES
    file,
    rules,
    phase,      \* "parse", "match" or "done"
    block,      \* the block being parsed
    infos,      \* the certificates that parsed
    info, rule, \* where the loops are; info 0 is the path alone
    out

vars == <<file, rules, phase, block, infos, info, rule, out>>

is_certificate_file == file.ext \in CertificateExt

NotACertificateFile ==
    /\ phase = "parse" /\ ~is_certificate_file
    /\ phase' = "done"
    /\ UNCHANGED <<file, rules, block, infos, info, rule, out>>

\* Which encoding is looked for depends on the extension.
Blocks ==
    IF \/ file.ext \in {"pem", "crt", "cer"} /\ file.encoding = "pem"
       \/ file.ext = "der" /\ file.encoding = "der"
    THEN file.blocks ELSE << >>

Parsed(b) == (file.encoding = "pem" => b.certificate) /\ b.parses

ParseBlock ==
    /\ phase = "parse" /\ is_certificate_file /\ block <= Len(Blocks)
    /\ infos' = IF Parsed(Blocks[block]) THEN Append(infos, Blocks[block]) ELSE infos
    /\ block' = block + 1
    /\ UNCHANGED <<file, rules, phase, info, rule, out>>

First_AlwaysTheFirst == 1
First == IF infos = << >> THEN 0 ELSE 1

StartMatching ==
    /\ phase = "parse" /\ is_certificate_file /\ block > Len(Blocks)
    /\ phase' = "match"
    /\ info' = First
    /\ UNCHANGED <<file, rules, block, infos, rule, out>>

\* What the patterns are searched in: the path alone, or a line that begins with
\* the path and goes on with the certificate, so that no extension ends it.
Target == file.words \cup
    IF info = 0 THEN {ContainerWord(file)}
    ELSE {SignatureWord(infos[info]), BitsWord(infos[info])}

Detection_AfterTheIncrement == <<info, rule + 1>>
Detection == <<info, rule>>

TryRule ==
    /\ phase = "match" /\ info <= Len(infos) /\ rule <= Len(rules)
    /\ out' = IF rules[rule] \in Target THEN Append(out, Detection) ELSE out
    /\ rule' = rule + 1
    /\ UNCHANGED <<file, rules, phase, block, infos, info>>

NextInfo ==
    /\ phase = "match" /\ info <= Len(infos) /\ rule > Len(rules)
    /\ \/ info = 0 /\ phase' = "done" /\ UNCHANGED <<info, rule>>
       \/ info > 0 /\ info' = info + 1 /\ rule' = 1 /\ phase' = phase
    /\ UNCHANGED <<file, rules, block, infos, out>>

Return ==
    /\ phase = "match" /\ info > Len(infos)
    /\ phase' = "done"
    /\ UNCHANGED <<file, rules, block, infos, info, rule, out>>

Terminated == phase = "done" /\ UNCHANGED vars

Init ==
    /\ file \in Files /\ rules \in Rules
    /\ phase = "parse" /\ block = 1 /\ infos = << >>
    /\ info = 1 /\ rule = 1 /\ out = << >>

Next ==
    \/ NotACertificateFile \/ ParseBlock \/ StartMatching
    \/ TryRule \/ NextInfo \/ Return
    \/ Terminated

Spec == Init /\ [][Next]_vars
-----------------------------------------------------------------------------
TypeOK ==
    /\ phase \in {"parse", "match", "done"}
    /\ block \in 1..(Len(file.blocks) + 1)
    /\ \A k \in DOMAIN infos : \E b \in DOMAIN file.blocks : infos[k] = file.blocks[b]
    /\ info \in 0..(Len(infos) + 1) /\ rule \in 1..(Len(rules) + 1)
    /\ \A k \in DOMAIN out : out[k][1] \in 0..Len(infos) /\ out[k][2] \in DOMAIN rules

\* The certificates of a file: those of its blocks that are some and parse, if it is
\* in the encoding its extension stands for; no block of it may be malformed.
Certificates(f) ==
    {b \in DOMAIN f.blocks :
        /\ \/ f.ext \in {"pem", "crt", "cer"} /\ f.encoding = "pem" /\ f.blocks[b].certificate
           \/ f.ext = "der" /\ f.encoding = "der"
        /\ f.blocks[b].parses}

\* How often a rule reports.
Times(r) == Cardinality({k \in DOMAIN out : out[k][2] = r})

\* A rule reports a file as often as it has certificates the rule matches, by a
\* word of theirs or of the path: what else the file holds, and certificates that do
\* not parse, change nothing.  A file without any, to which a malformed block
\* reduces the longest chain, is matched once by a rule for its path or extension,
\* and a rule for an extension matches nothing else.
ChainCovered ==
    phase = "done" /\ is_certificate_file =>
        \A r \in DOMAIN rules :
            Times(r) =
                IF Certificates(file) = {}
                THEN IF rules[r] \in file.words \cup {ContainerWord(file)} THEN 1 ELSE 0
                ELSE Cardinality({b \in Certificates(file) :
                        \/ rules[r] \in file.words
                        \/ rules[r] = SignatureWord(file.blocks[b])
                        \/ rules[r] = BitsWord(file.blocks[b])})

\* docs/rules-reference.md: rule CERT_RSA_2048 stands for "certificate with a
\* 2048-bit RSA key detected", and looks for that number.
KeySizeReported ==
    phase = "done" =>
        \A i \in DOMAIN infos : \A r \in DOMAIN rules :
            (infos[i].algorithm = "RSA" /\ rules[r] = <<"bits", infos[i].size>>) =>
                \E k \in DOMAIN out : out[k] = <<i, r>>
=============================================================================
