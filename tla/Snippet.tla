------------------------------ MODULE Snippet ------------------------------
(***************************************************************************)
(* Source snippets (pqc_scan_core/src/pipeline.rs): the window of lines     *)
(* around a finding and what is shown of each line.                         *)
(*                                                                         *)
(* A line is abstracted to the class the masking code tells apart.  Of a    *)
(* private key the code knows three kinds (RSA, PKCS#8, OPENSSH), by their  *)
(* BEGIN and END lines:                                                     *)
(*   "begin"   names a BEGIN marker of a known kind only                    *)
(*   "end"     names an END marker of a known kind only                     *)
(*   "both"    names both                                                   *)
(*   "foreign" names a BEGIN or END marker of any other kind (EC, DSA,      *)
(*             ENCRYPTED) and none of a known kind                          *)
(*   "secret"  is an unbroken base64 text of 64 or more characters that     *)
(*             starts with MII or ends with =                               *)
(*   "body"    is any other line of a private key                           *)
(*   "long"    is any other line of more than 240 characters                *)
(*   "plain"   is any other line                                            *)
(* What is shown is a class, for a line shown as it is, or one of           *)
(*   "masked-key", "masked-secret", "clipped"                               *)
(***************************************************************************)
EXTENDS Integers, Sequences

LineClass == {"begin", "end", "both", "foreign", "secret", "body", "long", "plain"}
Begins == {"begin", "both"}
Ends == {"end", "both"}

ShownLine == LineClass \cup {"masked-key", "masked-secret", "clipped"}

Before == 2
After == 2

NoSnippet == [first |-> 0, last |-> 0, highlighted |-> 0]

build_source_snippet_Unclamped(n, target, before, after) ==
    IF n = 0 \/ target = 0 THEN NoSnippet
    ELSE [first |-> IF target > before THEN target - before ELSE 1,
          last |-> IF target + after < n THEN target + after ELSE n,
          highlighted |-> target]

\* Lines first..last of a file of n lines; a target past the end is moved to
\* the last line.
build_source_snippet(n, target, before, after) ==
    IF n = 0 \/ target = 0 THEN NoSnippet
    ELSE LET hit == IF target < n THEN target ELSE n
         IN  [first |-> IF hit > before THEN hit - before ELSE 1,
              last |-> IF hit + after < n THEN hit + after ELSE n,
              highlighted |-> hit]

\* The masks and a clipped line are fixed points.
sanitize_source_line(line) ==
    CASE line \in Begins \cup Ends -> "masked-key"
      [] line = "secret" -> "masked-secret"
      [] line = "long" -> "clipped"
      [] OTHER -> line

\* As if only the beginning of the file were searched.
contains_private_key_marker_AtTheTop(lines) ==
    lines # << >> /\ lines[1] \in Begins
contains_private_key_marker(lines) ==
    \E i \in DOMAIN lines : lines[i] \in Begins

\* in_private_key_block when line i is written: a BEGIN at or before i that no
\* END line strictly between has closed.
InKeyBlock(lines, i) ==
    \E b \in 1..i :
        /\ lines[b] \in Begins
        /\ \A e \in b..(i - 1) : lines[e] \notin Ends

\* load_snippet_source comes here with texts without a BEGIN, so that this
\* second guard has nothing left to mask.
mask_private_key_blocks(lines) ==
    [i \in DOMAIN lines |-> IF InKeyBlock(lines, i) THEN "masked-key" ELSE lines[i]]

\* What load_snippet_source keeps of a text without a marker.
TextLines(lines) ==
    LET blocks == mask_private_key_blocks(lines)
    IN  [i \in DOMAIN lines |-> sanitize_source_line(blocks[i])]

\* The lines of the window, sanitized once more.
WindowLines(lines, window) ==
    [i \in 1..(window.last - window.first + 1) |->
        sanitize_source_line(TextLines(lines)[window.first + i - 1])]
=============================================================================
