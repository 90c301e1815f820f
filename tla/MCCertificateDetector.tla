----------------------- MODULE MCCertificateDetector -----------------------
(***************************************************************************)
(* Files of up to three blocks out of four, under every extension and in    *)
(* every encoding.                                                          *)
(***************************************************************************)
EXTENDS CertificateDetector

B(certificate, parses, algorithm, size) ==
    [certificate |-> certificate, parses |-> parses, algorithm |-> algorithm, size |-> size]
SampleBlocks == {B(TRUE, TRUE, "RSA", 2048), B(TRUE, TRUE, "EC", 256),
                 B(TRUE, FALSE, "RSA", 2048), B(FALSE, TRUE, "RSA", 2048)}

\* A path without words of interest, and one with a word for a rule and a number.
SamplePaths == {{}, {<<"path", 1>>, <<"bits", 2048>>}}

MCFiles ==
    [ext : CertificateExt \cup {"txt"}, words : SamplePaths,
     encoding : {"pem", "malformed pem", "other"},
     blocks : UNION {[1..n -> SampleBlocks] : n \in 0..3}]
    \cup [ext : CertificateExt \cup {"txt"}, words : SamplePaths,
          encoding : {"der"}, blocks : [1..1 -> SampleBlocks]]

\* CERT_PEM_CONTAINER, CERT_RSA_SIGNATURE, CERT_RSA_2048, a rule for what key_bits
\* is with such a key, and one for a word of a path.
MCRules == {<<<<"container", 1>>, <<"signature", 11>>, <<"bits", 2048>>, <<"bits", 2160>>,
              <<"path", 1>>>>}
=============================================================================
