----------------------------- MODULE MCTokens ------------------------------
(* Small instances of node tokens. *)
EXTENDS NodeTokens

CONSTANTS n1, n2, s1, s2, s3

\* n1 has a token in the file and one inline, n2 one in the file.
MCFileTokens == {Entry(n1, s1), Entry(n2, s2)}
MCInlineTokens == <<Entry(n1, s3)>>
=============================================================================
