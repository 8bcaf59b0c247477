------------------------- MODULE MCArtifactVersions -------------------------
(***************************************************************************)
(* Small instances of ArtifactVersions for TLC: saves, loads and deletes   *)
(* of one file, and saves and a load of another file beside them.          *)
(***************************************************************************)
EXTENDS ArtifactVersions, TLC

CONSTANTS s1, s2, s3, s4, s5, l1, l2, d1, d2, f, g, png

OneFile  == [t \in Tasks |-> f]
TwoFiles == [t \in Tasks |-> IF t \in {s4, s5, l2} THEN g ELSE f]

WantLatest == [l \in Loaders |-> None]
WantLatestAndFirst == [l \in Loaders |-> IF l = l2 THEN 0 ELSE None]

P(kind, mime, data) == [kind |-> kind, mime |-> mime, data |-> data]
TextParts  == [s \in Savers |-> P("text", TextPlain, 1)]
MixedParts == [s \in Savers |-> CASE s = s1 -> P("inline", TextPlain, 3)
                                  [] s = s2 -> P("inline", png, 3)
                                  [] s = s3 -> P("other", png, 3)
                                  [] s = s4 -> P("file", png, 2)
                                  [] OTHER  -> P("text", TextPlain, 1)]
BinaryText == [s \in Savers |-> P("inline", TextPlain, 3)]
FileParts  == [s \in Savers |-> P("file", png, 1)]
=============================================================================
