--------------------------- MODULE MCMetadataStore ---------------------------
(* MetadataStore for TLC: two callers, one key, one value in up to three versions. *)
EXTENDS MetadataStore

CONSTANTS c1, c2, k1, v1

MC_Callers == {c1, c2}
MC_Keys == {k1}
MC_Values == {v1}

=============================================================================
