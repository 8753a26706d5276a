--------------------------- MODULE MCSvcDiscovery ---------------------------
(* A registry of two services, shared by the cleaner w1 and another worker. *)
EXTENDS SvcListing

CONSTANTS s1, s2, w1, w2

=============================================================================
