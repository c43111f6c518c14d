----------------------------- MODULE MCBlobStore -----------------------------
(* Instances of BlobStore: an upload, a queued message and a copy.          *)
EXTENDS BlobStore

CONSTANTS u, v, q, c

KindOf == [w \in Writers |-> IF w = q THEN "queue" ELSE IF w = c THEN "copy" ELSE "upload"]
Accounts == [w \in Writers |-> IF w = v THEN u ELSE w]
=============================================================================
