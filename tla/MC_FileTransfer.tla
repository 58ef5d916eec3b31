--------------------------- MODULE MC_FileTransfer ---------------------------
(* Model-checking instance of FileTransfer: a sender S and a receiver R,    *)
(* each knowing the other under a distinct PeerId.  The file sizes are in  *)
(* units of bytes with ChunkSize 2, so a 3-byte file is two chunks (the     *)
(* second one short) like the 50 KiB file of three 16 KiB chunks.           *)
EXTENDS FileTransfer

CONSTANTS S, R, sidS, sidR

MCNodes == {S, R}
MCSid == (S :> sidS) @@ (R :> sidR)
MCChunkSize == 2

\* Two sources with the same file name in different directories, both on S.
SamePathsNames == {"x", "d/x"}
\* Files whose path is their file name, one on each node.
FlatPaths == {"x", "y"}
\* One file on S whose path is its file name.
OnePath == {"x"}

MCBasename(p) == IF p = "d/x" THEN "x" ELSE p
MCHolder(p) == IF p = "y" THEN R ELSE S
MCSize(p) == CASE p = "x" -> 3 [] p = "d/x" -> 2 [] p = "y" -> 1
MCSizeEmpty(p) == 0

\* Kinds CreateFromBuffer decodes in the repository, and once all are wired.
RepoDecodable == {"Request"}
AllDecodable == {"Request", "Chunk", "Complete"}
=============================================================================
