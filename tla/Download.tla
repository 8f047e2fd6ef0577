------------------------------ MODULE Download ------------------------------
(***************************************************************************)
(* How the bytes of a version reach a client: the range that is asked for, *)
(* the headers, and the chunks read one after the other while others may   *)
(* be deleted (files.rs download, preview, servir_contenu, parse_range,    *)
(* corps_en_flux; storage.rs chunk_plain_len, read_manifest; sharing.rs    *)
(* serve_public_file).                                                     *)
(*                                                                         *)
(* A byte is the chunk it is in and its place there.  Which version a      *)
(* request gets is in VersionStore, where a chunk is read in Tiering.      *)
(* Init, Next and Spec carry the module's name: ClientProofs extends this  *)
(* module and Desktop together.                                            *)
(***************************************************************************)
EXTENDS Integers, SequencesExt

CONSTANTS
    Hash,
    MaxChunks, MaxLen,   \* bounds: chunks of a version, bytes of a chunk
    MaxExtra             \* bound: bytes by which a recorded size exceeds the content

ASSUME DownloadAssumption == {MaxChunks, MaxLen, MaxExtra} \subseteq Nat

MaxSize == MaxChunks * MaxLen + MaxExtra

VARIABLES
    lens,              \* plain length of each chunk
    manifest, size,    \* the row of the version
    present, known,    \* chunks that can be read; TAILLES_CHUNKS, lengths once measured
    phase, route, ask, \* the request
    total, from, to,   \* of reponse_contenu
    pos, next,         \* of the stream: bytes and chunks passed
    length, sent       \* Content-Length, and the body

version == <<lens, manifest, size>>
request == <<route, ask, total, from, to, length>>
downloadVars == <<version, present, known, phase, request, pos, next, sent>>

Asks == [kind : {"none"}] \cup [kind : {"within"}, a : 0 .. MaxSize, b : 0 .. MaxSize]
        \cup [kind : {"from", "last"}, a : 0 .. MaxSize + 1]

\* The bytes of a chunk, and of a version.
Chunk(h) == [k \in 1 .. lens[h] |-> <<h, k>>]
Content == FlattenSeq([c \in DOMAIN manifest |-> Chunk(manifest[c])])

DownloadInit ==
    /\ lens \in [Hash -> 0 .. MaxLen]
    /\ manifest \in SeqOf(Hash, MaxChunks)
    /\ \E x \in 0 .. MaxExtra : size = Len(Content) + x
    /\ present = Hash /\ known = {}
    /\ phase = "none" /\ route = "stream" /\ ask = [kind |-> "none"]
    /\ total = 0 /\ from = 0 /\ to = 0 /\ pos = 0 /\ next = 1 /\ length = 0 /\ sent = <<>>

None == <<>>

\* Mutant: the last byte is the one after it.
ParseRangeLate(r, n) ==
    CASE r.kind = "within" -> IF r.a > r.b \/ r.b >= n THEN None ELSE <<r.a, r.b>>
      [] r.kind = "from"   -> IF r.a >= n THEN None ELSE <<r.a, n>>
      [] r.kind = "last"   -> IF r.a = 0 \/ n = 0 THEN None ELSE <<IF r.a > n THEN 0 ELSE n - r.a, n - 1>>
      [] OTHER -> None

\* parse_range: "a-b", "a-" and "-a"; anything else is no range.
ParseRange(r, n) ==
    CASE r.kind = "within" -> IF r.a > r.b \/ r.b >= n THEN None ELSE <<r.a, r.b>>
      [] r.kind = "from"   -> IF r.a >= n THEN None ELSE <<r.a, n - 1>>
      [] r.kind = "last"   -> IF r.a = 0 \/ n = 0 THEN None ELSE <<IF r.a > n THEN 0 ELSE n - r.a, n - 1>>
      [] OTHER -> None

\* reponse_contenu: what the headers say, from the recorded size.
Respond(r) ==
    LET range == ParseRange(r, size)
        first == IF range = None THEN 0 ELSE range[1]
        last  == IF range # None THEN range[2] ELSE IF size = 0 THEN 0 ELSE size - 1
    IN  /\ phase = "none" /\ phase' = "body"
        /\ route' = "stream" /\ ask' = r
        /\ total' = size /\ from' = first /\ to' = last
        /\ length' = IF size = 0 THEN 0 ELSE last - first + 1
        /\ UNCHANGED <<version, present, known, pos, next, sent>>

\* preview, and servir_contenu for WebDAV.
Preview(r) == Respond(r)
ServirContenu(r) == Respond(r)

\* download: whatever range is asked for.
DownloadAll == Respond([kind |-> "none"])

\* serve_public_file, read_manifest: the whole of every chunk.
ServePublic ==
    /\ phase = "none" /\ phase' = "body"
    /\ route' = "whole" /\ ask' = [kind |-> "none"] /\ length' = size /\ total' = size
    /\ UNCHANGED <<version, present, known, from, to, pos, next, sent>>

Streaming == phase = "body" /\ route = "stream" /\ pos <= to /\ next <= Len(manifest)
h == manifest[next]
EndOfChunk == pos + lens[h]

\* chunk_plain_len: measured once, then remembered.
Measurable == h \in known \cup present

Advance(piece) ==
    /\ sent' = sent \o piece
    /\ pos' = EndOfChunk /\ next' = next + 1

\* corps_en_flux: a chunk before the range is measured, not read.
SkipChunk ==
    /\ Streaming /\ Measurable /\ EndOfChunk <= from
    /\ known' = known \cup {h} /\ Advance(<<>>)
    /\ UNCHANGED <<version, present, phase, request>>

\* corps_en_flux: the part of a chunk that is in the range.
Piece ==
    LET a == IF from > pos THEN from - pos ELSE 0
        b == (IF to + 1 < EndOfChunk THEN to + 1 ELSE EndOfChunk) - pos
    IN  SubSeq(Chunk(h), a + 1, b)

Send ==
    /\ Streaming /\ h \in present /\ EndOfChunk > from
    /\ known' = known \cup {h} /\ Advance(Piece)
    /\ UNCHANGED <<version, present, phase, request>>

\* The stream of serve_public_file, and read_manifest.
SendWhole ==
    /\ phase = "body" /\ route = "whole" /\ next <= Len(manifest) /\ h \in present
    /\ Advance(Chunk(h))
    /\ UNCHANGED <<version, present, known, phase, request>>

\* A chunk that cannot be measured or read cuts the body.
Cut ==
    /\ \/ Streaming /\ h \notin present /\ (h \notin known \/ EndOfChunk > from)
       \/ phase = "body" /\ route = "whole" /\ next <= Len(manifest) /\ h \notin present
    /\ phase' = "cut"
    /\ UNCHANGED <<version, present, known, request, pos, next, sent>>

EndBody ==
    /\ phase = "body"
    /\ next > Len(manifest) \/ (route = "stream" /\ pos > to)
    /\ phase' = "done"
    /\ UNCHANGED <<version, present, known, request, pos, next, sent>>

\* The version is purged meanwhile, and a chunk of it with it (VersionStore).
Lose(c) ==
    /\ c \in present /\ phase = "body"
    /\ present' = present \ {c}
    /\ UNCHANGED <<version, known, phase, request, pos, next, sent>>

\* A second request finds the lengths measured.
Again ==
    /\ phase \in {"done", "cut"} /\ phase' = "none"
    /\ route' = "stream" /\ ask' = [kind |-> "none"]
    /\ total' = 0 /\ from' = 0 /\ to' = 0 /\ pos' = 0 /\ next' = 1 /\ length' = 0 /\ sent' = <<>>
    /\ UNCHANGED <<version, present, known>>

DownloadNext ==
    \/ \E r \in Asks : Preview(r) \/ ServirContenu(r)
    \/ DownloadAll \/ ServePublic
    \/ SkipChunk \/ Send \/ SendWhole \/ Cut \/ EndBody
    \/ \E c \in Hash : Lose(c)
    \/ Again

DownloadSpec == DownloadInit /\ [][DownloadNext]_downloadVars

-----------------------------------------------------------------------------
(***************************************************************************)
(* Properties.                                                             *)
(***************************************************************************)
\* The positions a range names, and those that are answered: all of the version if
\* it names none, or some that are not there.
Positions == 0 .. Len(Content) - 1
Named ==
    CASE ask.kind = "within" -> ask.a .. ask.b
      [] ask.kind = "from"   -> {i \in Positions : i >= ask.a}
      [] ask.kind = "last"   -> {i \in Positions : \E S \in SUBSET Positions :
                                   S = {j \in Positions : j >= i} /\ Cardinality(S) <= ask.a}
      [] OTHER -> {}
Asked == IF Named = {} \/ ~(Named \subseteq Positions) THEN Positions ELSE Named

\* The bytes at some positions, in their order.
BytesAt(S) == [n \in 1 .. Cardinality(S) |->
                 Content[1 + CHOOSE i \in S : Cardinality({j \in S : j < i}) = n - 1]]

\* files.rs 703-825: a client gets the bytes it asked for, in order: what it was sent
\* so far begins them, and if the body was not cut it is all of them and as long as
\* its header said.  A recorded size that is not the content's is excepted.
SentIsAsked ==
    total = Len(Content) /\ phase # "none" =>
        /\ IsPrefix(sent, BytesAt(Asked))
        /\ phase = "done" => sent = BytesAt(Asked) /\ length = Len(sent)
=============================================================================
