------------------------------ MODULE Framing ------------------------------
(***************************************************************************)
(* When has the server read a whole request, and what does it take the     *)
(* request to be?  The request buffer _req of a WebserverProcess is a      *)
(* sequence of tokens: the pieces of text the framing code searches for.   *)
(*                                                                         *)
(*   "line"     a start line with a known method and version               *)
(*   "badline"  a start line the parser rejects                            *)
(*   "mute"     a start line whose method is unknown to the parser and yet *)
(*              listed in the configured allowed_methods                   *)
(*   "cl"       a line "Content-Length: n" with n = len                    *)
(*   "te"       a line "Transfer-Encoding: chunked"                        *)
(*   "eoh"      the empty line that ends the header                        *)
(*   "eoz"      the same, after a header line whose last character is '0'  *)
(*   "data"     a piece of plain body                                      *)
(*   "chunk"    one chunk of a chunked body                                *)
(*   "last"     the last chunk, "0\r\n\r\n"                                *)
(*                                                                         *)
(* A token is one unit long.  "from" and "no" are history: the connection  *)
(* that sent it and the number of the request it belongs to.               *)
(***************************************************************************)
EXTENDS Integers, Sequences, FiniteSets, SequencesExt

CONSTANT Clients      \* the connections clients open

Kinds == {"line", "badline", "mute", "cl", "te", "eoh", "eoz",
          "data", "chunk", "last"}
Token == [from : Clients, no : Nat, kind : Kinds, len : Nat]

\* _req.find(text): the first token of one of these kinds, 0 if there is none.
FirstOf(req, kinds) ==
    SelectInSeq(req, LAMBDA t : t.kind \in kinds)

\* Where "\r\n\r\n" first occurs in a request; "0\r\n\r\n" contains it too.
HeaderEnd(req) == FirstOf(req, {"eoh", "eoz", "last"})

\* Mutant: the terminator's length is counted one short.
IsFinalChunkedShort(req) ==
    LET at == FirstOf(req, {"eoz", "last"})
    IN  at # 0 /\ at = Len(req) - 1

\* The first "0\r\n\r\n", wherever it is, has to be the end of the buffer.
IsFinalChunked(req) ==
    LET at == FirstOf(req, {"eoz", "last"})
    IN  at # 0 /\ at = Len(req)

\* Mutant: the body announced by Content-Length is not waited for.
CompleteAtHeader(req, hidx) ==
    LET te == FirstOf(req, {"te"})
    IN  hidx # 0 /\ (te # 0 => IsFinalChunked(req))

\* The decision of readRequest: hidx is _header_index, 0 for "not found".
\* Content-Length, found anywhere in the buffer, overrides chunked coding.
Complete(req, hidx) ==
    LET cl == FirstOf(req, {"cl"})
        te == FirstOf(req, {"te"})
    IN  /\ hidx # 0
        /\ cl # 0 => Len(req) >= req[cl].len + hidx
        /\ cl = 0 /\ te # 0 => IsFinalChunked(req)

\* process() decodes only when the chunked header stands before the first
\* empty line.
Chunked(req) ==
    LET te == FirstOf(req, {"te"}) IN te # 0 /\ te < HeaderEnd(req)

\* The chunks decodeChunk walks through: those right after the header.
ChunkCount(req) ==
    LET rest == SubSeq(req, HeaderEnd(req) + 1, Len(req))
        stop == SelectInSeq(rest, LAMBDA t : t.kind # "chunk")
    IN  IF stop = 0 THEN Len(rest) ELSE stop - 1

\* What decodeChunk leaves in _req: the header and the chunks' data.  The two
\* empty lines it appends are stripped again by parseBody and left out.
Decoded(req) ==
    LET h == HeaderEnd(req)
        n == ChunkCount(req)
    IN  [i \in 1 .. h + n |->
            IF i <= h THEN req[i] ELSE [req[i] EXCEPT !.kind = "data"]]

\* The request parseProcess is given.
Effective(req) == IF Chunked(req) THEN Decoded(req) ELSE req

\* The walk of decodeChunk meets text that is neither a chunk nor the last
\* chunk: strtol may read a size from it, and substr then throws out_of_range.
Garbled(req) ==
    LET stop == HeaderEnd(req) + ChunkCount(req) + 1
    IN  Chunked(req) /\ stop \in 1 .. Len(req) /\ req[stop].kind # "last"
=============================================================================
