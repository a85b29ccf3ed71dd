------------------------------- MODULE LspFraming -------------------------------
(***************************************************************************)
(* What becomes of LSP messages between the CLI and the language server.    *)
(* Upward the gateway rewrites the URIs of each message and frames it anew  *)
(* before it writes it to the TCP connection; downward LspResponseBuffer    *)
(* cuts the byte stream into messages again.  TCP delivers the bytes in     *)
(* order and in pieces of any size.                                         *)
(*                                                                          *)
(* A string is a sequence of characters: the few kinds below, a header line *)
(* and the blank line after it.  A Buffer is a sequence of octets; an octet *)
(* is a character together with its place in the character's UTF-8 form.    *)
(***************************************************************************)
EXTENDS Naturals, FiniteSets, SequencesExt

CONSTANTS
  MaxLength,   \* characters of a message body: a bound
  MaxMessages  \* messages of a connection: a bound

ASSUME BoundsAssumption == MaxLength \in Nat \ {0} /\ MaxMessages \in Nat \ {0}

VARIABLES
  direction, \* "up" or "down": the two share nothing
  written,   \* the bodies the sender has sent, in order
  wire,      \* octets TCP has not delivered yet
  buffer,    \* octets the reader holds
  received,  \* the messages handed on, as Buffers
  threw      \* the reader found no Content-Length

vars == <<direction, written, wire, buffer, received, threw>>

--------------------------------------------------------------------------------
(* Strings and Buffers *)

\* "wide" is a character outside ASCII, "client" a URI under file:///workspace
\* and "server" the longer one under file:///lsp-files/<session>.  "broken" is
\* what a decoder makes of octets that are no character.
Kinds == [up |-> {"plain", "wide", "client"}, down |-> {"plain", "wide", "server"}]
Text  == {"plain", "wide", "client", "server"}
Piece == [kind : Text \cup {"Content-Length", "blank", "broken"}, n : Nat, part : 1 .. 2]

Char(kind)    == [kind |-> kind, n |-> 0, part |-> 1]
HeaderLine(n) == [kind |-> "Content-Length", n |-> n, part |-> 1]
BlankLine     == Char("blank")
Character     == {c \in Piece : c.part = 1}

\* Length in UTF-16 code units and in octets of UTF-8.
Units(kind)  == IF kind = "server" THEN 2 ELSE 1
Octets(kind) == IF kind \in {"server", "wide"} THEN 2 ELSE 1
Parts(c, length) == [k \in 1 .. length |-> [c EXCEPT !.part = k]]

Utf16(string)   == FlattenSeq([i \in DOMAIN string |-> Parts(string[i], Units(string[i].kind))])
Encode(string)  == FlattenSeq([i \in DOMAIN string |-> Parts(string[i], Octets(string[i].kind))])
UnitsOf(string) == Len(Utf16(string))

\* The character that the last octet is of, if all its octets are there.
Decode[octets \in Seq(Piece)] ==
  IF octets = <<>> THEN <<>>
  ELSE LET c == [Last(octets) EXCEPT !.part = 1]
           k == Len(octets) - Octets(c.kind)
       IN IF k >= 0 /\ octets = SubSeq(octets, 1, k) \o Parts(c, Octets(c.kind))
          THEN Append(Decode[SubSeq(octets, 1, k)], c)
          ELSE Append(Decode[Front(octets)], Char("broken"))

Bodies ==
  UNION {[1 .. n -> {Char(kind) : kind \in Kinds[direction]}] : n \in 1 .. MaxLength}

--------------------------------------------------------------------------------
(* The senders *)

\* lsp_message.dart and both transform methods count UTF-16 code units; the
\* language server counts octets.
Frame(content)       == <<HeaderLine(UnitsOf(content)), BlankLine>> \o content
ServerFrame(content) == <<HeaderLine(Len(Encode(content))), BlankLine>> \o content

Separator(string) == SelectInSeq(string, LAMBDA c : c.kind = "blank")
Content(string)   == SubSeq(string, Separator(string) + 1, Len(string))

Replace(content, from, to) ==
  [i \in DOMAIN content |-> IF content[i].kind = from THEN Char(to) ELSE content[i]]
TransformUris(content)         == Replace(content, "client", "server")
TransformResponseUris(content) == Replace(content, "server", "client")

\* Mutant of TransformMessage: the header of the client is kept.
TransformContentOnly(string) ==
  SubSeq(string, 1, Separator(string)) \o TransformUris(Content(string))

\* The header is rebuilt.  A CLI sends nothing the method would return as it is.
TransformMessage(string) == Frame(TransformUris(Content(string)))

\* A Buffer has indexOf but no substring: the TypeError is caught and the Buffer
\* is returned.  Only a string is transformed.
TransformResponseMessage(message) ==
  IF message.type = "Buffer" THEN message
  ELSE [message EXCEPT !.data = Frame(TransformResponseUris(Content(message.data)))]

--------------------------------------------------------------------------------
(* The readers *)

HasHeader(octets) == Separator(octets) > 0

\* Mutant of FrameLength: the body starts at the blank line.
FrameLengthShort(octets) == Separator(octets) + octets[1].n - 1

\* bodyStart + contentLength: the number counts octets, whatever the sender counted.
FrameLength(octets) == Separator(octets) + octets[1].n

\* No line of the header is a Content-Length: "header not found".
Throws(octets) == HasHeader(octets) /\ octets[1].kind # "Content-Length"

Complete(octets) ==
  /\ HasHeader(octets)
  /\ ~Throws(octets)
  /\ FrameLength(octets) <= Len(octets)

\* Mutant of OnData: one message at most per chunk.
OnDataOnce(octets) ==
  IF Complete(octets)
  THEN [messages |-> <<SubSeq(octets, 1, FrameLength(octets))>>, threw |-> FALSE,
        rest |-> SubSeq(octets, FrameLength(octets) + 1, Len(octets))]
  ELSE [messages |-> <<>>, rest |-> octets, threw |-> Throws(octets)]

\* The loop of onData: what it emits, what it leaves in the buffer.
Loop[octets \in Seq(Piece)] ==
  IF Complete(octets)
  THEN LET next == Loop[SubSeq(octets, FrameLength(octets) + 1, Len(octets))] IN
         [next EXCEPT !.messages = <<SubSeq(octets, 1, FrameLength(octets))>> \o @]
  ELSE [messages |-> <<>>, rest |-> octets, threw |-> Throws(octets)]

\* What was buffered and the new chunk.
OnData(octets) == Loop[octets]

\* The CLI and the language server parse what follows the blank line.
Delivered(message) ==
  Content(Decode[IF direction = "up" THEN message
                 ELSE TransformResponseMessage([type |-> "Buffer", data |-> message]).data])

--------------------------------------------------------------------------------
(* Specification *)

\* What is read downward starts at a header whenever a message has been cut off.
TypeOK ==
  /\ direction \in {"up", "down"}
  /\ written \in Seq(Bodies) /\ Len(written) <= MaxMessages
  /\ wire \in Seq(Piece) /\ buffer \in Seq(Piece)
  /\ received \in Seq(Seq(Character))
  /\ direction = "down" /\ buffer # <<>> => buffer[1].kind = "Content-Length"
  /\ threw \in BOOLEAN

Init ==
  /\ direction \in {"up", "down"}
  /\ written = <<>>
  /\ wire = <<>>
  /\ buffer = <<>>
  /\ received = <<>>
  /\ threw = FALSE

\* What the reader of the TCP connection is sent.
Packet(body) ==
  Encode(IF direction = "up" THEN TransformMessage(Frame(body)) ELSE ServerFrame(body))

Write(body) ==
  /\ Len(written) < MaxMessages
  /\ written' = Append(written, body)
  /\ wire' = wire \o Packet(body)
  /\ UNCHANGED <<direction, buffer, received, threw>>

Read(n) ==
  /\ ~threw
  /\ LET result == OnData(buffer \o SubSeq(wire, 1, n)) IN
       /\ buffer' = result.rest
       /\ received' = received \o [i \in DOMAIN result.messages |->
                                     Delivered(result.messages[i])]
       /\ threw' = result.threw
  /\ wire' = SubSeq(wire, n + 1, Len(wire))
  /\ UNCHANGED <<direction, written>>

\* Mutant of Reconnect: the next connection goes on with the old buffer.
ReconnectKeepsBuffer ==
  /\ written' = <<>>
  /\ wire' = <<>>
  /\ received' = <<>>
  /\ threw' = FALSE
  /\ UNCHANGED <<direction, buffer>>

\* The connection is lost with what is in flight; each connection has a reader
\* of its own.
Reconnect ==
  /\ written' = <<>>
  /\ wire' = <<>>
  /\ buffer' = <<>>
  /\ received' = <<>>
  /\ threw' = FALSE
  /\ UNCHANGED direction

Next ==
  \/ \E body \in Bodies : Write(body)
  \/ \E n \in 1 .. Len(wire) : Read(n)
  \/ Reconnect

Spec == Init /\ [][Next]_vars

--------------------------------------------------------------------------------
(* Safety *)

ClientUris(bodies) == [i \in DOMAIN bodies |-> TransformResponseUris(bodies[i])]

\* However TCP cuts the stream, and wherever an earlier connection broke off, the
\* client gets the responses of the language server whole and in order, whichever
\* form their URIs have, and onData never throws in the data handler of the socket.
ResponsesIntact ==
  direction = "down" => ~threw /\ IsPrefix(ClientUris(received), ClientUris(written))

\* What the client gets has the URIs of its own workspace: "Transforms container
\* URIs back to client URIs (for responses)" (lsp-uri-transformer.ts).
ResponsesTransformed == direction = "down" => IsPrefix(received, ClientUris(written))

\* What has been sent of the first k messages, and how much of it has arrived.
Stream(k) == FlattenSeq([i \in 1 .. k |-> Packet(written[i])])
Arrived   == Len(Stream(Len(written))) - Len(wire)

\* No response waits in the buffer once its last octet is there, and none is
\* handed on before.
ResponsesPrompt ==
  direction = "down" =>
    \A k \in DOMAIN written : k <= Len(received) <=> Len(Stream(k)) <= Arrived

AllAscii(k) ==
  \A i \in 1 .. k : i \in DOMAIN written =>
    \A c \in DOMAIN written[i] : written[i][c].kind # "wide"

\* As long as messages are ASCII, the language server gets each with its URIs
\* rewritten, although the rewriting changes its length.
AsciiRequestsIntact ==
  direction = "up" =>
    \A i \in DOMAIN received :
      AllAscii(i) => i \in DOMAIN written /\ received[i] = TransformUris(written[i])

\* Every message is framed anew so that the server can read it: "Rebuild LSP
\* message with new Content-Length" (lsp-uri-transformer.ts).
RequestsIntact ==
  direction = "up" =>
    /\ ~threw
    /\ IsPrefix(received, [i \in DOMAIN written |-> TransformUris(written[i])])
================================================================================
