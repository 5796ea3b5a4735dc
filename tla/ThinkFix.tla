------------------------------ MODULE ThinkFix ------------------------------
(***************************************************************************)
(* The repair of leaked reasoning markers (internal/thinkfix): the         *)
(* scanner that classifies a text stream, the rewriter of a streamed       *)
(* response (AnthropicSSERewriter) and the one of a whole response         *)
(* (RewriteAnthropicMessage).  A backend cuts its text into deltas         *)
(* anywhere, markers included.                                             *)
(*                                                                         *)
(* Text is a sequence of pieces.  The four tokens share the prefix "<|",   *)
(* and "<" occurs nowhere else in them: Lead is that prefix, Open, Close   *)
(* and Sep what follows it in each, Gt the ">" of the full separator, and  *)
(* Word anything else.  The backend keeps the protocol: blocks are         *)
(* numbered from 0, one is open at a time, and a delta has the type of its *)
(* block: text, thinking or tool input, besides the signatures and         *)
(* citations of a text or thinking block.                                  *)
(***************************************************************************)
EXTENDS Integers, Sequences, FiniteSets, SequencesExt

CONSTANTS Pieces,       \* the pieces a backend emits
          MaxBlocks,    \* bound: blocks of a response
          MaxPieces,    \* bound: pieces of a response
          MaxDelta      \* bound: pieces of one delta

ASSUME ThinkAssumption ==
  /\ Pieces \subseteq {"Lead", "Open", "Close", "Sep", "Gt", "Word"}
  /\ MaxBlocks \in Nat /\ MaxPieces \in Nat /\ MaxDelta \in Nat

thinkOpenMarker == <<"Lead", "Open">>
thinkCloseMarker == <<"Lead", "Close">>
sepBareToken == <<"Lead", "Sep">>
sepFullToken == <<"Lead", "Sep", "Gt">>
----------------------------------------------------------------------------
(* The scanner.  A classified piece is <<kind, piece>>.                    *)

Kind(inThink) == IF inThink THEN "thinking" ELSE "text"

NewScanner == [inThink |-> FALSE, pending |-> <<>>, flipped |-> FALSE, atStart |-> FALSE]

\* A new block redefines what is expected; what was held back is discarded.
Seed(sc, kind) ==
  [inThink |-> kind = "thinking", pending |-> <<>>, flipped |-> sc.flipped, atStart |-> TRUE]

marker(sc) == IF sc.inThink THEN thinkCloseMarker ELSE thinkOpenMarker

Drop(d, n) == SubSeq(d, n + 1, Len(d))

\* One separator is removed, in its longer rendering if it is there.
StripOne(d) ==
  CASE IsPrefix(sepFullToken, d) -> Drop(d, Len(sepFullToken))
    [] ~IsPrefix(sepFullToken, d) /\ IsPrefix(sepBareToken, d) -> Drop(d, Len(sepBareToken))
    [] OTHER -> d

\* All of them: there are fewer than pieces.
stripLeadingSeps(d) ==
  LET rest[k \in Nat] == IF k = 0 THEN d ELSE StripOne(rest[k - 1]) IN rest[Len(d)]

\* More input could extend what is left to a separator.
Undecided(rest) == IsPrefix(rest, sepBareToken)

\* Mutant: nothing is held back for a marker that may follow.
markerPrefixOverlap_Zero(data, m) == 0

\* The longest suffix of the data that is a proper prefix of the marker.
markerPrefixOverlap(data, m) ==
  CHOOSE k \in 0 .. Len(m) - 1 :
    /\ k <= Len(data) /\ Drop(data, Len(data) - k) = SubSeq(m, 1, k)
    /\ \A j \in k + 1 .. Len(m) - 1 :
         j > Len(data) \/ Drop(data, Len(data) - j) # SubSeq(m, 1, j)

Classified(sc, d) == [i \in DOMAIN d |-> <<Kind(sc.inThink), d[i]>>]

\* The first place where the marker is in the data, or none (0).
Index(data, m) ==
  LET at == {i \in 1 .. Len(data) : IsPrefix(m, Drop(data, i - 1))}
  IN  IF at = {} THEN 0 ELSE CHOOSE i \in at : \A j \in at : i <= j

AfterMarker(data, at, m) == Drop(data, at - 1 + Len(m))

\* One turn of the scanner's loop over the data: the start of a section is
\* decided or held, then the data is emitted up to the next marker.
Scan(t) ==
  LET sc == t.sc
      data == t.data
      rest == stripLeadingSeps(data)
      m == marker(sc)
      at == Index(data, m)
      keep == markerPrefixOverlap(data, m)
  IN  CASE data = <<>> -> t
        [] data # <<>> /\ sc.atStart /\ Undecided(rest) ->
             [sc |-> [sc EXCEPT !.pending = data], data |-> <<>>, segs |-> t.segs]
        [] data # <<>> /\ sc.atStart /\ ~Undecided(rest) ->
             [sc |-> [sc EXCEPT !.atStart = FALSE], data |-> rest, segs |-> t.segs]
        [] data # <<>> /\ ~sc.atStart /\ at = 0 ->
             [sc |-> [sc EXCEPT !.pending = Drop(data, Len(data) - keep)], data |-> <<>>,
              segs |-> t.segs \o Classified(sc, SubSeq(data, 1, Len(data) - keep))]
        [] data # <<>> /\ ~sc.atStart /\ at > 0 ->
             [sc |-> [inThink |-> ~sc.inThink, pending |-> sc.pending, flipped |-> TRUE, atStart |-> TRUE],
              data |-> AfterMarker(data, at, m),
              segs |-> t.segs \o Classified(sc, SubSeq(data, 1, at - 1))]

\* What is scanned: what was held back, and the chunk.
Joined(sc, chunk) ==
  [sc |-> [sc EXCEPT !.pending = <<>>], data |-> sc.pending \o chunk, segs |-> <<>>]

\* A marker is two pieces, so that this many turns are enough.
Feed(sc, chunk) ==
  LET t == Joined(sc, chunk)
      turn[k \in Nat] == IF k = 0 THEN t ELSE Scan(turn[k - 1])
  IN  turn[2 * Len(t.data) + 1]
----------------------------------------------------------------------------
\* More text for the last block.
Extend(blocks, text) ==
  [blocks EXCEPT ![Len(blocks)] = [kind |-> @.kind, text |-> @.text \o text]]

(* The client: it puts the events of a stream back together and notes      *)
(* whether they are well formed.                                           *)

NewClient == [blocks |-> <<>>, open |-> FALSE, ok |-> TRUE]

\* Blocks are numbered densely, and one is open at a time.
OnStart(c, idx, kind) ==
  [blocks |-> Append(c.blocks, [kind |-> kind, text |-> <<>>]), open |-> TRUE,
   ok |-> c.ok /\ ~c.open /\ idx = Len(c.blocks)]

Current(c, idx) == c.open /\ idx = Len(c.blocks) - 1

\* A delta is for the open block, and of its kind.
OnDelta(c, idx, kind, text) ==
  IF Current(c, idx)
    THEN [blocks |-> Extend(c.blocks, text), open |-> c.open,
          ok |-> c.ok /\ c.blocks[idx + 1].kind = kind]
    ELSE [c EXCEPT !.ok = FALSE]

OnStop(c, idx) == [blocks |-> c.blocks, open |-> FALSE, ok |-> c.ok /\ Current(c, idx)]
----------------------------------------------------------------------------
(* The rewriter of a stream.  Its state and the client's change together.  *)

NoBlock == [up |-> MaxBlocks]

NewRewriter == [rewriting |-> FALSE, rawKind |-> "", nextSynth |-> 0, cur |-> NoBlock, block |-> NoBlock]

VARIABLES sent,      \* the backend: the blocks of the response so far
          upOpen,    \* the last of them has not been stopped
          ended,     \* message_stop, or the stream was cut
          cut,       \* reading the backend failed
          stray,     \* indices of deltas sent while their block was not open
          scanner, rewriter, client

thinkVars == <<sent, upOpen, ended, cut, stray, scanner, rewriter, client>>

ThinkInit ==
  /\ sent = <<>> /\ upOpen = FALSE /\ ended = FALSE /\ cut = FALSE /\ stray = {}
  /\ scanner = NewScanner /\ rewriter = NewRewriter /\ client = NewClient

Scannable(kind) == kind \in {"text", "thinking"}

UpIndex == Len(sent) - 1

\* synthIdx of a block that has not started downstream.
NotStarted == -1

\* The next downstream index.
allocIdx(s) == s.rw.nextSynth + 1

closeCur(s) ==
  [rw |-> [s.rw EXCEPT !.cur = NoBlock], cl |-> OnStop(s.cl, s.rw.cur.idx)]

\* A downstream block of the wanted kind is the open one.
ensureOpen(s, kind) ==
  IF s.rw.cur # NoBlock /\ s.rw.cur.up = s.rw.block.up /\ s.rw.cur.kind = kind
    THEN s
    ELSE LET t == IF s.rw.cur # NoBlock THEN closeCur(s) ELSE s
             idx == t.rw.nextSynth
         IN  [rw |-> [rewriting |-> t.rw.rewriting, rawKind |-> t.rw.rawKind, nextSynth |-> allocIdx(t),
                      cur |-> [idx |-> idx, kind |-> kind, up |-> t.rw.block.up],
                      block |-> [t.rw.block EXCEPT !.synth = idx, !.started = TRUE]],
              cl |-> OnStart(t.cl, idx, kind)]

emitSegment(s, g) ==
  LET o == ensureOpen(s, g[1])
  IN  [rw |-> o.rw, cl |-> OnDelta(o.cl, o.rw.cur.idx, g[1], <<g[2]>>)]

emitSegments(s, segs) ==
  LET at[k \in 0 .. Len(segs)] == IF k = 0 THEN s ELSE emitSegment(at[k - 1], segs[k])
  IN  at[Len(segs)]

State == [rw |-> rewriter, cl |-> client]

Become(s) == rewriter' = s.rw /\ client' = s.cl

\* content_block_start: verbatim before the first marker; afterwards a tool
\* block gets a fresh index and a text or thinking one is deferred.
onBlockStart(kind) ==
  /\ ~upOpen /\ ~ended /\ Len(sent) < MaxBlocks
  /\ sent' = Append(sent, [kind |-> kind, text |-> <<>>]) /\ upOpen' = TRUE
  /\ scanner' = IF Scannable(kind) THEN Seed(scanner, kind) ELSE scanner
  /\ LET up == Len(sent)
         s == IF rewriter.cur # NoBlock THEN closeCur(State) ELSE State
         deferred == [up |-> up, kind |-> kind, synth |-> NotStarted, started |-> FALSE, other |-> FALSE]
         idx == s.rw.nextSynth
     IN  CASE ~rewriter.rewriting ->
                /\ rewriter' = [rewriter EXCEPT !.rawKind = IF Scannable(kind) THEN kind ELSE ""]
                /\ client' = OnStart(client, up, kind)
           [] rewriter.rewriting /\ Scannable(kind) ->
                Become([rw |-> [s.rw EXCEPT !.block = deferred], cl |-> s.cl])
           [] rewriter.rewriting /\ ~Scannable(kind) ->
                Become([rw |-> [rewriting |-> TRUE, rawKind |-> rewriter.rawKind, nextSynth |-> allocIdx(s),
                                cur |-> [idx |-> idx, kind |-> kind, up |-> up],
                                block |-> [up |-> up, kind |-> kind, synth |-> idx, started |-> TRUE, other |-> TRUE]],
                        cl |-> OnStart(s.cl, idx, kind)])
  /\ UNCHANGED ended

PiecesOf(text) == [i \in DOMAIN text |-> text[i][2]]

\* content_block_delta.  Before the first marker the delta goes out without
\* what the scanner holds back; the first marker turns the block that is
\* flowing into the current one and starts the rewriting.
onBlockDelta(chunk) ==
  /\ upOpen /\ ~ended
  /\ sent' = Extend(sent, chunk)
  /\ LET kind == sent[Len(sent)].kind
         fed == Feed(scanner, chunk)
         raw == rewriter.rawKind
         taken == [rw |-> [rewriting |-> TRUE, rawKind |-> raw, nextSynth |-> UpIndex + 1,
                           cur |-> [idx |-> UpIndex, kind |-> raw, up |-> UpIndex],
                           block |-> [up |-> UpIndex, kind |-> raw, synth |-> UpIndex,
                                      started |-> TRUE, other |-> FALSE]],
                   cl |-> client]
     IN  CASE ~Scannable(kind) ->
                /\ client' = OnDelta(client, IF rewriter.rewriting THEN rewriter.block.synth ELSE UpIndex,
                                     kind, chunk)
                /\ UNCHANGED <<scanner, rewriter>>
           [] Scannable(kind) /\ ~rewriter.rewriting /\ ~fed.sc.flipped ->
                /\ scanner' = fed.sc
                /\ client' = IF fed.segs = <<>> THEN client
                             ELSE OnDelta(client, UpIndex, kind, PiecesOf(fed.segs))
                /\ UNCHANGED rewriter
           [] Scannable(kind) /\ ~rewriter.rewriting /\ fed.sc.flipped ->
                scanner' = fed.sc /\ Become(emitSegments(taken, fed.segs))
           [] Scannable(kind) /\ rewriter.rewriting ->
                scanner' = fed.sc /\ Become(emitSegments(State, fed.segs))
  /\ UNCHANGED <<upOpen, ended>>

\* The other deltas of a text or thinking block: signatures and citations.  They
\* are not scanned, and get the downstream index of their block as it is.
onSignatureDelta ==
  /\ upOpen /\ ~ended /\ Scannable(sent[Len(sent)].kind)
  /\ LET idx == IF rewriter.rewriting THEN rewriter.block.synth ELSE UpIndex
     IN  stray' = IF Current(client, idx) THEN stray ELSE stray \cup {idx}
  /\ UNCHANGED <<sent, upOpen, ended, cut, scanner, rewriter, client>>

\* content_block_stop.  A deferred block that produced nothing becomes an
\* empty block of its kind.
onBlockStop ==
  /\ upOpen /\ ~ended /\ upOpen' = FALSE
  /\ LET s == [rw |-> [rewriter EXCEPT !.block = NoBlock], cl |-> client]
         idx == rewriter.nextSynth
     IN  CASE ~rewriter.rewriting -> client' = OnStop(client, UpIndex) /\ UNCHANGED rewriter
           [] rewriter.rewriting /\ rewriter.cur # NoBlock -> Become(closeCur(s))
           [] rewriter.rewriting /\ rewriter.cur = NoBlock /\ ~rewriter.block.started ->
                Become([rw |-> [s.rw EXCEPT !.nextSynth = allocIdx(s)],
                        cl |-> OnStop(OnStart(client, idx, rewriter.block.kind), idx)])
           [] rewriter.rewriting /\ rewriter.cur = NoBlock /\ rewriter.block.started -> Become(s)
  /\ UNCHANGED <<sent, ended, scanner>>

\* The end of the stream, by message_stop or by EOF: what is held back is dropped
\* and a block that the rewriter has open is closed.
finish ==
  /\ ~ended /\ ended' = TRUE
  /\ scanner' = [scanner EXCEPT !.pending = <<>>]
  /\ Become(IF rewriter.cur # NoBlock THEN closeCur(State) ELSE State)
  /\ UNCHANGED <<sent, upOpen>>

\* Any other error of a read is passed on as it is, and nothing is closed.
readFails ==
  /\ ~ended /\ cut' = TRUE
  /\ UNCHANGED <<sent, upOpen, ended, stray, scanner, rewriter, client>>

Deltas == UNION {[1 .. n -> Pieces] : n \in 1 .. MaxDelta}

PiecesSent == FoldLeft(LAMBDA n, b : n + Len(b.text), 0, sent)

ThinkNext ==
  /\ ~cut
  /\ \/ /\ \/ \E kind \in {"text", "thinking", "tool"} : onBlockStart(kind)
           \/ \E chunk \in Deltas : PiecesSent + Len(chunk) <= MaxPieces /\ onBlockDelta(chunk)
           \/ onBlockStop \/ finish
        /\ UNCHANGED <<cut, stray>>
     \/ onSignatureDelta \/ readFails

ThinkSpec == ThinkInit /\ [][ThinkNext]_thinkVars
----------------------------------------------------------------------------
(* The whole response at once: each block is split into runs of one kind.  *)

mergeSegment(bs, g) ==
  IF bs # <<>> /\ bs[Len(bs)].kind = g[1]
    THEN Extend(bs, <<g[2]>>)
    ELSE Append(bs, [kind |-> g[1], text |-> <<g[2]>>])

mergeSegments(segs) ==
  LET bs[k \in 0 .. Len(segs)] == IF k = 0 THEN <<>> ELSE mergeSegment(bs[k - 1], segs[k])
  IN  bs[Len(segs)]

\* One block of the response, with the scanner that has seen those before it.
RewriteBlock(s, b) ==
  LET fed == Feed(Seed(s.sc, b.kind), b.text)
  IN  CASE ~Scannable(b.kind) -> [s EXCEPT !.out = Append(@, b)]
        [] Scannable(b.kind) /\ ~fed.sc.flipped ->
             [sc |-> fed.sc, out |-> Append(s.out, [kind |-> b.kind, text |-> PiecesOf(fed.segs)])]
        [] Scannable(b.kind) /\ fed.sc.flipped ->
             [sc |-> fed.sc, out |-> s.out \o mergeSegments(fed.segs)]

Rewritten(content) ==
  LET s[k \in 0 .. Len(content)] ==
        IF k = 0 THEN [sc |-> NewScanner, out |-> <<>>] ELSE RewriteBlock(s[k - 1], content[k])
  IN  s[Len(content)]

RewriteAnthropicMessage(content) == Rewritten(content).out
----------------------------------------------------------------------------
(* Properties.                                                             *)

\* Downstream the stream keeps the protocol wherever markers fall and the
\* text is cut: dense indices, one open block at a time, deltas of the kind
\* of their block; a rewritten stream ends with every block closed, unless
\* reading the backend failed.  Signatures and citations go to the open block
\* too, except those that come, after the first marker, before any text of
\* their block: it has not started downstream, and they carry its index -1.
WellFormedDownstream ==
  /\ client.ok /\ (ended /\ rewriter.rewriting => ~client.open)
  /\ stray \subseteq {NotStarted}

NonEmpty(blocks) ==
  LET kept[k \in 0 .. Len(blocks)] ==
        IF k = 0 THEN <<>>
        ELSE kept[k - 1] \o (IF blocks[k].text = <<>> THEN <<>> ELSE <<blocks[k]>>)
  IN  kept[Len(blocks)]

\* A client of the stream ends up with the text and thinking that the whole
\* response would have given it, however the text was cut into deltas and
\* at every moment of the stream.
StreamAgreesWithMessage ==
  NonEmpty(client.blocks) = NonEmpty(RewriteAnthropicMessage(sent))

WordsOf(text) == Cardinality({i \in DOMAIN text : text[i] = "Word"})

Words(blocks) ==
  LET n[k \in 0 .. Len(blocks)] == IF k = 0 THEN 0 ELSE n[k - 1] + WordsOf(blocks[k].text)
  IN  n[Len(blocks)]

\* Only tokens and parts of tokens are ever dropped or held back: what is
\* no part of one has reached the client as soon as it was sent.
OrdinaryTextDelivered == Words(client.blocks) = Words(sent)

\* A repaired stream is well formed, says what the whole response would have
\* said, and holds ordinary text back at no moment, wherever the markers fall
\* and however the text is cut into deltas.
StreamRepaired ==
  WellFormedDownstream /\ StreamAgreesWithMessage /\ OrdinaryTextDelivered
=============================================================================
