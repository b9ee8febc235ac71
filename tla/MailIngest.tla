----------------------------- MODULE MailIngest -----------------------------
(***************************************************************************)
(* adapter/email: Ingest and IngestIncremental of the mbox and the maildir *)
(* adapter, with the goroutines they start and the reader of their         *)
(* channels.                                                               *)
(*                                                                         *)
(*   producer --base--> reader                 Ingest                      *)
(*   producer --base--> relay --out--> reader  IngestIncremental           *)
(*                                                                         *)
(* Each arrow is a message channel of size Capacity (100 in the code) and  *)
(* an error channel of size 1.  A source is a sequence of entries: a       *)
(* message newer than the checkpoint ("new"), one that is not ("old"), or  *)
(* something that yields no message ("bad": unparseable, hidden or a       *)
(* directory, and in a maildir also a file or a whole subtree that cannot  *)
(* be read, which the walk passes over without an error).  A message is    *)
(* named by its position in the source.                                    *)
(***************************************************************************)
EXTENDS Integers, Sequences, SequencesExt

CONSTANTS
  Modes,      \* the calls to explore: records [format, incremental]
  Capacity,   \* size of the message channels
  MaxEntries  \* bound on the length of a source

Kinds == {"new", "old", "bad"}
Mode == [format : {"mbox", "maildir"}, incremental : BOOLEAN]

ASSUME ModesAssumption == Modes \subseteq Mode
ASSUME CapacityAssumption == Capacity \in Nat \ {0}
ASSUME MaxEntriesAssumption == MaxEntries \in Nat

VARIABLES
  mode,      \* which adapter and which of its two calls
  source,    \* the entries
  next,      \* the producer's position in the source
  held,      \* held[g]: the messages goroutine g holds ready to send (0 or 1)
  at,        \* at[g]: where goroutine g is
  chan,      \* chan[c]: the messages in channel c
  errs,      \* errs[c]: the errors in the error channel beside c
  closed,    \* what is closed: <<c, "msg">> and <<c, "err">>, c's two channels
  ctx,       \* the context: "live", "canceled" or "deadline"
  got        \* the messages the reader has received

vars == <<mode, source, next, held, at, chan, errs, closed, ctx, got>>

Channel == {"base", "out"}
Goroutine == {"producer", "relay"}
Own(g) == IF g = "producer" THEN "base" ELSE "out"
Offered == IF mode.incremental THEN "out" ELSE "base"   \* returned to the caller
Position == 1..MaxEntries

TypeOK ==
  /\ mode \in Modes
  /\ source \in SeqOf(Kinds, MaxEntries)
  /\ next \in 1..(MaxEntries + 1)
  /\ held \in [Goroutine -> SeqOf(Position, 1)]
  /\ at \in [Goroutine \cup {"reader"} ->
               {"read", "send", "final", "errors", "closing", "closed", "ok", "failed"}]
  /\ chan \in [Channel -> SeqOf(Position, Capacity)]
  /\ errs \in [Channel -> SeqOf({"ctx", "io"}, 1)]
  /\ closed \subseteq Channel \X {"msg", "err"}
  /\ ctx \in {"live", "canceled", "deadline"}
  /\ got \in SeqOf(Position, MaxEntries)
-----------------------------------------------------------------------------
Init ==
  /\ mode \in Modes
  /\ source \in SeqOf(Kinds, MaxEntries)
  /\ next = 1
  /\ held = [g \in Goroutine |-> <<>>]
  /\ at = [g \in Goroutine \cup {"reader"} |->
             IF g = "relay" /\ ~mode.incremental THEN "closed" ELSE "read"]
  /\ chan = [c \in Channel |-> <<>>]
  /\ errs = [c \in Channel |-> <<>>]
  /\ closed = {}
  /\ ctx = "live"
  /\ got = <<>>

Go(g, place) == at' = [at EXCEPT ![g] = place]

\* Fault: the send has a default branch, so a full buffer drops the message.
PushOrDrop(g) ==
  /\ chan' = IF Len(chan[Own(g)]) < Capacity
             THEN [chan EXCEPT ![Own(g)] = @ \o held[g]] ELSE chan
  /\ held' = [held EXCEPT ![g] = <<>>]

\* Put what g holds into its channel; g must find room.
Push(g) ==
  /\ Len(chan[Own(g)]) < Capacity
  /\ chan' = [chan EXCEPT ![Own(g)] = @ \o held[g]]
  /\ held' = [held EXCEPT ![g] = <<>>]

\* Send an error and leave: g's deferred closes follow.
Abort(g, e) ==
  /\ Len(errs[Own(g)]) < 1
  /\ errs' = [errs EXCEPT ![Own(g)] = Append(@, e)]
  /\ held' = [held EXCEPT ![g] = <<>>]
  /\ Go(g, "closing")
  /\ UNCHANGED <<mode, source, next, chan, closed, ctx, got>>

Leave(g) ==
  /\ held' = [held EXCEPT ![g] = <<>>]
  /\ Go(g, "closing")
  /\ UNCHANGED <<mode, source, next, chan, errs, closed, ctx, got>>
-----------------------------------------------------------------------------
(***************************************************************************)
(* The producer.  Both adapters look at the context before every entry.    *)
(* The mbox adapter sends a message when it meets the next separator, in a *)
(* select with the context; the last message of the file is sent at end of *)
(* file, without one ("final").  The maildir walk always selects.          *)
(***************************************************************************)
\* Fault: the maildir adapter too sends its last message outside a select.
AnySendsAtEnd == next = Len(source)

SendsAtEnd == mode.format = "mbox" /\ next = Len(source)

ReadMessage ==
  /\ at["producer"] = "read"
  /\ ctx = "live"
  /\ next <= Len(source)
  /\ source[next] # "bad"
  /\ held' = [held EXCEPT !["producer"] = <<next>>]
  /\ next' = next + 1
  /\ Go("producer", IF SendsAtEnd THEN "final" ELSE "send")
  /\ UNCHANGED <<mode, source, chan, errs, closed, ctx, got>>

SkipEntry ==
  /\ at["producer"] = "read"
  /\ ctx = "live"
  /\ next <= Len(source)
  /\ source[next] = "bad"
  /\ next' = next + 1
  /\ UNCHANGED <<mode, source, held, at, chan, errs, closed, ctx, got>>

\* The maildir walk does not look at the context after its last entry.
EndOfSource ==
  /\ at["producer"] = "read"
  /\ ctx = "live" \/ mode.format = "maildir"
  /\ next > Len(source)
  /\ Leave("producer")

ReadError ==
  /\ at["producer"] = "read"
  /\ mode.format = "mbox"
  /\ Abort("producer", "io")

ProducerSend ==
  /\ at["producer"] \in {"send", "final"}
  /\ Push("producer")
  /\ Go("producer", IF at["producer"] = "final" THEN "closing" ELSE "read")
  /\ UNCHANGED <<mode, source, next, errs, closed, ctx, got>>

\* Fault: no adapter reports a cancelled context.
SilentCtx == Leave("producer")

\* A cancelled maildir walk ends without an error; a deadline is reported.
CtxError == IF mode.format = "maildir" /\ ctx = "canceled"
            THEN Leave("producer")
            ELSE Abort("producer", "ctx")

ProducerCancelled ==
  /\ at["producer"] \in {"read", "send"}
  /\ ctx # "live"
  /\ CtxError
-----------------------------------------------------------------------------
(***************************************************************************)
(* The relay of IngestIncremental: it drops what is not newer than the     *)
(* checkpoint and passes the rest on; when the base channel is closed it   *)
(* forwards the base errors.                                               *)
(***************************************************************************)
NewerThanCheckpoint(m) == source[m] = "new"

RelayReceive ==
  /\ at["relay"] = "read"
  /\ chan["base"] # <<>>
  /\ chan' = [chan EXCEPT !["base"] = Tail(@)]
  /\ IF NewerThanCheckpoint(Head(chan["base"]))
     THEN /\ held' = [held EXCEPT !["relay"] = <<Head(chan["base"])>>]
          /\ Go("relay", "send")
     ELSE UNCHANGED <<held, at>>
  /\ UNCHANGED <<mode, source, next, errs, closed, ctx, got>>

RelaySend ==
  /\ at["relay"] = "send"
  /\ Push("relay")
  /\ Go("relay", "read")
  /\ UNCHANGED <<mode, source, next, errs, closed, ctx, got>>

RelayCancelled ==
  /\ at["relay"] = "send"
  /\ ctx # "live"
  /\ Abort("relay", "ctx")

RelayBaseClosed ==
  /\ at["relay"] = "read"
  /\ chan["base"] = <<>>
  /\ <<"base", "msg">> \in closed
  /\ Go("relay", "errors")
  /\ UNCHANGED <<mode, source, next, held, chan, errs, closed, ctx, got>>

RelayForwardError ==
  /\ at["relay"] = "errors"
  /\ errs["base"] # <<>>
  /\ Len(errs["out"]) < 1
  /\ errs' = [errs EXCEPT !["base"] = Tail(@), !["out"] = Append(@, Head(errs["base"]))]
  /\ UNCHANGED <<mode, source, next, held, at, chan, closed, ctx, got>>

RelayFinish ==
  /\ at["relay"] = "errors"
  /\ errs["base"] = <<>>
  /\ <<"base", "err">> \in closed
  /\ Leave("relay")
-----------------------------------------------------------------------------
\* Deferred calls run last-in first-out: the error channel closes first.
CloseErrors(g) ==
  /\ at[g] = "closing"
  /\ <<Own(g), "err">> \notin closed
  /\ closed' = closed \cup {<<Own(g), "err">>}
  /\ UNCHANGED <<mode, source, next, held, at, chan, errs, ctx, got>>

CloseMessages(g) ==
  /\ at[g] = "closing"
  /\ <<Own(g), "err">> \in closed
  /\ closed' = closed \cup {<<Own(g), "msg">>}
  /\ Go(g, "closed")
  /\ UNCHANGED <<mode, source, next, held, chan, errs, ctx, got>>
-----------------------------------------------------------------------------
(***************************************************************************)
(* The reader: range over the messages, then range over the errors; the    *)
(* first error ends the command.                                           *)
(***************************************************************************)
ReadNext ==
  /\ at["reader"] = "read"
  /\ chan[Offered] # <<>>
  /\ got' = Append(got, Head(chan[Offered]))
  /\ chan' = [chan EXCEPT ![Offered] = Tail(@)]
  /\ UNCHANGED <<mode, source, next, held, at, errs, closed, ctx>>

ReadClosed ==
  /\ at["reader"] = "read"
  /\ chan[Offered] = <<>>
  /\ <<Offered, "msg">> \in closed
  /\ Go("reader", "errors")
  /\ UNCHANGED <<mode, source, next, held, chan, errs, closed, ctx, got>>

SeeError ==
  /\ at["reader"] = "errors"
  /\ errs[Offered] # <<>>
  /\ errs' = [errs EXCEPT ![Offered] = Tail(@)]
  /\ Go("reader", "failed")
  /\ UNCHANGED <<mode, source, next, held, chan, closed, ctx, got>>

SeeNoError ==
  /\ at["reader"] = "errors"
  /\ errs[Offered] = <<>>
  /\ <<Offered, "err">> \in closed
  /\ Go("reader", "ok")
  /\ UNCHANGED <<mode, source, next, held, chan, errs, closed, ctx, got>>

\* The caller's context ends, for one of two reasons, at any moment.
Cancel ==
  /\ ctx = "live"
  /\ ctx' \in {"canceled", "deadline"}
  /\ UNCHANGED <<mode, source, next, held, at, chan, errs, closed, got>>
-----------------------------------------------------------------------------
Producer == \/ ReadMessage \/ SkipEntry \/ EndOfSource \/ ProducerSend
            \/ ProducerCancelled
            \/ CloseErrors("producer") \/ CloseMessages("producer")

Relay == \/ RelayReceive \/ RelaySend \/ RelayCancelled \/ RelayBaseClosed
         \/ RelayForwardError \/ RelayFinish
         \/ CloseErrors("relay") \/ CloseMessages("relay")

Reader == ReadNext \/ ReadClosed \/ SeeError \/ SeeNoError

Next == Producer \/ Relay \/ Reader \/ ReadError \/ Cancel

\* Go runs every goroutine that can proceed.  Nobody has to cancel, and no
\* read has to fail.
Fairness == WF_vars(Producer) /\ WF_vars(Relay) /\ WF_vars(Reader)

Spec == Init /\ [][Next]_vars /\ Fairness
-----------------------------------------------------------------------------
\* The messages a reader of this call should see, in order: those among
\* the first n entries, and those of the whole source.
IsWanted(m) == NewerThanCheckpoint(m) \/ (source[m] = "old" /\ ~mode.incremental)

WantedUpTo[n \in 0..Len(source)] ==
  IF n = 0 THEN <<>>
  ELSE IF IsWanted(n) THEN Append(WantedUpTo[n - 1], n) ELSE WantedUpTo[n - 1]

Wanted == WantedUpTo[Len(source)]

\* A maildir walk that was cancelled: the one early end without an error,
\* of the entries the walk can read.
Excused == mode.format = "maildir" /\ ctx = "canceled"

InOrder(s) == \A i, j \in 1..Len(s) : i < j => s[i] < s[j]

\* All messages under way, from the reader's hands back to the producer's.
Line == got \o (chan["out"] \o (held["relay"] \o (chan["base"] \o held["producer"])))

(***************************************************************************)
(* Always, the messages under way are in source order and none of them is  *)
(* there twice, and none that the reader should not see is past the relay. *)
(* While the context lives and no read failed, moreover, every wanted      *)
(* message read so far is among them: nothing is lost between goroutines.  *)
(***************************************************************************)
NothingLostInFlight ==
  LET undisturbed == /\ ctx = "live"
                     /\ "io" \notin ToSet(errs["base"] \o errs["out"])
                     /\ at["reader"] # "failed"
  IN  /\ TypeOK
      /\ InOrder(Line)
      /\ \A m \in ToSet(Line) : m < next
      /\ \A m \in ToSet(got \o chan["out"]) : IsWanted(m)
      /\ undisturbed => \A m \in 1..(next - 1) : IsWanted(m) => m \in ToSet(Line)

(***************************************************************************)
(* The reader sees the wanted messages in order, and its stream ends: with *)
(* an error, or with every message that can be read delivered.  Of what    *)
(* the walk visits, only a cancelled maildir walk may leave something out  *)
(* without an error.                                                       *)
(***************************************************************************)
Outcome == IF at["reader"] \in {"ok", "failed"} THEN at["reader"] ELSE "open"

Stream == INSTANCE MessageStream WITH
  wanted <- Wanted, delivered <- got, outcome <- Outcome, excused <- Excused

DeliversStream == Stream!Spec

(***************************************************************************)
(* A reader that drains both channels leaves no goroutine behind, except   *)
(* in the one case BaseChannelCloses is about.                             *)
(***************************************************************************)
CancelledRelay == mode.format = "mbox" /\ mode.incremental /\ ctx # "live"

GoroutinesEnd ==
  <>(CancelledRelay \/ \A g \in Goroutine : at[g] = "closed")

(***************************************************************************)
(* "The channel is closed when ingestion completes or an error occurs"     *)
(* (adapter/adapter.go:17), of the channel Ingest returns to the relay.    *)
(***************************************************************************)
BaseChannelCloses == <>(<<"base", "msg">> \in closed)
=============================================================================
