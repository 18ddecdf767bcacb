--------------------------- MODULE MemcachedSession ---------------------------
(***************************************************************************)
(* The Memcached handler (simulation/memcached.rs of the engine), the one  *)
(* handler that frames its own lines: TCP hands over what the client sends *)
(* in pieces that have nothing to do with its commands.                    *)
(*                                                                         *)
(* What the client sends is a sequence of blanks ("_"), other characters   *)
(* ("c") and line ends ("n").                                              *)
(***************************************************************************)
EXTENDS Connection, FiniteSets

CONSTANTS
  MaxRequestSize,  \* of the unanswered rest of the stream (4096)
  ChunkSize,       \* most that one read returns (512)
  MaxCommands      \* commands of one connection (32)

ASSUME MemcachedAssumption ==
  /\ MaxRequestSize \in Nat /\ ChunkSize \in Nat \ {0} /\ ChunkSize <= MaxRequestSize
  /\ MaxCommands \in Nat \ {0}

Characters == {"_", "c", "n"}

\* `sent' is history: all that was read from the client.
MemcachedSession == [pending : Seq(Characters), commands : 0..MaxCommands, sent : Seq(Characters)]
MemcachedNew     == [pending |-> <<>>, commands |-> 0, sent |-> <<>>]

\* Position of the first line end of s, which has one.
LineEnd(s) == CHOOSE i \in DOMAIN s : s[i] = "n" /\ \A j \in 1..(i - 1) : s[j] # "n"

HasLine(s) == \E i \in DOMAIN s : s[i] = "n"

\* A line that holds more than blanks is a command.
IsCommand(line) == \E i \in DOMAIN line : line[i] = "c"

-----------------------------------------------------------------------------
\* More of the stream arrives, and may be too much with what is left.
MemcachedRead ==
  /\ Takes("memcached", "request")
  /\ \E n \in 1..ChunkSize : \E chunk \in [1..n -> Characters] :
       LET s == [session EXCEPT !.pending = @ \o chunk, !.sent = @ \o chunk] IN
       Silent(IF Len(s.pending) > MaxRequestSize THEN "closed" ELSE "lines", s, "none")
  /\ Unchecked

AtLines == rule.protocol = "memcached" /\ at = "lines" /\ TakesNothing

\* Mutant: what follows a line in the same piece is dropped.
MemcachedLineAlone ==
  /\ AtLines /\ HasLine(session.pending)
  /\ LET line == SubSeq(session.pending, 1, LineEnd(session.pending))
         rest == [session EXCEPT !.pending = <<>>]
         n    == session.commands + 1
     IN \/ ~IsCommand(line) /\ Silent("lines", rest, "none")
        \/ /\ IsCommand(line)
           /\ Answers(IF n >= MaxCommands THEN "closed" ELSE "lines",
                      [rest EXCEPT !.commands = n], Say("reply"), "after")
  /\ Unchecked

\* The lines at hand, one by one: each is taken off, and answered if it is a
\* command.
MemcachedLine ==
  /\ AtLines /\ HasLine(session.pending)
  /\ LET end  == LineEnd(session.pending)
         line == SubSeq(session.pending, 1, end)
         rest == [session EXCEPT !.pending = SubSeq(@, end + 1, Len(@))]
         n    == session.commands + 1
     IN \/ ~IsCommand(line) /\ Silent("lines", rest, "none")
        \/ /\ IsCommand(line)
           /\ Answers(IF n >= MaxCommands THEN "closed" ELSE "lines",
                      [rest EXCEPT !.commands = n], Say("reply"), "after")
  /\ Unchecked

MemcachedDone ==
  /\ AtLines /\ ~HasLine(session.pending)
  /\ Silent("request", session, "none")
  /\ Unchecked

MemcachedNext == MemcachedRead \/ MemcachedLine \/ MemcachedDone

-----------------------------------------------------------------------------
\* The commands of a stream, whatever the pieces it came in: the line ends
\* with a character since the line end before.
CommandEnds(s) ==
  {i \in DOMAIN s : /\ s[i] = "n"
                    /\ \E j \in 1..(i - 1) : s[j] = "c" /\ \A k \in j..(i - 1) : s[k] # "n"}
=============================================================================
