---------------------------- MODULE MCPipeServer ----------------------------
(* Messages shorter than the buffer, as long, longer, and of no bytes.     *)
EXTENDS PipeServer

CONSTANT MaxLength

ShortMessages == UNION {[1..n -> Letters \cup {Nul}] : n \in 0..MaxLength}

(* No byte that the client sends stays in the pipe.                        *)
Drained == \A n \in 1..(MaxSent * MaxLength) : ReadInTheEnd(n)
=============================================================================
