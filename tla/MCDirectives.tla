---------------------------- MODULE MCDirectives ----------------------------
(***************************************************************************)
(* Instance of Directives for TLC: every directive, and a word that is     *)
(* none; numbers that fit and that do not, with a repeat count of any kind *)
(* and without, strings of each kind of character.                         *)
(***************************************************************************)
EXTENDS Directives

MCDirective == DOMAIN TypeOf \cup {".int128"}

Number(value, dec, float) ==
  [form |-> "number", value |-> value, dec |-> dec, float |-> {float}, colon |-> FALSE,
   repeat |-> {}, chars |-> << >>]
Quoted(chars) ==
  [form |-> "quoted", value |-> 0, dec |-> 0, float |-> {}, colon |-> FALSE, repeat |-> {},
   chars |-> chars]
Repeated(item, n) == [item EXCEPT !.colon = TRUE, !.repeat = n]
Raw(c) == [escaped |-> FALSE, code |-> c]
Escaped(c) == [escaped |-> TRUE, code |-> c]

MCItem ==
  { Number(5, 5, 50), Number(300, 300, 51), Number(-7, 7, 52), Number(31, 0, 53),
    Repeated(Number(6, 6, 60), {2}), Repeated(Number(6, 6, 60), {-1}),
    Repeated(Number(6, 6, 60), {}),
    Quoted(<< Raw(72), Escaped(110), Escaped(48), Escaped(113) >>),
    Quoted(<< Raw(9), Raw(200) >>), Repeated(Quoted(<< Raw(58) >>), {}),
    [Quoted(<< >>) EXCEPT !.form = "open"] }

MCOwnItem ==
  [d \in MCDirective \cup {"none"} |->
     CASE d \in {".string", "none"} -> {}
       [] d = ".int8"  -> {Number(8, 8, 70)}
       [] d = ".int16" -> {Number(16, 16, 71)}
       [] d = ".int64" \/ d = ".float64"  -> {Number(64, 64, 72)}
       [] d = ".int128" -> {Number(128, 128, 73)}
       [] OTHER        -> {Number(32, 32, 74)}]
MCGarbage == {-2, 3}
MCOverrun == {0, 2}
=============================================================================
