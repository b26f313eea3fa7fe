--------------------------- MODULE MCModelRunner ---------------------------
\* Instances of ModelRunner for TLC; 9 is what the model answers.
EXTENDS ModelRunner, TLC

\* Two requests with one prompt, one that shares two tokens with them and one that
\* goes on where they end.
SharedPrompts ==
  ("r1" :> <<1, 1, 2>>) @@ ("r2" :> <<1, 1, 2>>) @@ ("r3" :> <<1, 1, 1>>)
    @@ ("r4" :> <<1, 1, 2, 1, 1>>)

\* The same, and the last one is the next turn of the first: its prompt goes on with
\* the first answer.
Conversation == [SharedPrompts EXCEPT !["r4"] = <<1, 1, 2, 9, 1>>]
=============================================================================
