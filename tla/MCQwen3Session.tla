--------------------------- MODULE MCQwen3Session ---------------------------
\* An instance of Qwen3Session for TLC. Tokens are numbers.
EXTENDS Qwen3Session

\* Conversations of one to three tokens, the first token among them at any place.
Repeating == {<<11>>} \cup {<<11, b>> : b \in {11, 12}}
               \cup {<<11, b, c>> : b \in {11, 12}, c \in {11, 12}}
=============================================================================
