--------------------------------- MODULE Rps ---------------------------------
(***************************************************************************)
(* Rock, paper, scissors: the server and its two clients over TCP.         *)
(* Source: networks/PartA/rpc/server.c, networks/PartA/rpc/client.c.       *)
(*                                                                         *)
(* A stream is a sequence of what was sent; recv() with room for more takes*)
(* one or more of it, and no item arrives in pieces (they are of one or    *)
(* four bytes).  Which choice was made is left out; a choice stands for the*)
(* game that the player made it for.                                       *)
(***************************************************************************)
EXTENDS Integers, Sequences

CONSTANT MaxGames   \* bound: after so many games the players and the server's operator want no more

VARIABLES client,  \* of each: where it is, and the game it plays
          up, down,\* the streams to and from the server
          server,  \* where the server is
          game,    \* the game it is at
          choice,  \* choice1 and choice2: the games they are of, 0 if of none of these players
          again    \* play_again
vars == <<client, up, down, server, game, choice, again>>

Client == {1, 2}
Answer == {"y", "n", "other"}
Choice(g) == [kind |-> "choice", game |-> g]
Again(a) == [kind |-> "again", answer |-> a]

Init == /\ client = [c \in Client |-> [pc |-> "choose", game |-> 1]]
        /\ up = [c \in Client |-> <<>>] /\ down = [c \in Client |-> <<>>]
        /\ server = "choice1" /\ game = 1
        /\ choice = [c \in Client |-> 0] /\ again = "n"

-----------------------------------------------------------------------------
(* client.c.                                                               *)
Over == server \in {"closed", "dead"}
Goes(c, pc, g) == client' = [client EXCEPT ![c] = [pc |-> pc, game |-> g]]
Sends(c, item) == up' = [up EXCEPT ![c] = Append(@, item)]

Choose(c) == /\ client[c].pc = "choose"
             /\ Goes(c, "result", client[c].game) /\ Sends(c, Choice(client[c].game))
             /\ UNCHANGED <<down, server, game, choice, again>>
\* What comes is taken for the result: it may be the server's play_again of the last game.
Result(c) == /\ client[c].pc = "result"
             /\ \/ \E n \in 1 .. Len(down[c]) :
                      down' = [down EXCEPT ![c] = SubSeq(@, n + 1, Len(@))]
                \/ Over /\ down[c] = <<>> /\ UNCHANGED down
             /\ Goes(c, "again", client[c].game)
             /\ UNCHANGED <<up, server, game, choice, again>>
\* The client goes on with any answer but "n".
PlayAgain(c) == /\ client[c].pc = "again"
                /\ \E a \in Answer :
                     /\ Sends(c, Again(a))
                     /\ IF a = "n" THEN Goes(c, "gone", client[c].game)
                        ELSE client[c].game < MaxGames /\ Goes(c, "choose", client[c].game + 1)
                /\ UNCHANGED <<down, server, game, choice, again>>
\* A client may be killed at any time, and is when it writes to a server that has closed
\* the socket.
Killed(c) == /\ client[c].pc # "gone"
             /\ Goes(c, "gone", client[c].game)
             /\ UNCHANGED <<up, down, server, game, choice, again>>

-----------------------------------------------------------------------------
(* server.c.                                                               *)
Took(c) == up' = [up EXCEPT ![c] = Tail(@)]
\* recv() of a client that has closed its socket returns nothing, and nobody looks at
\* what it returns: the variable keeps its value.
Silent(c) == up[c] = <<>> /\ client[c].pc = "gone"

RecvChoice(c, pc, next) ==
    /\ server = pc
    /\ \/ up[c] # <<>> /\ Took(c) /\ choice' = [choice EXCEPT ![c] = Head(up[c]).game]
       \/ Silent(c) /\ UNCHANGED <<up, choice>>
    /\ server' = next
    /\ UNCHANGED <<client, down, game, again>>
RecvChoice1 == RecvChoice(1, "choice1", "choice2")
RecvChoice2 == RecvChoice(2, "choice2", "send")

SentAll(item) == down' = [c \in Client |-> Append(down[c], item)]
\* Writing to a client that has gone may end the server.
Dies == server' = "dead" /\ \E c \in Client : client[c].pc = "gone"
SendResult == /\ server = "send"
              /\ SentAll("result")
              /\ server' = "prompt" \/ Dies
              /\ UNCHANGED <<client, up, game, choice, again>>
\* play_again is asked for at the server's terminal and sent to both.
SendAgain == /\ server = "prompt"
             /\ SentAll("again")
             /\ server' = "again1" \/ Dies
             /\ again' \in (IF game < MaxGames THEN Answer ELSE {"n"})
             /\ UNCHANGED <<client, up, game, choice>>

\* A mutant: the answer of the first client, which is not looked at, is not read either.
RecvAgain1Skips == /\ server = "again1" /\ server' = "again2"
                   /\ UNCHANGED <<client, up, down, game, choice, again>>
RecvAgain1 == /\ server = "again1"
              /\ \/ up[1] # <<>> /\ Took(1) /\ again' = Head(up[1]).answer
                 \/ Silent(1) /\ UNCHANGED <<up, again>>
              /\ server' = "again2"
              /\ UNCHANGED <<client, down, game, choice>>
\* The answer of the second client overwrites that of the first; with "y", and only
\* with "y", there is another game.
RecvAgain2 == /\ server = "again2"
              /\ \/ up[2] # <<>> /\ Took(2) /\ again' = Head(up[2]).answer
                 \/ Silent(2) /\ UNCHANGED <<up, again>>
              /\ \/ again' = "y" /\ server' = "choice1" /\ game' = game + 1
                 \/ again' # "y" /\ server' = "closed" /\ game' = game
              /\ UNCHANGED <<client, down, choice>>

\* Two other clients come when these have gone (bound), to this server or another.
NextPair == /\ Over /\ \A c \in Client : client[c].pc = "gone"
            /\ client' = [c \in Client |-> [pc |-> "choose", game |-> 1]]
            /\ up' = [c \in Client |-> <<>>] /\ down' = [c \in Client |-> <<>>]
            /\ server' = "choice1" /\ game' = 1
            /\ choice' = [c \in Client |-> 0] /\ again' = "n"

Next == \/ \E c \in Client : Choose(c) \/ Result(c) \/ PlayAgain(c) \/ Killed(c)
        \/ RecvChoice1 \/ RecvChoice2 \/ SendResult \/ SendAgain
        \/ RecvAgain1 \/ RecvAgain2 \/ NextPair
Spec == Init /\ [][Next]_vars

-----------------------------------------------------------------------------
\* The streams stay in step with the games, although a client may be a game ahead of
\* the server and go on when the server does not: what the server reads as a choice or
\* as an answer is one, and the choices that it judges are those that the players made
\* for this game; but for a player who has left, in whose name it goes on with the last
\* choice that it read from him.
GamesInStep ==
    /\ server = "choice1" /\ up[1] # <<>> => Head(up[1]).kind = "choice"
    /\ server \in {"choice1", "choice2"} /\ up[2] # <<>> => Head(up[2]).kind = "choice"
    /\ server = "again1" /\ up[1] # <<>> => Head(up[1]).kind = "again"
    /\ server \in {"again1", "again2"} /\ up[2] # <<>> => Head(up[2]).kind = "again"
    /\ server = "send" => \A c \in Client :
         choice[c] = game \/ (choice[c] < game /\ client[c].pc = "gone")
=============================================================================
