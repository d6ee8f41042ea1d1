---------------------------- MODULE MCConversation ----------------------------
(* Instance of Conversation for TLC. *)
EXTENDS Conversation

User(id, text) == [kind |-> "user", id |-> id, text |-> text]
Block(kind, call, chunks) == [kind |-> kind, call |-> call, chunks |-> chunks]
Answer(id, blocks, stop) ==
  [kind |-> "assistant", id |-> id, blocks |-> blocks, stop |-> stop,
   usage |-> IF stop = "error" THEN NoUsage ELSE id]
Result(id, call, ok) == [kind |-> "toolResult", id |-> id, call |-> call, ok |-> ok]
Edit(id, target) == [kind |-> "edit", id |-> id, target |-> target]
Said == <<Block("markdown", NoCall, 1)>>

(* A failed attempt and its omission, a compaction, a call that was answered *)
(* and one that was not, a shell command and an edit of an older turn.      *)
RichFile ==
  <<User(1, 11), Answer(2, Said, "error"), Edit(3, 2), [kind |-> "compaction", id |-> 4],
    Answer(5, <<Block("reasoning", NoCall, 1), Block("tool", 1, 0), Block("tool", 2, 0)>>, "toolUse"),
    Result(6, 1, TRUE),
    User(7, 12), Answer(8, Said, "aborted"), [kind |-> "bash", id |-> 9],
    User(10, 13), Answer(11, Said, "stop"), [kind |-> "label", id |-> 12], Edit(13, 2)>>

Files == {<<>>, RichFile}
=============================================================================
