----------------------------- MODULE BlockCodec -----------------------------
(* What a turn goes through: the storage (core/async_storage.py) writes and  *)
(* reads its block by one table, archive files (core/archiver.py) by         *)
(* another, and neither knows every block of models.py.                      *)
(*                                                                           *)
(* A block is its kind and the names of the fields whose content it still    *)
(* has.  Values are left out, but for text, which is the turn's own or what  *)
(* a reader made of a block it does not know.                                *)
(***************************************************************************)
EXTENDS FiniteSets, Lists

CONSTANTS
    Kinds,          \* the blocks that are said
    MaxStory,       \* bound: turns said
    MaxFiles        \* bound: archive files

VARIABLES
    story,          \* the session's turns
    storyStored,    \* what the storage has of them
    archiveFiles,   \* the turns in each archive's file, in order of making
    storyLength     \* turns said

codecVars == <<story, storyStored, archiveFiles, storyLength>>

-----------------------------------------------------------------------------
(* models.py                                                                 *)

SpokenFields ==
    [text |-> {"text", "interrupted"}, markdown |-> {"text"},
     thinking |-> {"text", "interrupted"},
     image |-> {"file_path", "media_type", "filename", "width", "height"},
     tool_use |-> {"id", "name", "input"},
     tool_result |-> {"tool_use_id", "content", "is_error"},
     interruption |-> {"reason"},
     error |-> {"reason", "partial_tool_name", "partial_tool_input", "details", "dump_file"}]

RelationFields ==
    [link |-> {"link_id", "linked_session_id", "summary", "is_orphaned"},
     fork |-> {"fork_id", "child_session_id", "fork_name", "prompt", "status"},
     merge |-> {"merge_id", "child_session_id", "fork_name", "message", "files_changed",
                "key_accomplishments", "reason"},
     merged_to |-> {"merge_id", "parent_session_id", "parent_name", "parent_turn", "message",
                    "files_changed", "key_accomplishments", "reason"},
     forked_from |-> {"fork_id", "parent_session_id", "parent_name", "parent_turn",
                      "fork_name", "prompt"},
     slide |-> {"title", "content", "notes"},
     review |-> {"review_id", "child_session_id", "model_under_review", "status",
                 "overall_score", "task_category", "task_description", "notes"}]

ProposalFields ==
    [fork_proposal |-> {"proposal_id", "name", "description", "context_plan",
                        "initial_prompt", "bind_to", "bind_to_inherit", "status",
                        "all_exchanges", "child_session_id"},
     merge_proposal |-> {"proposal_id", "summary", "reason", "files_changed",
                         "key_accomplishments", "status"}]

RecordFields ==
    [archive |-> {"archive_id", "file_path", "summary", "structured_summary", "turn_start",
                  "turn_end", "message_count", "token_estimate"},
     session_summary |-> {"summary_id", "proposed_title", "markdown_content", "status"},
     watch_start |-> {"target_session_id", "target_session_name"},
     watch_summary |-> {"target_session_id", "target_session_name", "exchange_index",
                        "summary"}]

(* WatchStopBlock is not among them: it cannot be written at all             *)
(* (SessionFamily).                                                          *)
Fields == Backed(Backed(SpokenFields, RelationFields), Backed(ProposalFields, RecordFields))

(* Fields that name other things: calls, sessions, archives, links.          *)
NamingFields ==
    {"id", "tool_use_id", "link_id", "linked_session_id", "fork_id", "child_session_id",
     "merge_id", "parent_session_id", "review_id", "proposal_id", "archive_id", "file_path",
     "target_session_id"}

TurnFields ==
    {"tokens", "timestamp", "context_mode", "summary", "exchange_id", "id", "sentiment",
     "started_at", "ended_at", "parallel_group_id", "is_steering", "responds_to_steering"}

ASSUME CodecAssumption ==
    /\ Kinds \subseteq DOMAIN Fields \ {"archive"}
    /\ MaxStory \in Nat /\ MaxFiles \in Nat

-----------------------------------------------------------------------------
(* The tables                                                                *)

AllBut(drops, kinds) ==
    [k \in kinds |-> Fields[k] \ (IF k \in DOMAIN drops THEN drops[k] ELSE {})]

(* Mutant of StorageWrites: the name of the call is forgotten.               *)
StorageWrites_NoCall ==
    AllBut([error |-> {"dump_file"}, review |-> {"notes"}, tool_result |-> {"tool_use_id"}],
            DOMAIN Fields \ {"image", "forked_from", "session_summary"})

(* Mutant of StorageWrites: markdown has no case.                            *)
StorageWrites_NoMarkdown ==
    AllBut([error |-> {"dump_file"}, review |-> {"notes"}],
           DOMAIN Fields \ {"image", "forked_from", "session_summary", "markdown"})

(* AsyncStorage._serialize_content_block                                     *)
StorageWrites ==
    AllBut([error |-> {"dump_file"}, review |-> {"notes"}],
            DOMAIN Fields \ {"image", "forked_from", "session_summary"})

(* Archiver._serialize_content_block                                         *)
ArchiveWrites ==
    AllBut([text |-> {"interrupted"}, review |-> {"notes"}],
            {"text", "tool_use", "tool_result", "interruption", "error", "link", "fork",
             "merge", "merged_to", "review", "archive"})

(* AsyncStorage._deserialize_content_block                                   *)
StorageReads ==
    AllBut([review |-> {"notes"}], DOMAIN Fields \ {"image", "forked_from", "session_summary"})

(* Archiver._deserialize_content_block                                       *)
ArchiveReads == AllBut([review |-> {"notes"}], DOMAIN ArchiveWrites \cup {"thinking"})

StorageKeeps == TurnFields \ {"is_steering", "responds_to_steering"}

(* A turn that is read from an archive is given an id of its own.            *)
ArchiveKeeps == {"tokens", "timestamp", "context_mode", "summary", "exchange_id"}

(* A block that is not known is written as {"type": "unknown"}, and what is  *)
(* not known is read as the text of that.                                    *)
UnknownText == "unknown"
Through(t, writes, reads, keeps) ==
    LET kept == [t EXCEPT !.meta = @ \cap keeps]
    IN  IF t.kind \in DOMAIN writes /\ t.kind \in DOMAIN reads
        THEN [kept EXCEPT !.has = @ \cap writes[t.kind] \cap reads[t.kind]]
        ELSE [kept EXCEPT !.kind = "text", !.has = {"text"}, !.says = UnknownText]

AsStored(t) == Through(t, StorageWrites, StorageReads, StorageKeeps)
AsArchived(t) == Through(t, ArchiveWrites, ArchiveReads, ArchiveKeeps)

-----------------------------------------------------------------------------
(* The session                                                               *)

StoryTurn(n, kind) ==
    [of |-> n, kind |-> kind, has |-> Fields[kind], says |-> n, meta |-> TurnFields,
     file |-> 0]

AllStored(ts) == [i \in DOMAIN ts |-> AsStored(ts[i])]

CodecInit == story = <<>> /\ storyStored = <<>> /\ archiveFiles = <<>> /\ storyLength = 0

SayBlock(kind) ==
    /\ storyLength < MaxStory
    /\ storyLength' = storyLength + 1
    /\ story' = Append(story, StoryTurn(storyLength + 1, kind))
    /\ storyStored' = AllStored(story')
    /\ UNCHANGED archiveFiles

(* The session is loaded from what was stored.                               *)
ReloadStory ==
    /\ story' = storyStored
    /\ UNCHANGED <<storyStored, archiveFiles, storyLength>>

(* Mutant of ArchiveRange: the file has the turn after the range as well.    *)
ArchiveRange_OneMore(i, j) ==
    /\ Len(archiveFiles) < MaxFiles
    /\ LET last == IF j < Len(story) THEN j + 1 ELSE j
       IN  archiveFiles' = Append(archiveFiles,
               [k \in 1..(last - i + 1) |-> AsArchived(story[i + k - 1])])
    /\ story' = SubSeq(story, 1, i - 1)
                  \o <<[StoryTurn(0, "archive") EXCEPT !.file = Len(archiveFiles')]>>
                  \o SubSeq(story, j + 1, Len(story))
    /\ storyStored' = AllStored(story')
    /\ UNCHANGED storyLength

(* archive_turns: turns i to j, archives among them, go to a file.           *)
ArchiveRange(i, j) ==
    /\ Len(archiveFiles) < MaxFiles
    /\ archiveFiles' = Append(archiveFiles,
           [k \in 1..(j - i + 1) |-> AsArchived(story[i + k - 1])])
    /\ story' = SubSeq(story, 1, i - 1)
                  \o <<[StoryTurn(0, "archive") EXCEPT !.file = Len(archiveFiles')]>>
                  \o SubSeq(story, j + 1, Len(story))
    /\ storyStored' = AllStored(story')
    /\ UNCHANGED storyLength

(* rehydrate: the file's turns stand where the archive stood.                *)
UnarchiveAt(i) ==
    /\ story[i].kind = "archive"
    /\ story' = SubSeq(story, 1, i - 1) \o archiveFiles[story[i].file]
                  \o SubSeq(story, i + 1, Len(story))
    /\ storyStored' = AllStored(story')
    /\ UNCHANGED <<archiveFiles, storyLength>>

CodecNext ==
    \/ \E k \in Kinds : SayBlock(k)
    \/ ReloadStory
    \/ \E i, j \in DOMAIN story : i <= j /\ ArchiveRange(i, j)
    \/ \E i \in DOMAIN story : UnarchiveAt(i)

CodecSpec == CodecInit /\ [][CodecNext]_codecVars

-----------------------------------------------------------------------------
(* Properties                                                                *)

(* The turns with every archive replaced by what its file holds, archives    *)
(* in archives included (a file holds files made before it only).            *)
Unfold(ts) == Flat([i \in DOMAIN ts |->
                 IF ts[i].kind = "archive" THEN archiveFiles[ts[i].file] ELSE <<ts[i]>>])
WholeStory ==
    LET deep[n \in 0..MaxFiles] == IF n = 0 THEN story ELSE Unfold(deep[n - 1])
    IN  deep[MaxFiles]

CodecTypeOK ==
    /\ storyLength \in 0..MaxStory /\ Len(archiveFiles) <= MaxFiles
    /\ \A i \in DOMAIN story :
           /\ story[i].kind \in DOMAIN Fields
           /\ story[i].has \subseteq Fields[story[i].kind]
           /\ story[i].kind = "archive" => story[i].file \in DOMAIN archiveFiles

(* However archives are nested, opened and stored in between, the session    *)
(* tells each turn once, in the order it was said.                           *)
StoryWhole == [i \in DOMAIN WholeStory |-> WholeStory[i].of] = [n \in 1..storyLength |-> n]

(* A turn that keeps its kind keeps what it names: a result its call, a      *)
(* marker its session, an archive its file.                                  *)
NamesKept ==
    \A i \in DOMAIN WholeStory :
        LET t == WholeStory[i] IN Fields[t.kind] \cap NamingFields \subseteq t.has

(* What users and models said in words is stored as it was said; the         *)
(* archive alone makes something else of it.                                 *)
WordsStored ==
    \A i \in DOMAIN storyStored :
        story[i].kind \in {"text", "markdown", "thinking", "tool_use", "tool_result"} =>
            storyStored[i].kind = story[i].kind /\ storyStored[i].says = story[i].says

(* What is read from disk tells the story that was written, turn by turn,    *)
(* with the names it needs and the words that were said, though the archive  *)
(* and the session have each a codec of their own.                           *)
StoryKept == StoryWhole /\ NamesKept /\ WordsStored

(* "Stored as the first turn in a fork session's history" (models.py:199):   *)
(* a block is stored as what it is.                                          *)
EveryKindStored == \A i \in DOMAIN storyStored : storyStored[i].kind = story[i].kind
=============================================================================
