---------------------------- MODULE AgentBootstrap ----------------------------
(***************************************************************************)
(* The files that put a project on the chat bus, and the processes that    *)
(* write them: spawn_agent in either service, the auto-installer that runs *)
(* at every SessionStart, and install-chat-mcp.py over many projects.      *)
(* Each merges into what it has read, and writes the file in place:        *)
(*                                                                         *)
(*   .mcp.json              inject_mcp_config                              *)
(*   .claude/settings.json  inject_session_start_hook, _merge_hook_event   *)
(*   .claude.json           approve_mcp_server_for_project; all projects   *)
(*                                                                         *)
(*   src/agent_bootstrap.py, src/hook_merge.py, src/spawner.py,            *)
(*   scripts/install-chat-mcp.py, scripts/auto-install-chat-mcp.sh         *)
(***************************************************************************)
EXTENDS Integers, Sequences, FiniteSetsExt

CONSTANTS
    Projects,
    Writers,        \* the processes
    Route,          \* the projects a process installs into, one by one
    Foreign,        \* the hooks, servers and settings of others
    Given,          \* what a project may have had before: its servers and settings
    Matchers,       \* of hook entries
    Places,         \* bound: where in a list others put a hook
    MaxStarts,      \* bound: runs of the processes
    MaxUpsets       \* bound: edits by users and by Claude Code, crashes, failed writes

ASSUME RouteAssumption == Route \in [Writers -> Seq(Projects) \ {<<>>}]
ASSUME HooksAssumption == {"", "Bash"} \subseteq Matchers /\ Places \subseteq Int
ASSUME BootBoundsAssumption == {MaxStarts, MaxUpsets} \subseteq Nat

VARIABLES
    file,
    writer,
    theirs,         \* what others have put in each file (history)
    hurt,           \* the files in which their part was at risk (history)
    starts,
    upsets

bootVars == <<file, writer, theirs, hurt, starts, upsets>>

-----------------------------------------------------------------------------
(* The contents.                                                            *)

\* One file for all projects.
Approvals == <<"approvals", "all">>
Files == ({"mcp", "settings"} \X Projects) \cup {Approvals}

\* The order in which they are written, and which of them it is.
Kinds == <<"mcp", "settings", "approvals">>
FileOf(kind, p) == IF kind = "approvals" THEN Approvals ELSE <<kind, p>>

\* The scripts in the directory the project has now.
Ours ==
    [SessionStart     |-> <<"session-start", "drain">>,
     UserPromptSubmit |-> <<"drain">>,
     Stop             |-> <<"drain", "stop">>,
     PreCompact       |-> <<"precompact">>,
     PostToolUse      |-> <<"drain-on-commit">>]

Events == DOMAIN Ours
Matcher(e) == IF e = "PostToolUse" THEN "Bash" ELSE ""

(* A list is a function from places, of which only the order counts: what   *)
(* is taken out leaves the others where they are.                           *)
Put(list, i, x) == [k \in {i} \cup DOMAIN list |-> IF k = i THEN x ELSE list[k]]
Front(list) == IF DOMAIN list = {} THEN 0 ELSE Min(DOMAIN list) - 1

\* A hook command: the base name of its script, and where that lies.
Hook(name, place) == [name |-> name, place |-> place]
Scripts == UNION {Range(Ours[e]) : e \in Events}

\* Mutant: only what lies where it lies now.
IsOursHere(h) == h.name \in Scripts /\ h.place = "now"

\* By base name, wherever it lies.
IsOurs(h) == h.name \in Scripts

OurEntry(e) == [matcher |-> Matcher(e),
                hooks |-> [i \in DOMAIN Ours[e] |-> Hook(Ours[e][i], "now")]]

NotOurs(entry) == [entry EXCEPT !.hooks = RestrictValues(@, LAMBDA h : ~IsOurs(h))]

Kept(entries) ==
    RestrictValues([i \in DOMAIN entries |-> NotOurs(entries[i])],
                   LAMBDA entry : DOMAIN entry.hooks # {})

WithOurs(e, others) == Put(others, Front(others), OurEntry(e))

\* Mutant: an entry with a script of ours in it is ours.
MergeDropsShared(e, entries) ==
    WithOurs(e, RestrictValues(entries, LAMBDA entry : \A h \in Range(entry.hooks) : ~IsOurs(h)))

\* _merge_hook_event
Merge(e, entries) == WithOurs(e, Kept(entries))

NoSettings == [e \in Events |-> <<>>]

Commands == [name : Scripts \cup Foreign, place : {"before", "now", "theirs"}]
ASSUME ForeignAssumption == Foreign \cap Scripts = {}

Servers == [ours : {"none", "before", "now"}, others : SUBSET Foreign]

ASSUME GivenAssumption ==
    Given \subseteq
      [mcp : Servers,
       settings : [Events -> Seq([matcher : Matchers, hooks : Seq(Commands)])]]

\* What _load_json_dict gives for a file that is missing or cannot be parsed.
Empty(kind) == CASE kind = "mcp" -> [ours |-> "none", others |-> {}]
                 [] kind = "settings" -> NoSettings
                 [] kind = "approvals" -> [approved |-> {}, others |-> {}]

\* A file, and one that is cut short: it holds no JSON, and is loaded as empty.
Whole(content) == [whole |-> TRUE, data |-> content]
Torn(f) == [whole |-> FALSE, data |-> Empty(f[1])]

WithServer(servers) == [servers EXCEPT !.ours = "now"]
WithHooks(settings) == [e \in Events |-> Merge(e, settings[e])]
WithApproval(approvals, p) == [approvals EXCEPT !.approved = @ \cup {p}]

\* What an installation into p makes of the content it has loaded.
Merged(f, p, content) ==
    CASE f[1] = "mcp" -> WithServer(content)
      [] f[1] = "settings" -> WithHooks(content)
      [] f[1] = "approvals" -> WithApproval(content, p)

\* What others have in it, in its order, with the matchers.
TheirHooks(entries) ==
    UNION {{<<i, j, entries[i].matcher, entries[i].hooks[j]>> :
              j \in {k \in DOMAIN entries[i].hooks : entries[i].hooks[k].name \notin Scripts}} :
           i \in DOMAIN entries}

Theirs(f, content) ==
    IF f[1] = "settings" THEN [e \in Events |-> TheirHooks(content[e])] ELSE content.others

-----------------------------------------------------------------------------
(* The processes.  step counts the files, todo holds the projects left, the *)
(* present one first; base is what was read, over that another process has *)
(* the same file open; alone that no installation overlapped with this one *)
(* (history); warned that the approval failed, which is only logged.       *)

WriterIdle == [pc |-> "idle", step |-> 1, todo |-> <<>>, base |-> Whole(NoSettings),
               over |-> FALSE, alone |-> TRUE, warned |-> FALSE]

Busy(w) == writer[w].pc # "idle"
Project(w) == Head(writer[w].todo)
Kind(w) == Kinds[writer[w].step]
Target(w) == FileOf(Kind(w), Project(w))
Rivals(w) == {v \in Writers \ {w} : writer[v].pc = "write" /\ Target(v) = Target(w)}

BootInit ==
    /\ \E had \in [Projects -> Given] :
          file = [f \in Files |->
                    Whole(IF f = Approvals THEN [approved |-> {}, others |-> Foreign]
                          ELSE had[f[2]][f[1]])]
    /\ writer = [w \in Writers |-> WriterIdle]
    /\ theirs = [f \in Files |-> Theirs(f, file[f].data)]
    /\ hurt = {}
    /\ starts = 0
    /\ upsets = 0

\* An installation into the first project of todo, if there is one.
Begins(w, todo) ==
    writer' = [v \in Writers |->
                 IF v = w
                 THEN IF todo = <<>> THEN WriterIdle
                      ELSE [WriterIdle EXCEPT !.pc = "read", !.todo = todo,
                                              !.alone = \A u \in Writers \ {w} : ~Busy(u)]
                 ELSE IF todo = <<>> THEN writer[v] ELSE [writer[v] EXCEPT !.alone = FALSE]]

Starts(w) ==
    /\ starts < MaxStarts
    /\ starts' = starts + 1
    /\ ~Busy(w)
    /\ Begins(w, Route[w])
    /\ UNCHANGED <<file, theirs, hurt, upsets>>

FileDone(w) == IF writer[w].step = Len(Kinds)
               THEN [writer[w] EXCEPT !.pc = "done"]
               ELSE [writer[w] EXCEPT !.pc = "read", !.step = @ + 1, !.over = FALSE]

\* A file cut short is taken for an empty one.  What is approved stays as it is.
Reads(w) ==
    LET f == Target(w)
    IN  /\ writer[w].pc = "read"
        /\ writer' = [writer EXCEPT ![w] =
             IF f = Approvals /\ Project(w) \in file[f].data.approved
             THEN FileDone(w) ELSE [@ EXCEPT !.pc = "open", !.base = file[f]]]
        /\ hurt' = IF file[f].whole THEN hurt ELSE hurt \cup {f}
        /\ UNCHANGED <<file, theirs, starts, upsets>>

\* open(path, "w"): from here until close the file is cut short.
Truncates(w) ==
    LET f == Target(w)
    IN  /\ writer[w].pc = "open"
        /\ file' = [file EXCEPT ![f] = Torn(f)]
        /\ writer' = [v \in Writers |->
             IF v = w THEN [writer[w] EXCEPT !.pc = "write", !.over = Rivals(w) # {}]
             ELSE IF v \in Rivals(w) THEN [writer[v] EXCEPT !.over = TRUE] ELSE writer[v]]
        /\ hurt' = IF file[f] # writer[w].base \/ Rivals(w) # {} THEN hurt \cup {f} ELSE hurt
        /\ UNCHANGED <<theirs, starts, upsets>>

\* json.dump and close, over what a rival may have written meanwhile.
Writes(w) ==
    LET f == Target(w)
        new == Whole(Merged(f, Project(w), writer[w].base.data))
    IN  /\ writer[w].pc = "write"
        /\ \/ file' = [file EXCEPT ![f] = new]
           \/ writer[w].over /\ file[f] # new /\ file' = [file EXCEPT ![f] = Torn(f)]
        /\ writer' = [v \in Writers |->
             IF v = w THEN FileDone(w)
             ELSE IF v \in Rivals(w) THEN [writer[v] EXCEPT !.over = TRUE] ELSE writer[v]]
        /\ UNCHANGED <<theirs, hurt, starts, upsets>>

\* The installer goes on with its next project.
Returns(w) ==
    /\ writer[w].pc = "done"
    /\ Begins(w, Tail(writer[w].todo))
    /\ UNCHANGED <<file, theirs, hurt, starts, upsets>>

(* OSError.  The approval only warns; anything else ends the installation,  *)
(* of which a batch skips this project.                                     *)
Fails(w) ==
    /\ upsets < MaxUpsets
    /\ upsets' = upsets + 1
    /\ writer[w].pc \in {"read", "open", "write"}
    /\ \/ /\ Kind(w) = "approvals"
          /\ writer' = [writer EXCEPT ![w].pc = "done", ![w].warned = TRUE]
       \/ /\ Kind(w) # "approvals"
          /\ Begins(w, Tail(writer[w].todo))
    /\ UNCHANGED <<file, theirs, hurt, starts>>

\* Killed, with the session, the service or the machine.
Crashes(w) ==
    /\ upsets < MaxUpsets
    /\ upsets' = upsets + 1
    /\ Busy(w)
    /\ writer' = [writer EXCEPT ![w] = WriterIdle]
    /\ UNCHANGED <<file, theirs, hurt, starts>>

\* What a user, or Claude Code itself, may make of a file, in one go.
Edited(f, content, x) ==
    IF f[1] = "settings"
    THEN LET entry == [matcher |-> "", hooks |-> <<Hook(x, "theirs")>>]
         IN  {[content EXCEPT !.Stop = Put(content.Stop, i, entry)] : i \in Places \ DOMAIN content.Stop}
    ELSE {[content EXCEPT !.others = @ \cup {x}], [content EXCEPT !.others = @ \ {x}]}

Edits(f) ==
    /\ upsets < MaxUpsets
    /\ upsets' = upsets + 1
    /\ file[f].whole
    /\ \E new \in UNION {Edited(f, file[f].data, x) : x \in Foreign} :
          /\ file' = [file EXCEPT ![f] = Whole(new)]
          /\ theirs' = [theirs EXCEPT ![f] = Theirs(f, new)]
    /\ UNCHANGED <<writer, hurt, starts>>

BootNext ==
    \/ \E w \in Writers : \/ Starts(w) \/ Reads(w) \/ Truncates(w) \/ Writes(w)
                          \/ Returns(w) \/ Fails(w) \/ Crashes(w)
    \/ \E f \in Files : Edits(f)

BootSpec == BootInit /\ [][BootNext]_bootVars

-----------------------------------------------------------------------------
(* Properties.                                                              *)

\* Our scripts, once, where they lie now.
WiredIn(f, p, content) ==
    CASE f[1] = "mcp" -> content.ours = "now"
      [] f[1] = "settings" ->
            \A e \in Events : \E i \in DOMAIN content[e] :
                /\ content[e][i] = OurEntry(e)
                /\ \A k \in DOMAIN content[e] \ {i} : \A h \in Range(content[e][k].hooks) :
                      h.name \notin Scripts
      [] OTHER -> p \in content.approved

(* An installation that no other overlaps with leaves the project wired,    *)
(* whatever it found: nothing, an older layout, hooks shared with others or *)
(* what a crash had cut short; and another one would change nothing more    *)
(* (auto-install-chat-mcp.sh:6-7, hook_merge.py:30-33).                     *)
AloneItHeals ==
    \A w \in Writers :
        writer[w].pc = "done" /\ writer[w].alone /\ ~writer[w].warned =>
            \A kind \in Range(Kinds) :
                LET f == FileOf(kind, Project(w))
                    again == Merged(f, Project(w), file[f].data)
                IN  /\ file[f].whole
                    /\ WiredIn(f, Project(w), file[f].data)
                    /\ Merged(f, Project(w), again) = again

(* Hooks, servers and settings of others stay, in their order and with      *)
(* their matchers, unless two processes had the file in hand at once or one *)
(* was cut short (hook_merge.py:30-33).                                     *)
OthersKept ==
    \A f \in Files \ hurt : file[f].whole => Theirs(f, file[f].data) = theirs[f]
=============================================================================
