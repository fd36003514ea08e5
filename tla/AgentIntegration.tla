-------------------------- MODULE AgentIntegration --------------------------
(***************************************************************************)
(* The harness' block in the configuration file of another agent           *)
(* (agent/integrations.py): put in, switched off and taken out again,      *)
(* while the user edits the file around it.  A file is a sequence of       *)
(* lines; the block, heading and body, is one of them.  In TOML a heading  *)
(* opens a section, but the code knows it only with nothing behind it; in  *)
(* YAML any line of the user's own ends the block, and a JSON file with a  *)
(* note in it does not load.  Blank lines, directories and the other       *)
(* agents are left out.                                                    *)
(***************************************************************************)
EXTENDS Integers, Sequences, FiniteSets, SequencesExt, Selection

CONSTANTS Absent,    \* no file
          MaxLines   \* bound: lines of the user's

Ours    == {"enabled", "disabled"}
Formats == {"json", "toml", "yaml"}
\* A line that opens a section, [s], or does so with a comment behind it, [s]  # c; one
\* that holds a key, and a comment.
Headings == {"head", "headnote"}
AnyLine  == Ours \cup Headings \cup {"key", "note"}

ASSUME IntegrationAssumption == Absent \notin Seq(AnyLine) /\ MaxLines \in Nat

VARIABLES format,   \* of the file
          file,     \* its lines, or Absent
          created,  \* the registry knows the file as made by the harness
          author,   \* history: who wrote last
          maker     \* history: who made the file; "again" is the user, in the place of
                    \* one of the harness'

agentVars == <<format, file, created, author, maker>>

IntegrationInit ==
    /\ format \in Formats
    /\ file = Absent /\ created = FALSE /\ author = "user" /\ maker = "user"

Lines == IF file = Absent THEN << >> ELSE file
OfUser(text) == Selected(text, AnyLine \ Ours)
Loads(text) == "note" \notin ToSet(text)
HasBlock(text) == ToSet(text) \cap Ours # {}

-----------------------------------------------------------------------------
(* Line by line, what belongs to the block is passed over.                 *)

NothingRead == [block |-> FALSE, out |-> << >>]

Passed_over(state, line) ==
    IF line \in Ours THEN [state EXCEPT !.block = TRUE]
    ELSE IF state.block THEN state ELSE [state EXCEPT !.out = Append(@, line)]

Read(state, line, ends) ==
    Passed_over(IF line \in ends THEN [state EXCEPT !.block = FALSE] ELSE state, line)

Scanned(text, ends) ==
    FoldLeft(LAMBDA state, line : Read(state, line, ends), NothingRead, text)
WithoutBlock(text, ends) == Scanned(text, ends).out

\* A section lasts to the next line that is a heading from its first character to its
\* last.
_remove_toml_section_rest(text) == WithoutBlock(text, {})
_remove_toml_section(text) == WithoutBlock(text, {"head"})
\* A key lasts to the next line that is neither indented nor a comment.
_remove_yaml_key(text) == WithoutBlock(text, {"key"})

TakenOut(text) ==
    CASE format = "json" -> OfUser(text)
      [] format = "toml" -> _remove_toml_section(text)
      [] format = "yaml" -> _remove_yaml_key(text)

\* A JSON key keeps its place; a section goes to the end.
PutIn(text, block) ==
    IF format = "json" /\ HasBlock(text)
    THEN [i \in DOMAIN text |-> IF text[i] \in Ours THEN block ELSE text[i]]
    ELSE Append(TakenOut(text), block)

\* _is_config_empty
IsEmpty(text) == ToSet(text) \subseteq (IF format = "json" THEN {} ELSE {"note"})

-----------------------------------------------------------------------------
\* What does not load as an object is replaced.
apply_agent ==
    /\ file' = PutIn(IF format = "json" /\ ~Loads(Lines) THEN << >> ELSE Lines, "enabled")
    /\ created' = (created \/ file = Absent)
    /\ maker' = IF file = Absent THEN "harness" ELSE maker
    /\ author' = "apply_agent" /\ UNCHANGED format

disable_agent ==
    /\ file' = IF file = Absent \/ ~HasBlock(file) \/ (format = "json" /\ ~Loads(file))
               THEN file ELSE PutIn(file, "disabled")
    /\ author' = "disable_agent" /\ UNCHANGED <<format, created, maker>>

\* A file of the harness' own that is left without content is deleted.
restore_agent ==
    /\ LET rest == IF format = "json" /\ ~Loads(file) THEN file ELSE TakenOut(file)
       IN  IF file = Absent THEN UNCHANGED <<file, created, maker>>
           ELSE IF created /\ IsEmpty(rest)
                THEN file' = Absent /\ created' = FALSE /\ maker' = "user"
           ELSE file' = rest /\ UNCHANGED <<created, maker>>
    /\ author' = "restore_agent" /\ UNCHANGED format

\* The user adds a line anywhere, takes one away, or deletes the file.
UserEdits ==
    /\ \/ \E line \in {"key", "note"} \cup (IF format = "toml" THEN Headings ELSE {}),
             i \in 1 .. Len(Lines) + 1 :
            Len(OfUser(Lines)) < MaxLines /\ file' = InsertAt(Lines, i, line)
       \/ \E i \in DOMAIN Lines : file' = RemoveAt(Lines, i)
       \/ file # Absent /\ file' = Absent
    /\ maker' = IF file = Absent /\ maker = "harness" THEN "again" ELSE maker
    /\ author' = "user" /\ UNCHANGED <<format, created>>

IntegrationNext == apply_agent \/ disable_agent \/ restore_agent \/ UserEdits

IntegrationSpec == IntegrationInit /\ [][IntegrationNext]_agentVars

-----------------------------------------------------------------------------
\* Shape of the state: the block is in the file once at most, only TOML has headings,
\* and what the registry knows as the harness' was once made by it.
IntegrationTypeOK ==
    /\ format \in Formats /\ created \in BOOLEAN 
    /\ maker \in {"user", "harness", "again"} /\ (created => maker # "user")
    /\ author \in {"user", "apply_agent", "disable_agent", "restore_agent"}
    /\ file # Absent =>
           /\ file \in Seq(AnyLine)
           /\ \A i, j \in DOMAIN file : file[i] \in Ours /\ file[j] \in Ours => i = j
           /\ format # "toml" => ToSet(file) \cap Headings = {}

\* What the code takes for a part of the block that stands before it: in TOML all up to
\* the next heading that has no comment behind it, the sections opened with one
\* included; in YAML a comment right after it.
Swallowed(text, i) ==
    \E j \in 1 .. i - 1 :
        /\ text[j] \in Ours
        /\ CASE format = "json" -> FALSE
             [] format = "toml" -> \A k \in j + 1 .. i : text[k] # "head"
             [] format = "yaml" -> \A k \in j + 1 .. i : text[k] = "note"

Untouched(text) == {i \in DOMAIN text : text[i] \notin Ours /\ ~Swallowed(text, i)}

\* What is left of a text is its lines at these places, in their order.
Remains(left, text, places) ==
    \E h \in [DOMAIN left -> places] :
        /\ \A k \in DOMAIN left : left[k] = text[h[k]]
        /\ \A j, k \in DOMAIN left : j < k => h[j] < h[k]
        /\ \A i \in places : \E k \in DOMAIN left : h[k] = i

\* Whatever order the block is put in, switched off and taken out, and however the
\* user edits around it, the harness leaves the lines of the user as they are, except
\* those it takes for a part of the block and a JSON file that does not load.  It deletes
\* no file in which he has more than comments besides, and none he made, unless one that
\* the harness had made stood there before it and was not taken back by restore_agent.
UserLinesSurvive ==
    [][author' # "user" =>
         IF file # Absent /\ file' = Absent
         THEN maker # "user" /\ \A i \in Untouched(Lines) : Lines[i] = "note"
         ELSE \/ author' = "apply_agent" /\ format = "json" /\ ~Loads(Lines)
              \/ Remains(OfUser(Lines'), Lines, Untouched(Lines))]_agentVars
=============================================================================
