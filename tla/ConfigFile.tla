----------------------------- MODULE ConfigFile -----------------------------
(***************************************************************************)
(* The configuration file as get_config_info reads it, word by word, and   *)
(* what the client makes of it: the first PKG, an info node and a mailbox  *)
(* drawn with rand.  A list that is too short for a draw ends the client   *)
(* or makes it read where no address is.                                   *)
(***************************************************************************)
EXTENDS Integers, SequencesExt

CONSTANTS Files,     \* the files there may be: sequences of words
          Digital    \* the words with a digit in them

Headers == <<"MIXERS", "MAILBOXES", "PKGS", "INFO">>

ASSUME FilesAssumption == ToSet(Headers) \cap Digital = {} /\ \A f \in Files : f \in Seq(ToSet(f))

VARIABLES
    file, words,   \* the file, and how many of its words are read
    arr,           \* the section, counted from 1
    config,        \* myvec, and the client's config
    used,          \* the section and the address of every use
    state          \* "reading", then the client's next use, or how it ended

configvars == <<file, words, arr, config, used, state>>

\* types[data] - 1 of a word, counted from 1; 0 for a word that is no header.
Type(word) == SelectInSeq(Headers, LAMBDA h : h = word)

\* A plausible bug: a header that comes out of the usual order is passed over.
OnlyForward(word) == IF Type(word) > arr THEN Type(word) ELSE arr
Section(word) == IF Type(word) # 0 THEN Type(word) ELSE arr

get_config_info ==
    /\ state = "reading" /\ words < Len(file)
    /\ words' = words + 1
    /\ LET data == file[words + 1] IN
         /\ arr' = Section(data)
         /\ config' = IF data \in Digital THEN [config EXCEPT ![arr'] = Append(@, data)] ELSE config
    /\ UNCHANGED <<file, used, state>>

Loaded ==
    /\ state = "reading" /\ words = Len(file)
    /\ state' = "pkg"
    /\ UNCHANGED <<file, words, arr, config, used>>

\* An address is used when it is there; reading beside the list is undefined,
\* and may end the client or not.
Use(section, index, next) ==
    IF index \in DOMAIN config[section]
    THEN used' = Append(used, <<section, config[section][index]>>) /\ state' = next
    ELSE UNCHANGED used /\ state' \in {"died", next}

\* vec[2][0]
AskPkg ==
    /\ state = "pkg"
    /\ Use(3, 1, "info")
    /\ UNCHANGED <<file, words, arr, config>>

\* rand() % size - 1, the index counted from 1.
Draw(r) == r

\* rand() % 0 ends the process.
Choose(section, next) ==
    IF config[section] = <<>> THEN state' = "died" /\ UNCHANGED used
    ELSE \E r \in 0 .. Len(config[section]) - 1 : Use(section, Draw(r), next)

AskInfo ==
    /\ state = "info"
    /\ Choose(4, "mailbox")
    /\ UNCHANGED <<file, words, arr, config>>

DrawMailbox ==
    /\ state = "mailbox"
    /\ Choose(2, "sent")
    /\ UNCHANGED <<file, words, arr, config>>

ConfigInit ==
    /\ file \in Files /\ words = 0 /\ arr = 1 /\ config = << <<>>, <<>>, <<>>, <<>> >>
    /\ used = <<>> /\ state = "reading"

ConfigNext == get_config_info \/ Loaded \/ AskPkg \/ AskInfo \/ DrawMailbox
ConfigSpec == ConfigInit /\ [][ConfigNext]_configvars
-----------------------------------------------------------------------------
\* The words of the file that stand under the header of a section: those with a
\* digit after its header, or at the file's beginning, with no header between.
Under(section) ==
    {i \in 1 .. words :
       /\ file[i] \in Digital
       /\ LET above == {j \in 1 .. i : Type(file[j]) # 0}
          IN  section = IF above = {} THEN 1 ELSE Type(file[Max(above)])}

\* However often and in whatever order the headers come: the PKG that is asked
\* is the first under its header, an info node or a mailbox that is used stands
\* under its own, and a client that got through a draw had something to draw from.
RightSection ==
    /\ \A u \in ToSet(used) :
         \E i \in Under(u[1]) : file[i] = u[2] /\ (u[1] = 3 => i = Min(Under(3)))
    /\ state \in {"mailbox", "sent"} => Under(4) # {}
    /\ state = "sent" => Under(2) # {}
=============================================================================
