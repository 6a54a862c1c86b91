------------------------------- MODULE Config -------------------------------
(***************************************************************************)
(* How a daemon that starts finds its options: the saved profile of an     *)
(* earlier start if there is one, else the hardware profiles, which are    *)
(* then saved, and on top of either the entries of urfkill.conf.           *)
(*                                                                         *)
(* The load is one synchronous call.  It is cut into steps where a process *)
(* that is killed leaves something behind, and where a document may go on  *)
(* in several ways.                                                        *)
(***************************************************************************)
EXTENDS ProfileParser

CONSTANTS
    Profiles,   \* how many profiles the directory holds; read by name
    ConfFiles,  \* what urfkill.conf may hold
    NoFile,     \* there is no saved profile
    NoGroup     \* there is one without its group

Given   == {"true", "false", "missing"}
KeyFile == [Option -> Given]

ASSUME ConfigAssumption ==
    /\ Profiles \in Nat /\ ConfFiles \subseteq KeyFile
    /\ NoFile \notin KeyFile /\ NoGroup \notin KeyFile

VARIABLES
    phase,      \* how far the process is
    left,       \* profiles not yet read
    work,       \* the options that load_profile hands from profile to profile
    options,    \* UrfConfig options
    savedFile,  \* hardware.conf, the saved profile
    conf,       \* urfkill.conf
    meant,      \* history: what the profiles said when hardware.conf was written
    heard       \* history: what the process was told last, see ProfileMeaning

vars == <<parserVars, phase, left, work, options, savedFile, conf, meant, heard>>
loadVars == <<left, work, options, savedFile, conf, meant>>

Documents == {"prolog", "body", "epilog"}
Phases == Documents \cup {"down", "profiles", "save", "merge", "running",
                          "crashed"}

\* urf_config_init
Default == [o \in Option |-> o \in {"key_control", "persist"}]

\* load_profile without a DMI table: no key is trusted.
Untrusted == [Default EXCEPT !["key_control"] = FALSE]

\* The four reads of a key file: a missing entry leaves the option alone.
Merged(file, opts) ==
    [o \in Option |-> IF file[o] = "missing" THEN opts[o] ELSE file[o] = "true"]

\* What save_configured_profile writes.
Written(opts) == [o \in Option |-> IF opts[o] THEN "true" ELSE "false"]

\* urf_config_new and load_configured_settings; without a saved profile the
\* DMI table is needed, and without that no profile is read and no key is
\* trusted.
Start(dmi) ==
    /\ phase \in {"down", "crashed"}
    /\ left' = Profiles
    /\ work' = Default
    /\ IF savedFile \in KeyFile
       THEN phase' = "merge" /\ options' = Merged(savedFile, Default)
       ELSE IF dmi
       THEN phase' = "profiles" /\ options' = Default
       ELSE phase' = "merge" /\ options' = Untrusted
    /\ heard' = "nothing"
    /\ UNCHANGED <<parserVars, savedFile, conf, meant>>

\* The next file of the sorted list is opened ...
NextProfile ==
    /\ phase = "profiles" /\ left > 0
    /\ left' = left - 1
    /\ phase' = "prolog"
    /\ BeginDocument(work)
    /\ heard' = "nothing"
    /\ UNCHANGED <<work, options, savedFile, conf, meant>>

\* ... or cannot be read.
Unreadable ==
    /\ phase = "profiles" /\ left > 0
    /\ left' = left - 1
    /\ UNCHANGED <<parserVars, phase, work, options, savedFile, conf, meant, heard>>

\* expat calls the handlers for a document with one root.
XmlStart(el) ==
    /\ phase \in {"prolog", "body"}
    /\ StartElement(el)
    /\ phase' = "body"
    /\ heard' = "nothing"
    /\ UNCHANGED loadVars

XmlEnd ==
    /\ phase = "body"
    /\ EndElement
    /\ phase' = IF Len(open) = 1 THEN "epilog" ELSE "body"
    /\ heard' = "nothing"
    /\ UNCHANGED loadVars

XmlText(word) ==
    /\ phase = "body"
    /\ Text(word)
    /\ heard' = word
    /\ UNCHANGED <<phase, loadVars>>

\* A field that the machine has, compared with a text that is not there.
Fault(el) ==
    /\ phase \in {"prolog", "body"}
    /\ Len(open) < MaxDepth /\ Counts /\ Faults(el)
    /\ phase' = "crashed" /\ heard' = "stopped"
    /\ BeginDocument(Default)
    /\ UNCHANGED loadVars

\* A document that is not well formed leaves the options as they were.
ParseError ==
    /\ phase \in Documents
    /\ phase' = "profiles"
    /\ BeginDocument(work)
    /\ heard' = "broken"
    /\ UNCHANGED <<left, work, options, savedFile, conf, meant>>

\* XML_Parse has read the document to its end.
EndDocument ==
    /\ phase = "epilog"
    /\ phase' = "profiles"
    /\ work' = draft
    /\ heard' = "whole"
    /\ UNCHANGED <<parserVars, left, options, savedFile, conf, meant>>

\* The last profile has been read: the options are taken over, and a saved
\* profile that could not be used is removed.
RemoveSaved ==
    /\ phase = "profiles" /\ left = 0
    /\ phase' = "save"
    /\ options' = work
    /\ savedFile' = NoFile
    /\ UNCHANGED <<parserVars, left, work, conf, meant, heard>>

\* A mistake that OptionsFollowFiles must find: what is saved already has
\* the entries of urfkill.conf in it.
Saved_WithConf == Written(Merged(conf, options))

Saved == Written(options)

\* The new one is written, or cannot be.
WriteSaved(ok) ==
    /\ phase = "save"
    /\ phase' = "merge"
    /\ savedFile' = IF ok THEN Saved ELSE NoFile
    /\ meant' = IF ok THEN work ELSE meant
    /\ UNCHANGED <<parserVars, left, work, options, conf, heard>>

\* urf_config_load_from_file, after load_profile.
MergeConf ==
    /\ phase = "merge"
    /\ phase' = "running"
    /\ options' = Merged(conf, options)
    /\ UNCHANGED <<parserVars, left, work, savedFile, conf, meant, heard>>

\* The process ends or is killed, at any point of the load or later, and what
\* the parser had in its memory is gone.
Stop ==
    /\ phase \notin {"down", "crashed"}
    /\ phase' = "down" /\ heard' = "stopped"
    /\ BeginDocument(Default)
    /\ UNCHANGED loadVars

\* The machine goes down before the data of the file that this process wrote,
\* having read all profiles, is on the disk.
PowerFailure ==
    /\ phase \in {"merge", "running"}
    /\ savedFile # NoFile /\ left = 0
    /\ savedFile' = NoGroup
    /\ phase' = "down" /\ heard' = "stopped"
    /\ BeginDocument(Default)
    /\ UNCHANGED <<left, work, options, conf, meant>>

\* The administrator edits urfkill.conf between two starts, or removes
\* hardware.conf to have the profiles read again.
EditConf(c) ==
    /\ phase = "down"
    /\ conf' = c
    /\ UNCHANGED <<parserVars, phase, left, work, options, savedFile, meant, heard>>

RemoveHardwareConf ==
    /\ phase = "down" /\ savedFile # NoFile
    /\ savedFile' = NoFile
    /\ UNCHANGED <<parserVars, phase, left, work, options, conf, meant, heard>>

Init ==
    /\ open = <<>> /\ depth = 0 /\ bound = 1 /\ opt = NoOption /\ draft = Default
    /\ phase = "down"
    /\ left = 0
    /\ work = Default /\ options = Default /\ meant = Default
    /\ savedFile = NoFile
    /\ conf \in ConfFiles
    /\ heard = "stopped"

Document ==
    \/ \E el \in Elements : XmlStart(el) \/ Fault(el)
    \/ XmlEnd
    \/ \E word \in {"true", "false", "other"} : XmlText(word)
    \/ ParseError \/ EndDocument

Load ==
    \/ \E dmi \in BOOLEAN : Start(dmi)
    \/ NextProfile \/ Unreadable \/ Document \/ RemoveSaved
    \/ \E ok \in BOOLEAN : WriteSaved(ok)
    \/ MergeConf

Environment ==
    \/ Stop \/ PowerFailure \/ RemoveHardwareConf
    \/ \E c \in ConfFiles : EditConf(c)

Next == Load \/ Environment

Spec == Init /\ [][Next]_vars

(***************************************************************************)
(* Properties                                                              *)
(***************************************************************************)
TypeOK ==
    /\ open \in Seq([el : Elements, child : BOOLEAN])
    /\ depth \in Int /\ bound \in Int
    /\ opt \in Option \cup {NoOption}
    /\ draft \in [Option -> BOOLEAN]
    /\ phase \in Phases
    /\ left \in 0..Profiles
    /\ work \in [Option -> BOOLEAN] /\ options \in [Option -> BOOLEAN]
    /\ meant \in [Option -> BOOLEAN]
    /\ savedFile \in KeyFile \cup {NoFile, NoGroup}
    /\ conf \in ConfFiles
    /\ heard \in {"true", "false", "other", "whole", "broken", "nothing", "stopped"}

\* The nesting that the profile's text has, which the handlers do not keep, and
\* the options as they stand after the text read so far.
Scope(frame) ==
    [passes |-> Passes(frame.el),
     option |-> IF frame.child THEN NoOption ELSE OptionOf(frame.el)]

Scopes == IF phase \in Documents THEN [i \in 1..Len(open) |-> Scope(open[i])]
                                 ELSE <<>>

ReadSoFar == IF phase \in Documents THEN draft ELSE work

Meaning == INSTANCE ProfileMeaning WITH
    scopes <- Scopes, draft <- ReadSoFar, agreed <- work, heard <- heard

\* Reading the profiles with two counters gives the options what the nested
\* documents mean: inside matching elements, at any depth and also after
\* elements that did not match, a value that is said becomes the option's, no
\* other text changes anything, a document read to its end counts, and one
\* that is not well formed, or a start that is cut short, leaves no trace.
ParserMeans == Meaning!Spec

\* hardware.conf says what the profiles said when it was written, whatever
\* urfkill.conf held then and holds now.  A running daemon follows urfkill.conf
\* where that has an entry, and otherwise hardware.conf if there is one.  If it
\* could not be written or a power failure cut it off, the daemon follows the
\* profiles that it read itself, to the last of them, or trusts no key.
Follows(opts) == \A o \in Option :
    options[o] = (IF conf[o] = "missing" THEN opts[o] ELSE conf[o] = "true")

OptionsFollowFiles ==
    /\ savedFile \in KeyFile => \A o \in Option : (savedFile[o] = "true") = meant[o]
    /\ phase = "running" =>
          \/ savedFile \in KeyFile /\ Follows(meant)
          \/ savedFile \notin KeyFile /\ left = 0 /\ Follows(work)
          \/ savedFile \notin KeyFile /\ left = Profiles /\ Follows(Untrusted)
=============================================================================
