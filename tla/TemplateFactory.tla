--------------------------- MODULE TemplateFactory ---------------------------
(* Fmi::TemplateFactory (TemplateFactory.cpp): every thread keeps its own formatters
   of a template file, by the time the file was written, while the file is written,
   replaced and removed by others.

   The file system is external.  Files are apart from one another: the module has one. *)
EXTENDS Naturals

CONSTANTS
  TemplateUsers,  \* threads
  MaxVersions,    \* bound: how often the file is written
  WriteTimes      \* bound: times of writing, in seconds

ASSUME TemplateAssumption == MaxVersions \in Nat /\ WriteTimes \subseteq Nat

VARIABLES
  template,      \* the file: [version, modtime], or NoTemplate
  itsTemplates,  \* what each thread keeps: [modtime, version], or NoTemplate
  getPc,         \* where each thread is in get()
  modtime,       \* the time that it has read
  atCall,        \* history: the version when it was called
  got,           \* the version of the formatter that it has returned, or 0
  timesTell      \* history: no two versions were written in the same second

templateVars == <<template, itsTemplates, getPc, modtime, atCall, got, timesTell>>

\* A version is a number, and 0 that of a file that is not there.
NoTemplate == [version |-> 0, modtime |-> 0]
TemplateType == [version : 0 .. MaxVersions, modtime : WriteTimes \cup {0}]

TemplateInit ==
  /\ template = NoTemplate
  /\ itsTemplates = [t \in TemplateUsers |-> NoTemplate]
  /\ getPc = [t \in TemplateUsers |-> "out"]
  /\ modtime = [t \in TemplateUsers |-> 0]
  /\ atCall = [t \in TemplateUsers |-> 0]
  /\ got = [t \in TemplateUsers |-> 0]
  /\ timesTell = [seen |-> {}, apart |-> TRUE, versions |-> 0]

FileExists == template.version # 0

\* A file of any age takes the place of the one there is.
FileReplaced ==
  /\ timesTell.versions < MaxVersions
  /\ \E t \in WriteTimes :
       /\ template' = [version |-> timesTell.versions + 1, modtime |-> t]
       /\ timesTell' = [seen |-> timesTell.seen \cup {t},
                        apart |-> timesTell.apart /\ t \notin timesTell.seen,
                        versions |-> timesTell.versions + 1]
  /\ UNCHANGED <<itsTemplates, getPc, modtime, atCall, got>>

FileRemoved ==
  /\ FileExists
  /\ template' = NoTemplate
  /\ UNCHANGED <<itsTemplates, getPc, modtime, atCall, got, timesTell>>

\* The time is read, or get() throws as there is none.
GetCalled(t) ==
  /\ getPc[t] = "out" /\ FileExists
  /\ getPc' = [getPc EXCEPT ![t] = "dated"]
  /\ modtime' = [modtime EXCEPT ![t] = template.modtime]
  /\ atCall' = [atCall EXCEPT ![t] = template.version]
  /\ got' = [got EXCEPT ![t] = 0]
  /\ UNCHANGED <<template, itsTemplates, timesTell>>

IsCached(t) == itsTemplates[t] # NoTemplate

\* mutant: what is kept is used, however old it is
UpToDateIfCached(t) == IsCached(t)

UpToDate(t) == IsCached(t) /\ itsTemplates[t].modtime = modtime[t]

ReturnsCached(t) ==
  /\ getPc[t] = "dated"
  /\ UpToDate(t)
  /\ got' = [got EXCEPT ![t] = itsTemplates[t].version]
  /\ getPc' = [getPc EXCEPT ![t] = "out"]
  /\ UNCHANGED <<template, itsTemplates, modtime, atCall, timesTell>>

\* insert() does not replace what is there: the first formatter of a thread is the only
\* one it keeps, and a file that was written since is loaded by every call.
Inserted(t, info) == IF IsCached(t) THEN itsTemplates[t] ELSE info

\* What is there is loaded, by now perhaps another file than the one of that time.
LoadsTemplate(t) ==
  /\ getPc[t] = "dated"
  /\ ~UpToDate(t)
  /\ getPc' = [getPc EXCEPT ![t] = "out"]
  /\ IF FileExists
     THEN /\ itsTemplates' = [itsTemplates EXCEPT ![t] =
                                Inserted(t, [version |-> template.version, modtime |-> modtime[t]])]
          /\ got' = [got EXCEPT ![t] = template.version]
     ELSE UNCHANGED <<itsTemplates, got>>
  /\ UNCHANGED <<template, modtime, atCall, timesTell>>

TemplateNext ==
  \/ FileReplaced \/ FileRemoved
  \/ \E t \in TemplateUsers : GetCalled(t) \/ ReturnsCached(t) \/ LoadsTemplate(t)

TemplateSpec == TemplateInit /\ [][TemplateNext]_templateVars
-----------------------------------------------------------------------------
TemplateTypeOK ==
  /\ template \in TemplateType
  /\ itsTemplates \in [TemplateUsers -> TemplateType]
  /\ getPc \in [TemplateUsers -> {"out", "dated"}]
  /\ modtime \in [TemplateUsers -> WriteTimes \cup {0}]
  /\ {atCall, got} \subseteq [TemplateUsers -> 0 .. MaxVersions]
  /\ timesTell \in [seen : SUBSET WriteTimes, apart : BOOLEAN, versions : 0 .. MaxVersions]

(* A formatter is at least as new as the file was when get() was called, however the
   file is replaced between the reading of its time and the loading of it, as long as
   no two versions have the same time: the time is read before the file, so that a
   formatter is kept as too old and never as too new (TemplateFactory.cpp:37-66).     *)
TemplatesAreCurrent ==
  timesTell.apart => \A t \in TemplateUsers : got[t] # 0 => got[t] >= atCall[t]
=============================================================================
