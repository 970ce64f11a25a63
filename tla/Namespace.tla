------------------------------ MODULE Namespace ------------------------------
(***************************************************************************)
(* One drive and the program that uses it: TOS, which makes and removes    *)
(* links, or the shell of toscli, which removes paths with everything      *)
(* below.  A drive is not used by both in the same behaviour: the removal  *)
(* of toscli does not look at links (its code calls it deprecated).        *)
(***************************************************************************)
EXTENDS Shell

\* toscli has no command that makes a link.
ASSUME ProgramsAssumption == \A s \in Programs : "remove" \in s => "link" \notin s

allVars == <<vars, shellVars>>

NsInit == Init /\ ShellInit

Toscli == "remove" \in calls

Tos(call)      == ~Toscli /\ call /\ Tearing /\ UNCHANGED <<calls, shellVars>>
Shell(command) == Toscli /\ command /\ Tearing /\ UNCHANGED calls

Next ==
  \/ \E p \in Path : Tos(Query(p))
  \/ Tos(OpenRoot)
  \/ \E p \in Path : Tos(OpenExisting(p))
  \/ \E p \in Path : Tos(OpenNew(p))
  \/ \E p \in Path : Tos(OpenNewThrows(p))
  \/ \E i \in held : Tos(Close(i))
  \/ \E p \in Path : Tos(CreateCatalog(p))
  \/ \E p, q \in Path : Tos(Link(p, q))
  \/ \E p, q \in Path : Tos(LinkThrows(p, q))
  \/ \E p \in Path : Tos(Unlink(p))
  \/ \E p \in Path : Tos(UnlinkThrows(p))
  \/ \E p \in Arg \cup {cwd} : Shell(Ls(p))
  \/ \E p \in Arg \cup Up : Shell(Cd(p))
  \/ \E p \in Arg : Shell(Mkdir(p))
  \/ \E p \in Arg : Shell(Rm(p))
  \/ \E p \in Arg : Shell(Cat(p))
  \/ \E p \in Arg : Shell(Touch(p))
  \/ \E p \in Arg : Shell(Download(p))
  \/ \E p \in Arg : Shell(UploadFile(p))
  \/ \E h \in Hosts : Shell(UploadDirectory(h))
  \/ Shell(Removing)
  \/ \E p \in Upcoming : Shell(UploadCatalog(p))
  \/ \E p \in Upcoming : Shell(UploadCatalogThrows(p))
  \/ \E p \in Upcoming : Shell(UploadEntry(p))
  \/ Shell(Put)
  \/ Shell(PutThrows)
  \/ Shell(Return)

\* There is one thread, and a command runs until it is done.
Fairness == WF_allVars(Shell(Continue))

Spec == NsInit /\ [][Next]_allVars /\ Fairness

=============================================================================
