------------------------------- MODULE CommandLine -------------------------------
(***************************************************************************)
(* One invocation of the program after the other (src/src/main.rs): flags, *)
(* input, the root of the project (src/src/manifest.rs), the analysis, the *)
(* response (request mode: RouteJoin, step by step; manifest mode: the     *)
(* Delta of Output, one step), the output and the exit code.  I/O may fail *)
(* and the process may be killed anywhere; a further invocation finds the  *)
(* output file as the last one left it.                                    *)
(* Warnings, the hash, the time stamp and the cache directory, which is put*)
(* into the environment before any thread runs, are left out.              *)
(***************************************************************************)
EXTENDS RouteJoin

CONSTANTS
    Scenarios   \* the [cmd, request, static] considered

\* source: where the flag's input comes from; terminal: is stdin one; root:
\* project.root as written; kind: what lies at a relative root, seen from the
\* working directory and from the directory of the input file, and at the absolute
\* one; at: the path of the input file is absolute, goes through a directory or is
\* a bare name; old: what is in the output file; runs: how often it is run.
Command == [flags: SUBSET {"manifest", "request"}, terminal: BOOLEAN,
            source: {"-", "file"}, input: {"unreadable", "garbled", "good"},
            root: {"empty", "relative", "absolute"},
            kind: [{"cwd", "dir", "absolute"} -> {"dir", "file", "missing"}],
            at: {"absolute", "below", "bare"},
            out: {"-", "file"}, old: Seq(Nat), runs: Nat]

VARIABLES
    cmd,
    run,       \* number of the invocation
    phase,     \* "parse", "read", "load", "validate", "analyze", "build", "emit",
               \* "write" or "exited"
    root,      \* the root once resolved: "empty", "home", "cwd", "dir" or "absolute"
    out,       \* the output file: its blocks, each the run that wrote it
    written,   \* blocks this run has written
    printed,   \* blocks this run has put on stdout
    exit,      \* exit code; Killed
    before     \* the output file when the run began (history)

command == <<cmd, run, phase, root, out, written, printed, exit, before>>

\* A result, with the newline that ends it on stdout, is two blocks long.
Whole(n) == <<n, n>>
Killed   == 137

-----------------------------------------------------------------------------
RequestMode(c) == c.flags = {"request"}

\* Without a flag a manifest is read from stdin.
Source(c) == IF c.flags = {} THEN "-" ELSE c.source

\* Manifest::resolve_paths, resolve_path: only for a file; a relative root that
\* exists where the program runs goes first, and an empty one is the directory of
\* the input file, if its path names one.
ResolvePath(c) ==
    CASE c.root = "absolute"                            -> "absolute"
      [] c.root = "empty" /\ (Source(c) = "-" \/ c.at = "bare") -> "empty"
      [] c.root = "empty" /\ Source(c) = "file" /\ c.at # "bare" -> "home"
      [] c.root = "relative" /\ ( \/ Source(c) = "-" \/ c.at = "bare"
                                 \/ c.kind["cwd"] # "missing") -> "cwd"
      [] OTHER                                               -> "dir"

IsAbsolute(c, path) == \/ path \in {"absolute", "elsewhere"}
                       \/ path \in {"home", "dir"} /\ c.at = "absolute"

\* validate_manifest
IsDirectory(c, path) == path = "home" \/ (path # "empty" /\ c.kind[path] = "dir")

ASSUME ScenariosAssumption ==
    \A s \in Scenarios : /\ s.cmd \in Command
                         /\ s.request \in Requests /\ s.static \in Statics

Exit(code) == exit' = code /\ phase' = "exited"

CInit ==
    /\ \E s \in Scenarios : cmd = s.cmd /\ request = s.request /\ static = s.static
    /\ stage = "load" /\ next = 1 /\ matches = <<>> /\ diags = <<>> /\ matched = {}
    /\ partial = FALSE /\ response = NoResponse
    /\ run = 1 /\ phase = "parse" /\ root = "empty" /\ written = 0
    /\ printed = 0 /\ exit = None
    /\ out = cmd.old /\ before = out

-----------------------------------------------------------------------------
\* try_main: clap refuses both flags together with its own exit code.
ParseArgs ==
    /\ phase = "parse"
    /\ CASE cmd.flags = {"manifest", "request"}  -> Exit(2)
         [] cmd.flags = {} /\ cmd.terminal       -> Exit(1)
         [] OTHER                                -> phase' = "read" /\ UNCHANGED exit
    /\ UNCHANGED <<vars, cmd, run, root, out, written, printed, before>>

\* read_input_file and the decoding of its JSON
ReadInput ==
    /\ phase = "read"
    /\ IF cmd.input = "good" THEN phase' = "load" /\ UNCHANGED exit ELSE Exit(1)
    /\ UNCHANGED <<vars, cmd, run, root, out, written, printed, before>>

\* Both modes resolve the root; request mode also checks the request.
LoadManifest ==
    /\ phase = "load" /\ ~RequestMode(cmd)
    /\ root' = ResolvePath(cmd)
    /\ phase' = "validate"
    /\ UNCHANGED <<vars, cmd, run, out, written, printed, exit, before>>

LoadRequest ==
    /\ phase = "load" /\ RequestMode(cmd)
    /\ root' = ResolvePath(cmd)
    /\ Load({p \in Places : IsAbsolute(cmd, p)}, ResolvePath(cmd))
    /\ IF stage' = "rejected" THEN Exit(1) ELSE phase' = "validate" /\ UNCHANGED exit
    /\ UNCHANGED <<cmd, run, out, written, printed, before>>

ValidateRoot ==
    /\ phase = "validate"
    /\ IF IsDirectory(cmd, root) THEN phase' = "analyze" /\ UNCHANGED exit ELSE Exit(1)
    /\ UNCHANGED <<vars, cmd, run, root, out, written, printed, before>>

\* analyze_project
Analyze ==
    /\ phase = "analyze"
    /\ (phase' = "build" /\ UNCHANGED exit) \/ Exit(2)
    /\ UNCHANGED <<vars, cmd, run, root, out, written, printed, before>>

BuildDelta ==
    /\ phase = "build" /\ ~RequestMode(cmd)
    /\ phase' = "emit"
    /\ UNCHANGED <<vars, cmd, run, root, out, written, printed, exit, before>>

BuildResponse ==
    /\ phase = "build" /\ RequestMode(cmd)
    /\ \/ Join /\ UNCHANGED phase
       \/ Respond /\ phase' = "emit"
    /\ UNCHANGED <<cmd, run, root, out, written, printed, exit, before>>

-----------------------------------------------------------------------------
\* emit_output: println! writes the result bit by bit and panics (101) if nobody
\* reads stdout; the process ends with 0 in a step after the last one.
PrintOutput ==
    /\ phase = "emit" /\ cmd.out = "-"
    /\ \/ printed < Len(Whole(run)) /\ printed' = printed + 1 /\ UNCHANGED <<phase, exit>>
       \/ printed = Len(Whole(run)) /\ Exit(0) /\ UNCHANGED printed
       \/ printed < Len(Whole(run)) /\ Exit(101) /\ UNCHANGED printed
    /\ UNCHANGED <<vars, cmd, run, root, out, written, before>>

\* create_dir_all, then fs::write: the file is emptied, then written in place.
\* (Mutant: it is overwritten without being emptied.)
Unemptied(file) == file
Opened(file) == <<>>

OpenOutput ==
    /\ phase = "emit" /\ cmd.out = "file"
    /\ \/ /\ out' = Opened(out)
          /\ phase' = "write" /\ UNCHANGED exit
       \/ Exit(2) /\ UNCHANGED out
    /\ UNCHANGED <<vars, cmd, run, root, written, printed, before>>

WriteOutput ==
    /\ phase = "write"
    /\ \/ /\ written < Len(Whole(run))
          /\ written' = written + 1
          /\ out' = SubSeq(out, 1, written) \o <<run>> \o SubSeq(out, written + 2, Len(out))
          /\ UNCHANGED <<phase, exit>>
       \/ written = Len(Whole(run)) /\ Exit(0) /\ UNCHANGED <<out, written>>
       \/ written < Len(Whole(run)) /\ Exit(2) /\ UNCHANGED <<out, written>>
    /\ UNCHANGED <<vars, cmd, run, root, printed, before>>

\* The process is killed.
Kill ==
    /\ phase # "exited"
    /\ Exit(Killed)
    /\ UNCHANGED <<vars, cmd, run, root, out, written, printed, before>>

\* Somebody runs the command again.
Rerun ==
    /\ phase = "exited" /\ run < cmd.runs
    /\ run' = run + 1 /\ phase' = "parse" /\ root' = "empty" /\ exit' = None
    /\ written' = 0 /\ printed' = 0 /\ before' = out
    /\ stage' = "load" /\ next' = 1 /\ matches' = <<>> /\ diags' = <<>> /\ matched' = {}
    /\ partial' = FALSE /\ response' = NoResponse
    /\ UNCHANGED <<cmd, request, static, out>>

End == phase = "exited" /\ run = cmd.runs /\ UNCHANGED <<vars, command>>

CNext == ParseArgs \/ ReadInput \/ LoadManifest \/ LoadRequest \/ ValidateRoot
         \/ Analyze \/ BuildDelta \/ BuildResponse \/ PrintOutput \/ OpenOutput
         \/ WriteOutput \/ Kill \/ Rerun \/ End

CSpec == CInit /\ [][CNext]_<<vars, command>>

-----------------------------------------------------------------------------
\* The exit code tells what became of the output.  0: the whole result of this
\* run, and nothing else, is in the file or on stdout, whatever a killed run left
\* there.  1: the file is as it was, nothing is printed, and the project has not been
\* looked at.  2: nothing is printed.  101: stdout was closed on an unfinished result.
\* Whatever the end, what is printed is of a finished analysis, and the file is as
\* it was unless the result was complete and writing it failed or was cut off, and
\* then nothing of an older result is in it.
ExitTellsOutput ==
    /\ phase \notin {"write", "exited"} => out = before
    /\ phase \notin {"emit", "exited"} => printed = 0
    /\ phase = "exited" =>
         /\ exit = 0 => IF cmd.out = "file" THEN out = Whole(run) /\ printed = 0
                        ELSE printed = Len(Whole(run)) /\ out = before
         /\ exit = 1 => out = before /\ printed = 0 /\ response = NoResponse
         /\ exit = 2 => printed = 0
         /\ exit = 101 => cmd.out = "-" /\ printed < Len(Whole(run))
         /\ printed # 0 => /\ cmd.out = "-" /\ out = before
                           /\ RequestMode(cmd) => response # NoResponse
         /\ exit # 0 /\ out # before => /\ cmd.out = "file"
                                        /\ RequestMode(cmd) => response # NoResponse
                                        /\ \A i \in DOMAIN out : out[i] = run

\* What is analysed is a directory, and in request mode the absolute path the host
\* names; a project that only the working directory decides about is analysed in
\* manifest mode alone, and a request with a relative root on stdin never.
RootIsAgreed ==
    phase \in {"analyze", "build", "emit", "write"} =>
        /\ IsDirectory(cmd, root)
        /\ RequestMode(cmd) => IsAbsolute(cmd, root) /\ request.base = root
        /\ root = "cwd" => ~RequestMode(cmd)
        /\ RequestMode(cmd) /\ Source(cmd) = "-" => cmd.root = "absolute"

-----------------------------------------------------------------------------
\* The inductive invariant behind the two, see CommandLineProofs.

\* How far the request is when the invocation is in a phase.
StageOf(p) ==
    IF ~RequestMode(cmd) \/ p \in {"parse", "read", "load"} THEN {"load"}
    ELSE CASE p \in {"validate", "analyze", "build"} -> {"join"}
           [] p \in {"emit", "write"}               -> {"done"}
           [] OTHER                                 -> {"load", "join", "done", "rejected"}

CommandShape ==
    /\ cmd \in Command /\ run \in Nat \ {0}
    /\ written \in 0 .. 2 /\ printed \in 0 .. 2
    /\ phase \in {"parse", "read", "load", "validate", "analyze", "build", "emit",
                  "write", "exited"}
    /\ stage \in StageOf(phase)

\* Before it opens the file a run has not touched it, and before it emits the result
\* it has printed nothing; while it writes, the file holds what this run has written.
OutputTells ==
    /\ phase \notin {"write", "exited"} => out = before /\ written = 0
    /\ phase \notin {"emit", "exited"} => printed = 0
    /\ phase = "emit" /\ printed # 0 => cmd.out = "-"
    /\ phase = "write" => cmd.out = "file" /\ out = [i \in 1 .. written |-> run]

RootTells ==
    /\ phase \in {"validate", "analyze", "build", "emit", "write"} =>
         /\ root = ResolvePath(cmd)
         /\ RequestMode(cmd) => IsAbsolute(cmd, root) /\ request.base = root
    /\ phase \in {"analyze", "build", "emit", "write"} => IsDirectory(cmd, root)

CommandInv == JoinInv /\ CommandShape /\ OutputTells /\ RootTells /\ ExitTellsOutput
=============================================================================
