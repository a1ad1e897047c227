------------------------------- MODULE Syslog ------------------------------
(***************************************************************************)
(* The system log (src/src/kernel.c): log_putchar keeps the lines that begin *)
(* with a tag in a buffer; flush_syslog moves the buffer to a file under     *)
(* /var/log or, if that cannot be written and read back, to one in the root. *)
(* Lines are numbered.                                                       *)
(***************************************************************************)
EXTENDS Integers, Sequences

CONSTANTS
  SyslogCap,    \* lines after which log_putchar flushes; one more fits
  LogLines      \* bound: tagged lines

VARIABLES
  sysOn,      \* syslog_enabled
  sysBuf,     \* syslog_buffer up to syslog_pos
  sysFails,   \* syslog_flush_fail_count
  sysFile,    \* var/log/ajos
  rootFile,   \* ajos.log
  logNo,      \* tagged lines so far
  sysLost     \* history: why a line may be missing

sysVars == <<sysOn, sysBuf, sysFails, sysFile, rootFile, logNo, sysLost>>

SysInit ==
  /\ sysOn = FALSE /\ sysBuf = <<>> /\ sysFails = 0
  /\ sysFile = <<>> /\ rootFile = <<>>
  /\ logNo = 0 /\ sysLost = {}

(* flush_syslog with write_syslog_file: the file's lines and those of the    *)
(* buffer are written back.  mem, sub and root say whether kmalloc, the      *)
(* write under /var/log and the write in the root succeed.  The buffer is    *)
(* emptied unless there was no memory; three failures switch the log off.    *)
FlushedFile(buf) == sysFile \o buf
flush_syslog(on, buf, lost, mem, sub, root) ==
  LET n == IF sub \/ root THEN 0 ELSE sysFails + 1
  IN  IF buf = <<>> \/ ~mem
        THEN /\ sysBuf' = buf /\ sysOn' = on /\ sysLost' = lost
             /\ UNCHANGED <<sysFails, sysFile, rootFile>>
        ELSE /\ sysBuf' = <<>>
             /\ sysFails' = n
             /\ sysOn' = (on /\ n < 3)
             /\ sysFile' = IF sub THEN FlushedFile(buf) ELSE sysFile
             /\ rootFile' = IF ~sub /\ root THEN FlushedFile(buf) ELSE rootFile
             /\ sysLost' = lost \cup (IF sub THEN {} ELSE IF root THEN {"root"} ELSE {"failed"})

(* log_putchar of a tagged line; beyond the buffer's end it is dropped.      *)
SysKept(n) == IF Len(sysBuf) <= SyslogCap THEN Append(sysBuf, n) ELSE sysBuf
TaggedLine(mem, sub, root) ==
  LET buf  == SysKept(logNo + 1)
      lost == IF buf = sysBuf THEN sysLost \cup {"dropped"} ELSE sysLost
  IN  /\ sysOn /\ logNo < LogLines
      /\ logNo' = logNo + 1
      /\ IF Len(buf) >= SyslogCap THEN flush_syslog(sysOn, buf, lost, mem, sub, root)
         ELSE sysBuf' = buf /\ UNCHANGED <<sysOn, sysFails, sysFile, rootFile, sysLost>>

(* cmd_syslog *)
cmd_syslog(arg, mem, sub, root) ==
  /\ flush_syslog(IF arg = "start" THEN TRUE ELSE IF arg = "stop" THEN FALSE ELSE sysOn,
                  sysBuf, sysLost, mem, sub, root)
  /\ UNCHANGED logNo

SysNext ==
  \/ \E mem, sub, root \in BOOLEAN : TaggedLine(mem, sub, root)
  \/ \E a \in {"start", "stop", "flush"}, mem, sub, root \in BOOLEAN :
       cmd_syslog(a, mem, sub, root)

-----------------------------------------------------------------------------
Has(s, n) == \E i \in DOMAIN s : s[i] = n

(* The buffer is never written past its end. *)
SysTypeOK == Len(sysBuf) <= SyslogCap + 1 /\ sysFails \in Nat /\ logNo \in 0 .. LogLines

(* Every tagged line is in the buffer or in the log file, in order and once, *)
(* as long as the file under /var/log could be written and read back and no  *)
(* line was dropped for want of memory.                                      *)
SyslogKeeps ==
  sysLost = {} => sysFile \o sysBuf = [i \in 1 .. logNo |-> i]

(* "falling back to a root-level ajos.log so logs are never lost"            *)
(* (kernel.c, write_syslog_file): with the fallback too every line is in the *)
(* buffer or in one of the files.                                            *)
LogsNeverLost ==
  sysLost \subseteq {"root"} =>
    \A n \in 1 .. logNo : Has(sysBuf, n) \/ Has(sysFile, n) \/ Has(rootFile, n)
=============================================================================
