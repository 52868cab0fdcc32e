------------------------------ MODULE DropFile ------------------------------
(***************************************************************************)
(* The drop file in which the BBS tells a door about the caller: od_init   *)
(* (src/src/ODInEx1.c) reads it line by line, and od_exit                  *)
(* (src/src/ODInEx2.c) writes it anew, line by line, with what the         *)
(* application changed.  A line is either a member of od_control, or it is *)
(* kept as it is in a string of apszDropFileInfo until the end.            *)
(*                                                                         *)
(* A line is written <<name, value>>: the member that it is about, or the  *)
(* number of the string that keeps it.  Lines fit their buffers, and their *)
(* text is one that the library prints the way it reads it.                *)
(***************************************************************************)
EXTENDS Integers, Sequences

CONSTANTS
    Files,     \* the drop files: records of a type and a number of lines
    Changeable \* the members that the application or the library may change

\* What od_init reads the lines of each format into.
ReadsCHAINTXT ==
    <<"user_num", "user_handle", "user_name", "user_callsign", "0", "user_sex", "1",
      "user_lastdate", "user_screenwidth", "user_screen_length", "user_security", "bIsSysop",
      "bIsCoSysop", "user_ansi", "remote", "user_timelimit", "3", "4", "5", "baud", "port", "6",
      "user_password", "2", "7", "8", "9", "10", "11", "12">>
ReadsGAP ==
    <<"port", "0", "1", "od_node", "btDoorSYSLock", "3", "4", "5", "22", "user_name",
      "user_location", "user_homephone", "user_dataphone", "user_password", "user_security",
      "user_numcalls", "user_lastdate", "seconds", "user_timelimit", "user_rip",
      "user_screen_length", "8", "9", "10", "user_subdate", "user_num", "6", "user_uploads",
      "user_downloads", "user_todayk", "21">>
ReadsWILDCAT == ReadsGAP \o
    <<"user_birthday", "11", "12", "sysop_name", "user_handle", "event_starttime",
      "user_error_free", "7", "13", "14", "15", "16", "user_logintime", "user_lasttime", "18",
      "19", "user_upk", "user_downk", "user_comment", "20", "user_messages">>
ReadsDRWY == <<"user_name", "port", "baud", "user_timelimit", "user_ansi">>
ReadsSFDOORSDAT ==
    <<"user_num", "user_name", "user_password", "0", "baud", "port", "user_timelimit", "13",
      "14", "user_ansi", "user_security", "user_uploads", "user_downloads", "1", "2", "3",
      "sysop_next", "4", "5", "6", "user_error_free", "user_msg_area", "user_file_area",
      "od_node", "10", "11", "12", "user_todayk", "user_upk", "user_downk", "user_homephone",
      "user_location">> \o
    <<"15", "user_rip", "user_wantchat", "17", "od_com_irq", "od_com_address", "18">>
ReadsTRIBBSSYS ==
    <<"user_num", "user_name", "user_password", "user_security", "user_expert", "user_ansi",
      "user_timelimit", "user_homephone", "user_location", "user_birthday", "od_node", "port",
      "od_connect_speed", "baud", "od_com_flow_control", "user_error_free", "system_name",
      "sysop_name", "user_handle", "user_rip">>

\* What od_exit writes, in its order.
WritesCHAINTXT ==
    <<"user_num", "user_handle", "user_name", "user_callsign", "0", "user_sex", "1",
      "user_lastdate", "user_screenwidth", "user_screen_length", "user_security", "bIsSysop",
      "bIsCoSysop", "user_ansi", "remote", "user_timelimit", "3", "4", "5", "baud", "port", "6",
      "user_password", "2", "7", "8", "9", "10", "11", "12">>
WritesGAP ==
    <<"port", "0", "1", "od_node", "btDoorSYSLock", "3", "4", "5", "22", "user_name",
      "user_location", "user_homephone", "user_dataphone", "user_password", "user_security",
      "user_numcalls", "user_lastdate", "seconds", "user_timelimit", "user_rip",
      "user_screen_length", "8", "9", "10", "user_subdate", "user_num", "6", "user_uploads",
      "user_downloads", "user_todayk", "21">>
WritesWILDCAT == WritesGAP \o
    <<"user_birthday", "11", "12", "sysop_name", "user_handle", "event_starttime",
      "user_error_free", "7", "13", "14", "15", "16", "user_logintime", "user_lasttime", "18",
      "19", "user_upk", "user_downk", "user_comment", "20", "user_messages">>
WritesDRWY == <<"user_name", "port", "baud", "user_timelimit", "user_ansi">>
WritesSFDOORSDAT ==
    <<"user_num", "user_name", "user_password", "0", "baud", "port", "user_timelimit", "13",
      "14", "user_ansi", "user_security", "user_uploads", "user_downloads", "1", "2", "3",
      "sysop_next", "4", "5", "6", "user_error_free", "user_msg_area", "user_file_area",
      "od_node", "10", "11", "12", "user_todayk", "user_upk", "user_downk", "user_homephone",
      "user_location">>
\* Only if there was something in its first line.
WritesSFDOORSDATTail ==
    <<"15", "user_rip", "user_wantchat", "17", "od_com_irq", "od_com_address", "18">>
WritesTRIBBSSYS ==
    <<"user_num", "user_name", "user_password", "user_security", "user_expert", "user_ansi",
      "user_timelimit", "user_homephone", "user_location", "user_birthday", "od_node", "port",
      "od_connect_speed", "baud", "od_com_flow_control", "user_error_free", "system_name",
      "sysop_name", "user_handle", "user_rip">>

\* The lines of a file that is complete.
Format ==
    [CHAINTXT |-> ReadsCHAINTXT, DOORSYS |-> ReadsWILDCAT, DRWY |-> ReadsDRWY,
     SFDOORSDAT |-> ReadsSFDOORSDAT, TRIBBSSYS |-> ReadsTRIBBSSYS]

\* The lines that a file must have; SFDOORS.DAT and DOOR.SYS may have more.
Needed(type) ==
    CASE type = "DOORSYS" -> Len(ReadsGAP)
      [] type = "SFDOORSDAT" -> Len(WritesSFDOORSDAT)
      [] OTHER -> Len(Format[type])

FilesAssumption ==
    \A f \in Files : f.type \in DOMAIN Format /\ f.lines \in 0..Len(Format[f.type])

Names == UNION {{Format[f][i] : i \in 1..Len(Format[f])} : f \in DOMAIN Format}

Info == {"0", "1", "2", "3", "4", "5", "6", "7", "8", "9", "10", "11", "12", "13", "14", "15",
         "16", "17", "18", "19", "20", "21", "22"}

VARIABLES
    dropFile,      \* the file as the BBS wrote it: every line of it is an "old" one
    od_info_type,  \* what it was taken for
    kept,          \* od_control and apszDropFileInfo: "none", or an "old" or a "new" value;
                   \* nothing before the file is read
    stage,         \* "init", "running", "failed", "writing", "closed"
    line,          \* lines written, or suppressed
    out,           \* what is in the file that the BBS gets back, once it is opened
    nErrorCode     \* the writer's first failure is recorded

dropFileVars == <<dropFile, od_info_type, kept, stage, line, out, nErrorCode>>

DropFileInit ==
    /\ dropFile \in Files
    /\ od_info_type = "none" /\ kept = << >>
    /\ stage = "init" /\ line = 0 /\ out = << >> /\ nErrorCode = FALSE
-----------------------------------------------------------------------------
\* Two lines say again, in other words, what another line says, and are not
\* kept: whether the caller is remote, and how many seconds he has left.
Source(name) ==
    CASE name = "remote" -> "baud" [] name = "seconds" -> "user_timelimit" [] OTHER -> name

\* The file is read.  A DOOR.SYS is taken for the long form if it is complete.
Read ==
    LET type == dropFile.type IN
    /\ stage = "init"
    /\ IF dropFile.lines < Needed(type)
       THEN stage' = "failed" /\ UNCHANGED <<od_info_type, kept>>
       ELSE /\ stage' = "running"
            /\ kept' = [n \in Names |->
                  IF \E i \in 1..dropFile.lines : Format[type][i] = n THEN "old" ELSE "none"]
            /\ od_info_type' =
                  IF type # "DOORSYS" THEN type
                  ELSE IF dropFile.lines = Len(ReadsWILDCAT) THEN "WILDCAT" ELSE "GAP"
    /\ UNCHANGED <<dropFile, line, out, nErrorCode>>

\* The application, or the library, changes a member of od_control.
\* One member stands for any number of them: the lines do not share any.
Change(member) ==
    /\ stage = "running" /\ \A n \in DOMAIN kept : kept[n] # "new"
    /\ \E i \in 1..dropFile.lines : Format[dropFile.type][i] = member
    /\ kept' = [kept EXCEPT ![member] = "new"]
    /\ UNCHANGED <<dropFile, od_info_type, stage, line, out, nErrorCode>>

\* The lines that od_exit means to write.
Written ==
    CASE od_info_type = "CHAINTXT" -> WritesCHAINTXT
      [] od_info_type = "GAP" -> WritesGAP
      [] od_info_type = "WILDCAT" -> WritesWILDCAT
      [] od_info_type = "DRWY" -> WritesDRWY
      [] od_info_type = "SFDOORSDAT" -> WritesSFDOORSDAT \o
            (IF kept["15"] = "none" THEN << >> ELSE WritesSFDOORSDATTail)
      [] od_info_type = "TRIBBSSYS" -> WritesTRIBBSSYS

\* A string that was not read is empty and makes no line.  The password of
\* TRIBBS.SYS is read with its end of line, and written with another.
Printed(name) ==
    CASE name \in Info /\ kept[name] = "none" -> << >>
      [] od_info_type = "TRIBBSSYS" /\ name = "user_password" /\ kept[name] = "old" ->
            <<<<name, "old">>, <<"", "old">>>>
      [] OTHER -> <<<<name, kept[Source(name)]>>>>

\* ODDropFileOpen, which may fail; a file that opens is empty.
Open ==
    /\ stage = "running"
    /\ \/ stage' = "writing" /\ out' = << >> /\ UNCHANGED nErrorCode
       \/ stage' = "closed" /\ nErrorCode' = TRUE /\ UNCHANGED out
    /\ UNCHANGED <<dropFile, od_info_type, kept, line>>

Writes(success) ==
    /\ stage = "writing" /\ line < Len(Written) /\ line' = line + 1
    /\ IF success
       THEN /\ out' = out \o Printed(Written[line + 1])
            /\ UNCHANGED nErrorCode
       ELSE /\ \E length \in 0..Len(out) : out' = SubSeq(out, 1, length)
            /\ nErrorCode' = TRUE
    /\ UNCHANGED <<dropFile, od_info_type, kept, stage>>

\* Mutant: the failure of an earlier line does not suppress the later ones.
WriteOn == \E success \in BOOLEAN : Writes(success)

\* ODTextDropFileWrite: when a line fails (one cut short counts as missing),
\* lines that were still in the stream's buffer may be missing as well.
WriteLine == ~nErrorCode /\ \E success \in BOOLEAN : Writes(success)

\* After the first failure nothing is written any more.
Suppress ==
    /\ stage = "writing" /\ line < Len(Written) /\ nErrorCode
    /\ line' = Len(Written)
    /\ UNCHANGED <<dropFile, od_info_type, kept, stage, out, nErrorCode>>

\* ODDropFileClose: what is in the buffer may not get into the file.
Close ==
    /\ stage = "writing" /\ line = Len(Written) /\ stage' = "closed"
    /\ \/ UNCHANGED <<out, nErrorCode>>
       \/ /\ \E length \in 0..Len(out) : out' = SubSeq(out, 1, length)
          /\ nErrorCode' = TRUE
    /\ UNCHANGED <<dropFile, od_info_type, kept, line>>

DropFileNext ==
    \/ Read \/ \E member \in Changeable : Change(member)
    \/ Open \/ WriteLine \/ Suppress \/ Close

DropFileSpec == DropFileInit /\ [][DropFileNext]_dropFileVars
-----------------------------------------------------------------------------
DropFileTypeOK ==
    /\ dropFile \in Files
    /\ od_info_type \in {"none", "GAP", "WILDCAT"} \union DOMAIN Format
    /\ \A n \in DOMAIN kept : kept[n] \in {"none", "old", "new"}
    /\ stage \in {"init", "running", "failed", "writing", "closed"}
    /\ line \in 0..Len(ReadsWILDCAT) /\ nErrorCode \in BOOLEAN
    /\ Len(out) <= Len(ReadsWILDCAT)
    /\ \A i \in 1..Len(out) : out[i] = <<out[i][1], out[i][2]>>

\* Where the library does not keep the lines of a file in their places: the
\* second end of line of TRIBBS.SYS's password, SFDOORS.DAT that ends where
\* a string in its middle stays empty and the lines that are added behind it
\* come one place early, DOOR.SYS between its two forms.
Disarranged ==
    \/ od_info_type = "TRIBBSSYS" /\ kept["user_password"] = "old"
    \/ od_info_type = "SFDOORSDAT" /\ dropFile.lines \in 33..35
    \/ od_info_type = "GAP" /\ dropFile.lines > Len(ReadsGAP)

\* What the BBS finds when the door is gone: every line is in its place in the
\* format, with the value that it had when the door read it, or that the
\* application gave it; and lines are missing only if the writer has recorded a
\* failure.  The line after one that could not be written never takes its place.
LinesStayInPlace ==
    stage = "closed" /\ ~Disarranged =>
        /\ Len(out) <= Len(Format[dropFile.type])
        /\ \A i \in 1..Len(out) :
              LET name == Format[dropFile.type][i] IN out[i] = <<name, kept[Source(name)]>>
        /\ Len(out) < dropFile.lines => nErrorCode
=============================================================================
