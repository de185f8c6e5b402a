------------------------------ MODULE NativeOta ------------------------------
(***************************************************************************)
(* The native OTA example (system/ota/native_ota): a task downloads an     *)
(* image over HTTP, cutting the response as recv happens to deliver it,    *)
(* writes it to the update partition and makes that one the boot           *)
(* partition.  The variants differ in which part of the body is the image. *)
(* A unit of the response is its position: lines of two units, of which    *)
(* the second ends the line, then the body.                                *)
(***************************************************************************)
EXTENDS Naturals, Sequences, SequencesExt

CONSTANTS TEXT_BUFFSIZE, \* units one recv takes
          Files,         \* the served files: [variant, content_len, skip, ota_num, update]
          MaxBoots       \* bound: starts of the device

VARIABLES file,      \* the file and variant of this download
          pc,        \* where ota_example_task is; "dead": deleted, "reset": about to restart
          wifi,      \* initialise_wifi has connected
          ota_firm,  \* esp_ota_firm_t: state, content_len known, read_bytes, write_bytes
          taken,     \* units of the response received so far
          net,       \* "open", "short" (the server gave up) or "done"
          partition, \* the body units in the update partition
          boot,      \* which image the boot partition names
          boots, trouble  \* starts so far; history: something outside has failed
vars == <<file, pc, wifi, ota_firm, taken, net, partition, boot, boots, trouble>>

HeaderLen == 6   \* status line, Content-Length, empty line
FreshFirm == [state |-> "INIT", known |-> FALSE, read |-> 0, write |-> 0]

\* What the Content-Length gives: _esp_ota_firm_parse_http of each variant.
OtaPart(size, offset) == [size |-> size, offset |-> offset]
WithOldPart == OtaPart(file.content_len - file.skip, file.skip)
CopyPart    == OtaPart(file.content_len, 0)
NoCopyPart  == OtaPart(file.content_len \div file.ota_num, (file.content_len \div file.ota_num) * file.update)
Part == CASE file.variant = "with_old" -> WithOldPart [] file.variant = "copy" -> CopyPart
          [] file.variant = "no_copy" -> NoCopyPart
OtaSize == Part.size
OtaOffset == Part.offset
Image == [i \in 1..OtaSize |-> OtaOffset + i]

Init == /\ file \in Files /\ pc = "wifi" /\ wifi = FALSE /\ ota_firm = FreshFirm /\ taken = 0
        /\ net = "open" /\ partition = <<>> /\ boot = "old" /\ boots = 1 /\ trouble = FALSE
-----------------------------------------------------------------------------
\* app_main: only with_old reads the old firmware's access point, and without
\* it does not connect at all.
InitialiseWifi == /\ pc = "wifi" /\ pc' = "connect"
                  /\ \/ wifi' = TRUE /\ UNCHANGED trouble
                     \/ file.variant = "with_old" /\ wifi' = FALSE /\ trouble' = TRUE
                  /\ UNCHANGED <<file, ota_firm, taken, net, partition, boot, boots>>
\* task_fatal_error after a call that failed: close and delete the task.
Fatal == pc' = "dead" /\ trouble' = TRUE /\ UNCHANGED <<ota_firm, partition, boot>>

ConnectToHttpServer == /\ pc = "connect"
                       /\ \/ wifi /\ pc' = "begin" /\ UNCHANGED <<ota_firm, partition, boot, trouble>>
                          \/ Fatal
                       /\ UNCHANGED <<file, wifi, taken, net, boots>>
\* The GET and esp_ota_begin, which erases the partition.
BeginOta == /\ pc = "begin"
            /\ \/ /\ pc' = "recv" /\ partition' = <<>> /\ ota_firm' = FreshFirm
                  /\ UNCHANGED <<boot, trouble>>
               \/ Fatal
            /\ UNCHANGED <<file, wifi, taken, net, boots>>

\* _esp_ota_firm_parse_http of units taken+1..upto: how many it parses when the
\* header ends there, otherwise all of them.
HeaderDone(upto) == upto >= HeaderLen
LengthHere(upto) == taken <= 2 /\ upto >= 4
LengthKnown(upto) == ota_firm.known \/ LengthHere(upto)
\* A chunk that cuts a line is fatal; one that cuts the value of Content-Length
\* has strstr return NULL, and the copy that follows may as well reset the chip.
CutsLine(upto) == upto < HeaderLen /\ upto % 2 = 1
CutsLength(upto) == upto = 3

\* ESP_OTA_PREPARE with n more body units: what is past the offset is written.
Prepare(n) == LET read == ota_firm.read + n IN
    IF read >= OtaOffset
    THEN [ota_firm EXCEPT !.state = "START", !.read = read, !.write = @ + (read - OtaOffset), !.known = TRUE]
    ELSE [ota_firm EXCEPT !.state = "PREPARE", !.read = read, !.known = TRUE]
\* ESP_OTA_START: up to ota_size, and only what exceeds it ends the reception.
Start(n) == IF ota_firm.write + n > OtaSize
            THEN [ota_firm EXCEPT !.state = "RECVED", !.write = OtaSize]
            ELSE [ota_firm EXCEPT !.write = @ + n]
\* esp_ota_firm_parse_msg on n body units (0: the chunk ended with the header).
BodyParsed(n) == IF ota_firm.state = "START" THEN Start(n)
                 ELSE IF n = 0 THEN [ota_firm EXCEPT !.state = "PREPARE", !.known = TRUE] ELSE Prepare(n)
\* The one below always writing from the front of the chunk (a mutant).
WriteBufFromStart(upto, firm) == LET bytes == firm.write - ota_firm.write
                        IN [i \in 1..bytes |-> (IF taken > HeaderLen THEN taken - HeaderLen ELSE 0) + i]
\* esp_ota_firm_get_write_buf: PREPARE writes the last units of the chunk, START the first.
WriteBuf(upto, firm) == LET bytes == firm.write - ota_firm.write
                            first == IF ota_firm.state = "START" THEN taken - HeaderLen
                                     ELSE upto - HeaderLen - bytes
                        IN [i \in 1..bytes |-> first + i]

\* One turn of the loop with buff_len > 0.
RecvHeader(upto) ==
    /\ ~(HeaderDone(upto) /\ LengthKnown(upto))
    /\ IF CutsLine(upto) \/ HeaderDone(upto)       \* malformed, or no Content-Length
       THEN /\ pc' \in {"dead"} \cup (IF CutsLength(upto) THEN {"reset"} ELSE {})
            /\ trouble' = (trouble \/ CutsLine(upto))
            /\ UNCHANGED <<ota_firm, partition, boot>>
       ELSE /\ ota_firm' = [ota_firm EXCEPT !.known = LengthKnown(upto)]
            /\ UNCHANGED <<pc, partition, boot, trouble>>
RecvBody(upto) ==
    /\ HeaderDone(upto) /\ LengthKnown(upto)
    /\ LET firm == BodyParsed(upto - (IF taken > HeaderLen THEN taken ELSE HeaderLen)) IN
       /\ ota_firm' = firm
       /\ IF firm.state \in {"START", "RECVED"}                  \* esp_ota_firm_can_write
          THEN \/ /\ partition' = partition \o WriteBuf(upto, firm)
                  /\ pc' = IF firm.state = "RECVED" THEN "end" ELSE "recv"
                  /\ UNCHANGED trouble
               \/ pc' = "dead" /\ trouble' = TRUE /\ UNCHANGED partition   \* esp_ota_write failed
          ELSE UNCHANGED <<pc, partition, trouble>>
    /\ UNCHANGED boot
RecvData ==
    /\ pc = "recv"
    /\ \E upto \in (taken + 1)..(taken + TEXT_BUFFSIZE) :
        /\ upto <= HeaderLen + file.content_len
        /\ taken' = upto
        /\ RecvHeader(upto) \/ RecvBody(upto)
    /\ UNCHANGED <<file, wifi, net, boots>>
\* recv returns 0 at the end of the stream, or an error.
RecvEnd == /\ pc = "recv"
           /\ \/ /\ taken = HeaderLen + file.content_len \/ net = "short"
                 /\ pc' = "end" /\ UNCHANGED <<ota_firm, partition, boot, trouble>>
              \/ Fatal
           /\ UNCHANGED <<file, wifi, taken, net, boots>>
ServerGivesUp == /\ pc = "recv" /\ net = "open" /\ net' = "short" /\ trouble' = TRUE
                 /\ UNCHANGED <<file, pc, wifi, ota_firm, taken, partition, boot, boots>>

\* esp_ota_end verifies what was written; then esp_ota_set_boot_partition and
\* esp_restart.
EndAndSetBoot == /\ pc = "end"
                 /\ \/ /\ partition = Image /\ boot' = "new" /\ pc' = "restarted"
                       /\ UNCHANGED <<ota_firm, partition, trouble>>
                    \/ Fatal
                 /\ UNCHANGED <<file, wifi, taken, net, boots>>
\* Power is cut, or the chip resets: the old firmware starts over.
Reboot == /\ boot = "old" /\ boots < MaxBoots /\ boots' = boots + 1
          /\ pc' = "wifi" /\ wifi' = FALSE /\ taken' = 0 /\ net' = "open" /\ trouble' = FALSE
          /\ UNCHANGED <<file, ota_firm, partition, boot>>

TaskStep == InitialiseWifi \/ ConnectToHttpServer \/ BeginOta \/ RecvData \/ RecvEnd \/ EndAndSetBoot
Next == TaskStep \/ ServerGivesUp \/ Reboot
\* The task goes on; power and the server may do nothing.
Fairness == WF_vars(TaskStep)
Spec == Init /\ [][Next]_vars /\ Fairness
-----------------------------------------------------------------------------
TypeOK == /\ file \in Files /\ boots \in 1..MaxBoots /\ wifi \in BOOLEAN /\ trouble \in BOOLEAN
          /\ pc \in {"wifi", "connect", "begin", "recv", "end", "dead", "reset", "restarted"}
          /\ taken \in 0..(HeaderLen + file.content_len) /\ net \in {"open", "short"}
          /\ ota_firm \in [state : {"INIT", "PREPARE", "START", "RECVED"}, known : BOOLEAN,
                           read : 0..file.content_len, write : 0..file.content_len]
          /\ partition \in Seq(1..file.content_len) /\ boot \in {"old", "new"}
\* What the partition holds is the beginning of the variant's image, whatever
\* the segments: no unit of the header, of the part before the offset or of
\* the image behind it, none twice and none left out (236-262).
WritesTheImage == IsPrefix(partition, Image)
\* If nothing outside fails and no line of the header is cut, the download
\* ends and the new image is booted, for every variant and segmentation.
UpdateCompletes == <>[](boot = "new" \/ trouble)
=============================================================================
