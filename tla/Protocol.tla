------------------------------ MODULE Protocol ------------------------------
(***************************************************************************)
(* Exercise-2/protocol: the buffers that clients and mbroker write to and  *)
(* read from named pipes.  A buffer is a sequence of cells, Nul where      *)
(* memset left it.  A field has the width that the code gives it, and a    *)
(* name takes its first cell: how long fields are matters, because the     *)
(* register pipe is a stream of bytes.  A uint64_t takes one cell.         *)
(***************************************************************************)
EXTENDS Integers, Sequences

CONSTANTS MaxPipeName, MaxBoxName, MaxMessage,  \* widths, at least 1
          Nul,                                  \* '\0'
          None

REQUEST_REGISTER_PUBLISHER == 1
REQUEST_REGISTER_SUBSCRIBER == 2
REQUEST_CREATE_BOX == 3
RESPONSE_CREATE_BOX == 4
REQUEST_REMOVE_BOX == 5
RESPONSE_REMOVE_BOX == 6
REQUEST_LIST_BOX == 7
RESPONSE_LIST_BOX == 8
PUBLISHER_MESSAGE == 9
MESSAGE_SUBSCRIBER == 10

RegisterRequests == {REQUEST_REGISTER_PUBLISHER, REQUEST_REGISTER_SUBSCRIBER,
                     REQUEST_CREATE_BOX, REQUEST_REMOVE_BOX}

\* Where the fields are, after the code.
PipeAt == 2
BoxAt == PipeAt + MaxPipeName
SizeAt == 3 + MaxBoxName

\* Every size counts one more cell than the fields take.
MaxRegisterRequest == 1 + MaxPipeName + MaxBoxName + 1
MaxListRequest == 1 + MaxPipeName + 1
MaxMessageRequest == 1 + MaxMessage + 1
MaxResponseRequest == 1 + 4 + MaxMessage + 1
MaxListResponse == 2 + MaxBoxName + 3 + 1

Zeroed(n) == [i \in 1 .. n |-> Nul]

-----------------------------------------------------------------------------
\* Mutant: the size does without the cell that is never used.
create_register_request_short(code, pipe, box) ==
    [Zeroed(MaxRegisterRequest - 1) EXCEPT ![1] = code, ![PipeAt] = pipe, ![BoxAt] = box]

create_register_request(code, pipe, box) ==
    [Zeroed(MaxRegisterRequest) EXCEPT ![1] = code, ![PipeAt] = pipe, ![BoxAt] = box]

create_list_request(code, pipe) == [Zeroed(MaxListRequest) EXCEPT ![1] = code, ![PipeAt] = pipe]

create_message(code, message) ==
    [i \in 1 .. MaxMessageRequest |->
       IF i = 1 THEN code ELSE IF i - 1 \in DOMAIN message THEN message[i - 1] ELSE Nul]

\* return_code is 0 or -1, in four bytes; the text that follows it is left out.
create_response_request(code, return_code) ==
    [i \in 1 .. MaxResponseRequest |->
       IF i = 1 THEN code ELSE IF i \in 2 .. 5 /\ return_code = -1 THEN 255 ELSE Nul]

memcpy_list_response(code, last, name, size, n_pub, n_sub) ==
    [Zeroed(MaxListResponse) EXCEPT
       ![1] = code, ![2] = IF last THEN 1 ELSE Nul, ![3] = IF name = None THEN Nul ELSE name,
       ![SizeAt] = size, ![SizeAt + 1] = n_pub, ![SizeAt + 2] = n_sub]

create_zero_response(code) == memcpy_list_response(code, TRUE, None, 0, 0, 0)

\* The number of subscribers also stands where that of publishers should.
create_list_response(code, box, last) ==
    memcpy_list_response(code, last, box.name, box.size, box.nsubs, box.nsubs)

-----------------------------------------------------------------------------
\* decode does not return -1.
Decodes(buffer) == buffer[1] \in RegisterRequests \cup {REQUEST_LIST_BOX}

\* What decode_register and decode_list_box give a worker.
decode(buffer) ==
    [code |-> buffer[1], client |-> buffer[PipeAt],
     box |-> IF buffer[1] = REQUEST_LIST_BOX THEN None ELSE buffer[BoxAt]]

\* A string ends before the first Nul.
CString(cells) ==
    SubSeq(cells, 1, CHOOSE n \in 0 .. Len(cells) :
                       /\ \A k \in 1 .. n : cells[k] # Nul
                       /\ n < Len(cells) => cells[n + 1] = Nul)

IsMessage(buffer) == buffer[1] \in {PUBLISHER_MESSAGE, MESSAGE_SUBSCRIBER}

\* Mutant: the code is taken for the beginning of the message.
decode_message_coded(buffer) == IF IsMessage(buffer) THEN CString(SubSeq(buffer, 1, MaxMessage)) ELSE <<>>

\* The string that a caller has in its zeroed buffer afterwards.
decode_message(buffer) == IF IsMessage(buffer) THEN CString(SubSeq(buffer, 2, 1 + MaxMessage)) ELSE <<>>

decode_list_response(buffer) ==
    [last |-> buffer[2] = 1, name |-> buffer[3], size |-> buffer[SizeAt],
     n_publisher |-> buffer[SizeAt + 1], n_subscriber |-> buffer[SizeAt + 2]]

\* The test that get_response makes: the first byte of return_code, as a char.
ErrorResponse(buffer) == buffer[2] = 255
=============================================================================
