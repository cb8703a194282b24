----------------------------- MODULE MCNotices -----------------------------
(* Small instances of Notices for TLC. *)
EXTENDS Notices, TLC

MCOffset == [type \in Timed |-> IF type \in Reminder THEN -1 ELSE 1]

(* Each type by itself. *)
MCFollowed == {{type} : type \in Types}

(* More writes where a type has one job, fewer where each write adds a job. *)
MCMaxOps ==
    [types \in MCFollowed |->
        IF types \cap Reminder # {} THEN 4
        ELSE IF types \cap {"send-pending", "send-confirmation", "send-reschedule"} # {}
        THEN 2 ELSE 3]

MCMaxFaults == [types \in MCFollowed |-> IF "send-confirmation" \in types THEN 0 ELSE 1]

(* The reminder alone, with fewer writes. *)
ReminderFollowed == {Reminder}
ReminderMaxOps == [types \in ReminderFollowed |-> 2]
ReminderMaxFaults == [types \in ReminderFollowed |-> 1]

(* The first message of a booking goes out as mail and as text. *)
MCChannel ==
    [type \in Types |-> IF type = "send-pending" THEN <<"EMAIL", "SMS">> ELSE <<"EMAIL">>]

(* No action and no property tells two handlers or two workers apart. *)
Symmetry == Permutations(Call) \cup Permutations(Worker)
=============================================================================
