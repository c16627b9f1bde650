--------------------------- MODULE ImportContract ---------------------------
(***************************************************************************)
(* What the compliance import promises to the readers of the Vehicles and  *)
(* Processes tables, without saying how a file is read, chunked or         *)
(* inserted.  A reader of Vehicles sees the table emptied and then, in one *)
(* step, the whole file of an import; a reader of Processes sees each      *)
(* import go Waiting, Running and then Finished or Failed, Finished only   *)
(* after its vehicles were published and Failed only when they never were. *)
(* ComplianceImport implements this module.                                *)
(***************************************************************************)

CONSTANTS Run,      \* one element per execution of the import function
          Vehicle   \* the rows the Vehicles table can hold

VARIABLES status,     \* status[r]: what the Processes table says of r
          offer,      \* offer[r]: the rows of the file named by request r
          table,      \* the committed rows of Vehicles
          published   \* the runs whose rows were committed

contractVars == <<status, offer, table, published>>

Status == {"Absent", "Waiting", "Running", "Finished", "Failed", "Deleted"}

ContractInit ==
    /\ status = [r \in Run |-> "Absent"]
    /\ offer = [r \in Run |-> {}]
    /\ table \subseteq Vehicle
    /\ published = {}

(* A request arrives and names a file.                                     *)
Submit(r) ==
    /\ status[r] = "Absent"
    /\ offer'[r] \subseteq Vehicle
    /\ offer' = [offer EXCEPT ![r] = offer'[r]]
    /\ UNCHANGED <<status, table, published>>

SetStatus(r, s) ==
    /\ status' = [status EXCEPT ![r] = s]
    /\ UNCHANGED <<offer, table, published>>

Create(r) == status[r] = "Absent" /\ SetStatus(r, "Waiting")
Start(r)  == status[r] = "Waiting" /\ SetStatus(r, "Running")
Finish(r) == status[r] = "Running" /\ r \in published /\ SetStatus(r, "Finished")
Fail(r)   == status[r] = "Running" /\ r \notin published /\ SetStatus(r, "Failed")
Delete(r) == status[r] \notin {"Absent", "Deleted"} /\ SetStatus(r, "Deleted")

(* Deleting the process row does not stop the import that it describes.    *)
MayWrite(r) == status[r] \in {"Running", "Deleted"} /\ r \notin published

Clear(r) ==
    /\ MayWrite(r)
    /\ table' = {}
    /\ UNCHANGED <<status, offer, published>>

Publish(r) ==
    /\ MayWrite(r)
    /\ table' = table \cup offer[r]
    /\ published' = published \cup {r}
    /\ UNCHANGED <<status, offer>>

ContractNext ==
    \E r \in Run :
        \/ Submit(r) \/ Create(r) \/ Start(r)
        \/ Finish(r) \/ Fail(r) \/ Delete(r)
        \/ Clear(r) \/ Publish(r)

ContractSpec == ContractInit /\ [][ContractNext]_contractVars
=============================================================================
