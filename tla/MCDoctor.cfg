CONSTANT Machines <- MCMachines
SPECIFICATION DoctorSpec
INVARIANTS EncoderAgrees MatrixIsRight
