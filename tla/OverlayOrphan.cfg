CONSTANTS
    server = server
    periodic = periodic
    resume = resume
    Threads = {server, periodic, resume}
    Helpers = {h1, h2, h3}
    None = None
    Server = server
    Periodic = periodic
    Resumes = {resume}
    MaxFaults = 1
SPECIFICATION Spec
INVARIANTS NoOrphan
